---------------------------- MODULE ContentProofs ----------------------------
(***************************************************************************)
(* Proofs about the content side: the week publication and the editorial   *)
(* workflow in front of it, for every number of editions, commands,        *)
(* candidates and stories; and the registry of the X accounts that content *)
(* is acquired from, for every number of accounts, users and partitions.   *)
(* The bug reports and their screenshots, for every number of reports,     *)
(* public ids and legacy objects.  The intake of an item of a feed, for    *)
(* every number of versions, runs, workers, faults and credits.            *)
(***************************************************************************)
EXTENDS WeekPublication, Editorial, SourceRegistry, BugReports, ContentIntake, SequenceTheorems,
        WellFoundedInduction, FiniteSetTheorems, TLAPS

(***************************************************************************)
(* The week publication.                                                   *)
(***************************************************************************)

\* The editions that have a publication.
PublishedEditions == {e \in WeekEdition : published[e] # 0}

\* The revisions are numbered without gaps, in the editions as in the commands
\* that made them, and no two editions or commands share one.
Numbered ==
    /\ latest = Cardinality(PublishedEditions)
    /\ \A e \in WeekEdition : published[e] <= latest
    /\ \A k \in Key : command[k] <= latest
    /\ \A n \in 1..latest : /\ \E e \in WeekEdition : published[e] = n
                            /\ \E k \in Key : command[k] = n
    /\ \A e, f \in WeekEdition : published[e] = published[f] /\ published[e] # 0 => e = f
    /\ \A j, k \in Key : command[j] = command[k] /\ command[j] # 0 => j = k

\* A publisher that stages has its publication, and the payloads it has
\* written are still there.
Staged ==
    \A k \in Key :
        /\ publisher[k] \in {"en", "zh", "pointer"} => command[k] # 0
        /\ publisher[k] = "zh" => "en" \in payload[command[k]]
        /\ publisher[k] = "pointer" => payload[command[k]] = Locale

\* The inductive invariant behind WeekInv.
WeekIInv == WeekTypeOK /\ Numbered /\ Staged /\ WeekPointerReadable

\* As long as an edition is unpublished there is a revision left for it.
LEMMA RevisionLeft ==
  ASSUME WeekTypeOK, Numbered, NEW e \in WeekEdition, published[e] = 0
  PROVE  /\ latest + 1 \in Revision
         /\ Cardinality(PublishedEditions \cup {e}) = latest + 1
<1>1. IsFiniteSet(WeekEdition) /\ PublishedEditions \subseteq WeekEdition
  BY WeekAssumption DEF PublishedEditions
<1>2. IsFiniteSet(PublishedEditions) /\ e \notin PublishedEditions
  BY <1>1, FS_Subset DEF PublishedEditions
<1>3. Cardinality(PublishedEditions \cup {e}) = latest + 1
  BY <1>2, FS_AddElement DEF Numbered
<1>4. Cardinality(PublishedEditions \cup {e}) <= Cardinality(WeekEdition)
  <2>1. PublishedEditions \cup {e} \subseteq WeekEdition
    BY <1>1
  <2> QED
    BY <1>1, <2>1, FS_Subset
<1>5. latest \in Nat /\ Cardinality(WeekEdition) \in Nat
  BY <1>1, <1>2, FS_CardinalityType DEF Numbered
<1> QED
  BY <1>3, <1>4, <1>5 DEF Revision

\* Revisions are natural numbers from 1.
LEMMA RevisionType ==
  /\ Cardinality(WeekEdition) \in Nat
  /\ Revision \subseteq Nat /\ 0 \notin Revision
BY WeekAssumption, FS_CardinalityType DEF Revision

\* The steps after the publishing transaction leave the numbering alone.
LEMMA NumberedFrame ==
  ASSUME Numbered, UNCHANGED <<published, command, latest>>
  PROVE  Numbered'
BY DEF Numbered, PublishedEditions

\* The transaction of a new command keeps the invariant.
LEMMA PublishStep ==
  ASSUME WeekIInv, NEW k \in Key, NEW e \in WeekEdition, publishFrozenWeekEdition(k, e)
  PROVE  WeekIInv'
<1> USE DEF WeekIInv, redisWeek
<1>1. /\ command[k] = 0 /\ published[e] = 0 /\ publisher[k] = "idle"
      /\ publisher' = [publisher EXCEPT ![k] = "en"]
      /\ latest' = latest + 1 /\ active' = latest + 1
      /\ published' = [published EXCEPT ![e] = latest + 1]
      /\ outboxRow' = [outboxRow EXCEPT ![latest + 1] = "pending"]
      /\ command' = [command EXCEPT ![k] = latest + 1]
      /\ UNCHANGED <<payload, weekPointer, batch, told, weekFaults>>
  BY DEF publishFrozenWeekEdition, NotReserved, PublisherAt, persistWeekPublication
<1>2. /\ latest + 1 \in Revision
      /\ Cardinality(PublishedEditions \cup {e}) = latest + 1
  BY <1>1, RevisionLeft
<1>3. WeekTypeOK'
  BY <1>1, <1>2 DEF WeekTypeOK
<1>4. latest \in Nat
  BY RevisionType DEF WeekTypeOK
<1>5. /\ published'[e] = latest + 1
      /\ \A f \in WeekEdition \ {e} : published'[f] = published[f]
      /\ command'[k] = latest + 1
      /\ \A j \in Key \ {k} : command'[j] = command[j]
      /\ publisher'[k] = "en"
      /\ \A j \in Key \ {k} : publisher'[j] = publisher[j]
  BY <1>1 DEF WeekTypeOK
<1>6. /\ \A f \in WeekEdition : published[f] \in Nat /\ published[f] <= latest
      /\ \A j \in Key : command[j] \in Nat /\ command[j] <= latest
  <2>1. /\ \A f \in WeekEdition : published[f] \in Revision \cup {0}
        /\ \A j \in Key : command[j] \in Revision \cup {0}
    BY DEF WeekTypeOK
  <2>2. \A x \in Revision \cup {0} : x \in Nat
    BY RevisionType
  <2> QED
    BY <2>1, <2>2, Zenon DEF Numbered
<1>7. Numbered'
  <2>1. PublishedEditions' = PublishedEditions \cup {e}
    BY <1>1, <1>4, <1>5 DEF PublishedEditions
  <2>2. latest' = Cardinality(PublishedEditions')
    BY <1>1, <1>2, <2>1
  <2>3. /\ \A f \in WeekEdition : published'[f] <= latest'
        /\ \A j \in Key : command'[j] <= latest'
    BY <1>1, <1>4, <1>5, <1>6
  <2>4. ASSUME NEW n \in 1..latest'
        PROVE  /\ \E f \in WeekEdition : published'[f] = n
               /\ \E j \in Key : command'[j] = n
    <3>1. CASE n = latest + 1
      BY <1>5, <3>1
    <3>2. CASE n # latest + 1
      <4>1. n \in 1..latest
        BY <1>1, <1>4, <3>2
      <4>2. PICK f \in WeekEdition, j \in Key : published[f] = n /\ command[j] = n
        BY <4>1 DEF Numbered
      <4>3. f # e /\ j # k
        BY <1>1, <4>1, <4>2
      <4> QED
        BY <1>5, <4>2, <4>3
    <3> QED
      BY <3>1, <3>2
  <2>5. \A f, g \in WeekEdition : published'[f] = published'[g] /\ published'[f] # 0 => f = g
    BY <1>4, <1>5, <1>6 DEF Numbered
  <2>6. \A i, j \in Key : command'[i] = command'[j] /\ command'[i] # 0 => i = j
    BY <1>4, <1>5, <1>6 DEF Numbered
  <2> QED
    BY <2>2, <2>3, <2>4, <2>5, <2>6 DEF Numbered
<1>8. Staged'
  BY <1>1, <1>4, <1>5 DEF Staged
<1> QED
  BY <1>1, <1>3, <1>7, <1>8 DEF WeekPointerReadable

\* A payload is added for the command's revision; payloads only grow.
LEMMA StageStep ==
  ASSUME WeekIInv, NEW k \in Key, stageWeekPublication(k)
  PROVE  WeekIInv'
<1> USE DEF WeekIInv, redisWeek, dbWeek
<1>1. PICK l \in Locale, to \in {"zh", "pointer"} :
        /\ \/ publisher[k] = "en" /\ l = "en" /\ to = "zh"
           \/ publisher[k] = "zh" /\ l = "zh-CN" /\ to = "pointer"
        /\ publisher' = [publisher EXCEPT ![k] = to]
        /\ payload' = [payload EXCEPT ![command[k]] = @ \cup {l}]
        /\ UNCHANGED <<dbWeek, weekPointer, batch, told, weekFaults>>
  BY DEF stageWeekPublication, StageLocale, PublisherAt, Locale
<1>2. command[k] \in Revision
  BY <1>1 DEF WeekTypeOK, Staged
<1>3. /\ payload'[command[k]] = payload[command[k]] \cup {l}
      /\ \A n \in Revision : payload[n] \subseteq payload'[n]
      /\ \A n \in Revision : payload[n] = Locale => payload'[n] = Locale
  <2>1. \A n \in Revision : payload[n] \subseteq Locale
    BY DEF WeekTypeOK
  <2>2. \A n \in Revision : payload'[n] = IF n = command[k] THEN payload[n] \cup {l}
                                                          ELSE payload[n]
    BY <1>1, <1>2 DEF WeekTypeOK
  <2> QED
    BY <1>2, <2>1, <2>2
<1>4. WeekTypeOK'
  BY <1>1, <1>2 DEF WeekTypeOK
<1>5. Numbered'
  BY <1>1, NumberedFrame
<1>6. ASSUME NEW j \in Key
      PROVE  /\ publisher'[j] \in {"en", "zh", "pointer"} => command'[j] # 0
             /\ publisher'[j] = "zh" => "en" \in payload'[command'[j]]
             /\ publisher'[j] = "pointer" => payload'[command'[j]] = Locale
  <2>1. CASE j = k
    <3>1. publisher'[k] = to /\ command'[k] = command[k] /\ command[k] # 0
      BY <1>1, <1>2, RevisionType DEF WeekTypeOK
    <3>2. CASE publisher[k] = "en"
      BY <1>1, <1>3, <2>1, <3>1, <3>2
    <3>3. CASE publisher[k] = "zh"
      <4>1. "en" \in payload[command[k]] /\ payload[command[k]] \subseteq Locale
        BY <1>2, <3>3 DEF Staged, WeekTypeOK
      <4>2. payload'[command[k]] = Locale /\ to = "pointer"
        BY <1>1, <1>3, <3>3, <4>1 DEF Locale
      <4> QED
        BY <2>1, <3>1, <4>2
    <3> QED
      BY <1>1, <3>2, <3>3
  <2>2. CASE j # k
    <3>1. publisher'[j] = publisher[j] /\ command'[j] = command[j]
      BY <1>1, <2>2 DEF WeekTypeOK
    <3>2. publisher[j] \in {"en", "zh", "pointer"} => command[j] \in Revision
      BY DEF WeekTypeOK, Staged
    <3> QED
      BY <1>3, <3>1, <3>2 DEF Staged
  <2> QED
    BY <2>1, <2>2
<1>7. WeekPointerReadable'
  BY <1>1, <1>3 DEF WeekPointerReadable, WeekTypeOK
<1> QED
  BY <1>4, <1>5, <1>6, <1>7 DEF Staged

LEMMA WeekStep == WeekIInv /\ [WeekNext]_weekVars => WeekIInv'
<1> SUFFICES ASSUME WeekIInv, [WeekNext]_weekVars PROVE WeekIInv'
  OBVIOUS
<1> USE DEF WeekIInv, redisWeek, dbWeek
\* Steps that write no publication, no payload and no pointer.
<1>1. ASSUME WeekTypeOK', UNCHANGED <<published, command, latest, payload, weekPointer>>,
             \A k \in Key : \/ publisher'[k] \in {publisher[k], "idle", "dispatch"}
                            \/ publisher'[k] = "en" /\ command[k] # 0
      PROVE  WeekIInv'
  <2>1. Staged'
    BY <1>1 DEF Staged
  <2> QED
    BY <1>1, <2>1, NumberedFrame DEF WeekPointerReadable
<1>2. ASSUME NEW k \in Key, Replay(k) PROVE WeekIInv'
  <2>1. WeekTypeOK'
    BY <1>2 DEF WeekTypeOK, Replay, PublisherAt
  <2> QED
    BY <1>1, <1>2, <2>1 DEF WeekTypeOK, Replay, PublisherAt, NotReserved
<1>3. ASSUME NEW k \in Key, compareAndSetWeekPointer(k) PROVE WeekIInv'
  <2>1. command[k] \in Revision /\ payload[command[k]] = Locale
    BY <1>3 DEF WeekTypeOK, Staged, compareAndSetWeekPointer, PublisherAt
  <2>2. WeekTypeOK'
    BY <1>3, <2>1 DEF WeekTypeOK, compareAndSetWeekPointer, PublisherAt
  <2>3. Staged'
    BY <1>3 DEF WeekTypeOK, Staged, compareAndSetWeekPointer, PublisherAt
  <2>4. WeekPointerReadable'
    BY <1>3, <2>1 DEF WeekPointerReadable, compareAndSetWeekPointer
  <2> QED
    BY <1>3, <2>2, <2>3, <2>4, NumberedFrame DEF compareAndSetWeekPointer
<1>4. ASSUME NEW k \in Key, StageFails(k) PROVE WeekIInv'
  <2>1. WeekTypeOK'
    BY <1>4, WeekAssumption DEF WeekTypeOK, StageFails, PublisherAt, WeekFault
  <2> QED
    BY <1>1, <1>4, <2>1 DEF WeekTypeOK, StageFails, PublisherAt
<1>5. ASSUME NEW k \in Key, PublisherCrash(k) PROVE WeekIInv'
  <2>1. WeekTypeOK'
    BY <1>5, WeekAssumption DEF WeekTypeOK, PublisherCrash, WeekFault, Dispatcher
  <2> QED
    BY <1>1, <1>5, <2>1 DEF WeekTypeOK, PublisherCrash
<1>6. ASSUME NEW k \in Key, Answer(k) PROVE WeekIInv'
  <2>1. WeekTypeOK'
    BY <1>6 DEF WeekTypeOK, Answer, PublisherAt
  <2> QED
    BY <1>1, <1>6, <2>1 DEF WeekTypeOK, Answer, PublisherAt
<1>7. ASSUME NEW d \in Dispatcher, ListOutbox(d) PROVE WeekIInv'
  <2>1. WeekTypeOK'
    BY <1>7 DEF WeekTypeOK, ListOutbox, Pending
  <2> QED
    BY <1>1, <1>7, <2>1 DEF ListOutbox
<1>8. ASSUME NEW d \in Dispatcher, NEW n \in Revision, dispatchPublicationOutbox(d, n)
      PROVE  WeekIInv'
  <2>1. WeekTypeOK'
    BY <1>8 DEF WeekTypeOK, dispatchPublicationOutbox
  <2> QED
    BY <1>1, <1>8, <2>1 DEF dispatchPublicationOutbox
<1>9. ASSUME NEW d \in Dispatcher, NEW n \in Revision, DispatchFails(d, n)
      PROVE  WeekIInv'
  <2>1. WeekTypeOK'
    BY <1>9, WeekAssumption DEF WeekTypeOK, DispatchFails, WeekFault
  <2> QED
    BY <1>1, <1>9, <2>1 DEF DispatchFails
<1>10. CASE UNCHANGED weekVars
  <2>1. WeekTypeOK'
    BY <1>10 DEF WeekTypeOK, weekVars, Pending
  <2> QED
    BY <1>1, <1>10, <2>1 DEF weekVars
<1> QED
  BY <1>2, <1>3, <1>4, <1>5, <1>6, <1>7, <1>8, <1>9, <1>10, PublishStep, StageStep
  DEF WeekNext

\* The inductive invariant of the week publication holds throughout.
THEOREM WeekInvariance == WeekSpec => []WeekIInv
<1>1. WeekInit => WeekIInv
  <2> SUFFICES ASSUME WeekInit PROVE WeekIInv
    OBVIOUS
  <2>1. PublishedEditions = {}
    BY DEF WeekInit, PublishedEditions
  <2>2. Cardinality(PublishedEditions) = 0
    BY <2>1, FS_EmptySet
  <2>3. WeekTypeOK
    BY WeekAssumption DEF WeekInit, WeekTypeOK
  <2> QED
    BY <2>2, <2>3 DEF WeekInit, WeekIInv, Numbered, Staged, WeekPointerReadable
<1> QED
  BY <1>1, WeekStep, PTL DEF WeekSpec

\* WeekInv: whatever publishers crash, repeat or overlap, the pointer names a
\* revision both of whose locales are readable, and every revision belongs to
\* exactly one edition and one command.
THEOREM WeekInvHolds == WeekSpec => []WeekInv
<1>1. ASSUME WeekIInv PROVE OneRevisionPerEdition
  <2> SUFFICES ASSUME NEW n \in 1..latest
               PROVE  /\ Cardinality({e \in WeekEdition : published[e] = n}) = 1
                      /\ Cardinality({k \in Key : command[k] = n}) = 1
    BY DEF OneRevisionPerEdition
  <2>1. n # 0
    OBVIOUS
  <2>2. PICK e \in WeekEdition, k \in Key : published[e] = n /\ command[k] = n
    BY <1>1 DEF WeekIInv, Numbered
  <2>3. {f \in WeekEdition : published[f] = n} = {e} /\ {j \in Key : command[j] = n} = {k}
    BY <1>1, <2>1, <2>2 DEF WeekIInv, Numbered
  <2> QED
    BY <2>3, FS_Singleton
<1>2. WeekIInv => WeekInv
  BY <1>1 DEF WeekIInv, WeekInv
<1> QED
  BY <1>2, WeekInvariance, PTL

\* The pointer never goes back, however late a publisher's swap comes.
THEOREM WeekPointerNeverGoesBackHolds == WeekSpec => WeekPointerNeverGoesBack
<1>1. WeekIInv /\ [WeekNext]_weekVars => weekPointer <= weekPointer'
  <2> SUFFICES ASSUME WeekIInv, [WeekNext]_weekVars PROVE weekPointer <= weekPointer'
    OBVIOUS
  <2>1. weekPointer \in Nat
    BY RevisionType DEF WeekIInv, WeekTypeOK
  <2>2. ASSUME NEW k \in Key, compareAndSetWeekPointer(k) PROVE weekPointer <= weekPointer'
    BY <2>1, <2>2 DEF compareAndSetWeekPointer, NotStale
  <2>3. CASE UNCHANGED weekPointer
    BY <2>1, <2>3
  <2> QED
    BY <2>2, <2>3 DEF WeekNext, weekVars, redisWeek, publishFrozenWeekEdition, Replay,
       stageWeekPublication, StageLocale, StageFails, PublisherCrash, Answer, ListOutbox,
       dispatchPublicationOutbox, DispatchFails
<1> QED
  BY <1>1, WeekInvariance, PTL DEF WeekSpec, WeekPointerNeverGoesBack

(***************************************************************************)
(* The editorial workflow.                                                 *)
(***************************************************************************)

\* A candidate that was not created yet holds nothing that a creation could
\* overwrite.
AbsentIsEmpty == \A c \in Candidate : cand[c].status = "absent" => cand[c].receipts = {}

\* From the first step of the freeze the runs of an edition are verified.
FreezingIsVerified ==
    \A e \in Edition : edition[e].status \in {"freezing", "ready"}
                          => edition[e].runs \subseteq verified

Candidates == AbsentIsEmpty /\ MergeKeepsReceipts
Freezes == FreezingIsVerified /\ FrozenIsCleared

\* The inductive invariant behind EditorialInv.
EditorialIInv == EditorialTypeOK /\ Candidates /\ Freezes

\* Only the commands on candidates touch candidates.
LEMMA CandidatesNext ==
  EditorialIInv /\ [EditorialNext]_editorialVars => Candidates'
<1> SUFFICES ASSUME EditorialTypeOK, AbsentIsEmpty, MergeKeepsReceipts,
                    [EditorialNext]_editorialVars
             PROVE  Candidates'
  BY DEF EditorialIInv, Candidates
<1>1. ASSUME NEW c \in Candidate, NEW R \in SUBSET Receipt,
             createCandidateFromReceipts(c, R)
      PROVE  Candidates'
  <2>1. /\ cand'[c] = [status |-> "new", receipts |-> R]
        /\ \A d \in Candidate \ {c} : cand'[d] = cand[d]
        /\ cand[c].receipts = {}
    BY <1>1 DEF EditorialTypeOK, AbsentIsEmpty, createCandidateFromReceipts
  <2>2. AbsentIsEmpty'
    BY <2>1 DEF AbsentIsEmpty
  <2>3. ASSUME NEW d \in Candidate, NEW r \in cand'[d].receipts
        PROVE  \E w \in Candidate : cand'[w].status # "merged" /\ r \in cand'[w].receipts
    <3>1. CASE d = c
      BY <2>1, <2>3, <3>1
    <3>2. CASE d # c
      BY <2>1, <2>3, <3>2 DEF MergeKeepsReceipts
    <3> QED
      BY <3>1, <3>2
  <2> QED
    BY <2>2, <2>3 DEF Candidates, MergeKeepsReceipts
<1>2. ASSUME NEW c \in Candidate, acceptCandidate(c) PROVE Candidates'
  <2>1. /\ cand'[c].status = "accepted" /\ cand'[c].receipts = cand[c].receipts
        /\ \A d \in Candidate \ {c} : cand'[d] = cand[d]
    BY <1>2 DEF EditorialTypeOK, acceptCandidate
  <2> QED
    BY <2>1 DEF Candidates, AbsentIsEmpty, MergeKeepsReceipts
<1>3. ASSUME NEW c \in Candidate, NEW S \in SUBSET Candidate, mergeCandidates(c, S)
      PROVE  Candidates'
  <2>1. /\ cand'[c] = [status |-> "accepted", receipts |-> MergedReceipts(c, S)]
        /\ \A d \in S : cand'[d].status = "merged" /\ cand'[d].receipts = cand[d].receipts
        /\ \A d \in Candidate : d # c /\ d \notin S => cand'[d] = cand[d]
        /\ c \notin S
    BY <1>3 DEF EditorialTypeOK, mergeCandidates
  <2>2. \A d \in S \cup {c} : cand[d].receipts \subseteq cand'[c].receipts
    BY <2>1 DEF MergedReceipts
  <2>3. AbsentIsEmpty'
    BY <2>1 DEF AbsentIsEmpty
  <2>4. ASSUME NEW d \in Candidate, NEW r \in cand'[d].receipts
        PROVE  \E w \in Candidate : cand'[w].status # "merged" /\ r \in cand'[w].receipts
    <3>1. CASE d = c
      BY <2>1, <2>4, <3>1
    <3>2. CASE d # c
      <4>1. r \in cand[d].receipts
        BY <2>1, <2>4, <3>2
      <4>2. PICK w \in Candidate : cand[w].status # "merged" /\ r \in cand[w].receipts
        BY <4>1 DEF MergeKeepsReceipts
      <4>3. CASE w \in S \cup {c}
        BY <2>1, <2>2, <4>2, <4>3
      <4>4. CASE w \notin S \cup {c}
        BY <2>1, <4>2, <4>4
      <4> QED
        BY <4>3, <4>4
    <3> QED
      BY <3>1, <3>2
  <2> QED
    BY <2>3, <2>4 DEF Candidates, MergeKeepsReceipts
<1>4. CASE cand' = cand
  BY <1>4 DEF Candidates, AbsentIsEmpty, MergeKeepsReceipts
<1> QED
  BY <1>1, <1>2, <1>3, <1>4
  DEF EditorialNext, editorialVars, DraftReads, createDraftStory, markStoryReady,
      attachStoryEvidence, createWeekEdition, AddReads, addWeekEditionItem, FreezeReads,
      markWeekEditionReady, FreezeRefused, RunVerified

\* The freeze checks the evidence that it freezes, in the step that does it.
LEMMA FreezesNext ==
  EditorialIInv /\ [EditorialNext]_editorialVars => Freezes'
<1> SUFFICES ASSUME EditorialTypeOK, FreezingIsVerified, FrozenIsCleared,
                    [EditorialNext]_editorialVars
             PROVE  Freezes'
  BY DEF EditorialIInv, Freezes
\* One edition changes: its runs stay verified and its snapshot cleared.
<1>1. ASSUME NEW e \in Edition, verified' = verified,
             \A d \in Edition \ {e} : edition'[d] = edition[d],
             edition'[e].status \in {"freezing", "ready"} => edition'[e].runs \subseteq verified,
             \A f \in edition'[e].frozen :
                f[2] \in Public /\ RunOf[f[2]] \in edition'[e].runs \cap verified
      PROVE  Freezes'
  BY <1>1 DEF Freezes, FreezingIsVerified, FrozenIsCleared
\* ... its runs and its snapshot do not change.
<1>2. ASSUME NEW e \in Edition, verified' = verified,
             \A d \in Edition \ {e} : edition'[d] = edition[d],
             edition'[e].runs = edition[e].runs, edition'[e].frozen = edition[e].frozen,
             edition'[e].status \in {"freezing", "ready"} => edition[e].runs \subseteq verified
      PROVE  Freezes'
  BY <1>1, <1>2 DEF FrozenIsCleared
<1>3. ASSUME NEW e \in Edition, NEW A \in SUBSET AcqRun, createWeekEdition(e, A)
      PROVE  Freezes'
  <2>1. /\ edition'[e].status = "draft" /\ edition'[e].frozen = {}
        /\ \A d \in Edition \ {e} : edition'[d] = edition[d]
        /\ verified' = verified
    BY <1>3 DEF EditorialTypeOK, EditionRecord, createWeekEdition, NoEdition
  <2> QED
    BY <1>1, <2>1
<1>4. ASSUME NEW e \in Edition, NEW s \in Story, addWeekEditionItem(e, s) PROVE Freezes'
  <2>1. /\ edition'[e].status = edition[e].status /\ edition'[e].runs = edition[e].runs
        /\ edition'[e].frozen = edition[e].frozen
        /\ \A d \in Edition \ {e} : edition'[d] = edition[d]
        /\ verified' = verified
    BY <1>4 DEF EditorialTypeOK, EditionRecord, addWeekEditionItem
  <2> QED
    BY <1>2, <2>1 DEF FreezingIsVerified
<1>5. ASSUME NEW e \in Edition, FreezeReads(e) \/ FreezeRefused(e) PROVE Freezes'
  <2>1. /\ edition'[e].runs = edition[e].runs /\ edition'[e].frozen = edition[e].frozen
        /\ edition'[e].status = "freezing" => edition[e].runs \subseteq verified
        /\ edition'[e].status \in {"freezing", "draft"}
        /\ \A d \in Edition \ {e} : edition'[d] = edition[d]
        /\ verified' = verified
    <3>1. CASE FreezeReads(e)
      BY <3>1 DEF EditorialTypeOK, EditionRecord, FreezeReads
    <3>2. CASE FreezeRefused(e)
      BY <3>2 DEF EditorialTypeOK, EditionRecord, FreezeRefused
    <3> QED
      BY <1>5, <3>1, <3>2
  <2> QED
    BY <1>2, <2>1
<1>6. ASSUME NEW e \in Edition, markWeekEditionReady(e) PROVE Freezes'
  <2>1. /\ edition'[e].runs = edition[e].runs
        /\ edition'[e].frozen = {f \in edition[e].reading \X Receipt :
                                   f[2] \in story[f[1]].evidence}
        /\ \A d \in Edition \ {e} : edition'[d] = edition[d]
        /\ verified' = verified
    BY <1>6 DEF EditorialTypeOK, EditionRecord, markWeekEditionReady
  <2>2. edition[e].runs \subseteq verified
    BY <1>6 DEF FreezingIsVerified, markWeekEditionReady
  <2>3. ASSUME NEW f \in edition'[e].frozen
        PROVE  f[2] \in Public /\ RunOf[f[2]] \in edition[e].runs
    <3>1. f[1] \in edition[e].reading /\ f[2] \in story[f[1]].evidence
      BY <2>1, <2>3
    <3> QED
      BY <1>6, <3>1 DEF markWeekEditionReady, EvidenceCleared
  <2> QED
    BY <1>1, <2>1, <2>2, <2>3
<1>7. ASSUME NEW a \in AcqRun, RunVerified(a) PROVE Freezes'
  BY <1>7 DEF Freezes, FreezingIsVerified, FrozenIsCleared, RunVerified
<1>8. CASE UNCHANGED <<edition, verified>>
  BY <1>8 DEF Freezes, FreezingIsVerified, FrozenIsCleared
<1> QED
  BY <1>3, <1>4, <1>5, <1>6, <1>7, <1>8
  DEF EditorialNext, editorialVars, createCandidateFromReceipts, acceptCandidate,
      mergeCandidates, DraftReads, createDraftStory, markStoryReady, attachStoryEvidence,
      AddReads

\* An edition stays a record of its type when the steps of a freeze, or a new
\* item, replace some of its fields.
LEMMA EditionUpdates ==
  ASSUME NEW r \in EditionRecord
  PROVE  /\ \A x \in SUBSET Story : [r EXCEPT !.items = x] \in EditionRecord
         /\ \A x \in SUBSET Story :
               [r EXCEPT !.status = "freezing", !.reading = x] \in EditionRecord
         /\ [r EXCEPT !.status = "draft", !.reading = {}] \in EditionRecord
         /\ \A x \in SUBSET (Story \X Receipt) :
               [r EXCEPT !.status = "ready", !.reading = {}, !.frozen = x] \in EditionRecord
BY DEF EditionRecord

\* Every command of the workflow keeps the types.
LEMMA EditorialTypeNext ==
  EditorialTypeOK /\ [EditorialNext]_editorialVars => EditorialTypeOK'
<1> SUFFICES ASSUME EditorialTypeOK, [EditorialNext]_editorialVars PROVE EditorialTypeOK'
  OBVIOUS
<1> USE DEF EditorialTypeOK
<1>1. ASSUME NEW c \in Candidate, NEW R \in SUBSET Receipt,
             createCandidateFromReceipts(c, R)
      PROVE  EditorialTypeOK'
  BY <1>1 DEF createCandidateFromReceipts
<1>2. ASSUME NEW c \in Candidate, acceptCandidate(c) PROVE EditorialTypeOK'
  BY <1>2 DEF acceptCandidate
<1>3. ASSUME NEW c \in Candidate, NEW S \in SUBSET Candidate, mergeCandidates(c, S)
      PROVE  EditorialTypeOK'
  <2>1. MergedReceipts(c, S) \in SUBSET Receipt
    BY DEF MergedReceipts
  <2> QED
    BY <1>3, <2>1 DEF mergeCandidates
<1>4. ASSUME NEW s \in Story, NEW c \in Candidate, DraftReads(s, c) PROVE EditorialTypeOK'
  BY <1>4 DEF DraftReads
<1>5. ASSUME NEW s \in Story, createDraftStory(s) PROVE EditorialTypeOK'
  BY <1>5 DEF createDraftStory
<1>6. ASSUME NEW s \in Story, markStoryReady(s) PROVE EditorialTypeOK'
  BY <1>6 DEF markStoryReady
<1>7. ASSUME NEW s \in Story, NEW R \in SUBSET Receipt, attachStoryEvidence(s, R)
      PROVE  EditorialTypeOK'
  BY <1>7 DEF attachStoryEvidence
<1>8. ASSUME NEW e \in Edition, NEW A \in SUBSET AcqRun, createWeekEdition(e, A)
      PROVE  EditorialTypeOK'
  BY <1>8 DEF createWeekEdition, NoEdition, EditionRecord
<1>9. ASSUME NEW e \in Edition, NEW s \in Story, AddReads(e, s) PROVE EditorialTypeOK'
  BY <1>9 DEF AddReads
<1>10. ASSUME NEW e \in Edition, NEW s \in Story, addWeekEditionItem(e, s)
       PROVE  EditorialTypeOK'
  <2>1. edition[e].items \cup {s} \in SUBSET Story /\ edition[e] \in EditionRecord
    BY DEF EditionRecord
  <2> QED
    BY <1>10, <2>1, EditionUpdates DEF addWeekEditionItem
<1>11. ASSUME NEW e \in Edition, FreezeReads(e) PROVE EditorialTypeOK'
  <2>1. edition[e].items \in SUBSET Story /\ edition[e] \in EditionRecord
    BY DEF EditionRecord
  <2> QED
    BY <1>11, <2>1, EditionUpdates DEF FreezeReads
<1>12. ASSUME NEW e \in Edition, FreezeRefused(e) PROVE EditorialTypeOK'
  <2>1. edition[e] \in EditionRecord
    OBVIOUS
  <2> QED
    BY <1>12, <2>1, EditionUpdates DEF FreezeRefused
<1>13. ASSUME NEW e \in Edition, markWeekEditionReady(e) PROVE EditorialTypeOK'
  <2> DEFINE cleared == {f \in edition[e].reading \X Receipt : f[2] \in story[f[1]].evidence}
  <2>1. cleared \in SUBSET (Story \X Receipt) /\ edition[e] \in EditionRecord
    BY DEF EditionRecord
  <2>2. /\ edition' = [edition EXCEPT ![e] = [edition[e] EXCEPT
                         !.status = "ready", !.reading = {}, !.frozen = cleared]]
        /\ UNCHANGED <<cand, story, verified, drafting, adding>>
    BY <1>13 DEF markWeekEditionReady
  <2> HIDE DEF cleared
  <2> QED
    BY <2>1, <2>2, EditionUpdates
<1>14. ASSUME NEW a \in AcqRun, RunVerified(a) PROVE EditorialTypeOK'
  BY <1>14 DEF RunVerified
<1>15. CASE UNCHANGED editorialVars
  BY <1>15 DEF editorialVars
<1> QED
  BY <1>1, <1>2, <1>3, <1>4, <1>5, <1>6, <1>7, <1>8, <1>9, <1>10, <1>11, <1>12, <1>13,
     <1>14, <1>15 DEF EditorialNext

\* EditorialInv, for any number of editors at work on any number of rows: a
\* frozen edition holds only cleared evidence of its verified runs, and no
\* order of creations and merges loses a receipt.
THEOREM EditorialInvHolds == EditorialSpec => []EditorialInv
<1>1. EditorialInit => EditorialIInv
  BY DEF EditorialInit, EditorialIInv, EditorialTypeOK, Candidates, Freezes, AbsentIsEmpty,
         MergeKeepsReceipts, FreezingIsVerified, FrozenIsCleared, NoCandidate, NoStory,
         NoEdition, EditionRecord
<1>2. EditorialIInv /\ [EditorialNext]_editorialVars => EditorialIInv'
  BY EditorialTypeNext, CandidatesNext, FreezesNext DEF EditorialIInv
<1>3. EditorialIInv => EditorialInv
  BY DEF EditorialIInv, EditorialInv, Candidates, Freezes
<1> QED
  BY <1>1, <1>2, <1>3, PTL DEF EditorialSpec

(***************************************************************************)
(* The registry of X accounts.                                             *)
(***************************************************************************)

AccountRecord ==
    [handle : Handle \cup {None}, id : XUser \cup {None},
     status : {"PENDING", "VERIFIED", "CONFLICT", "FAILED"}, due : BOOLEAN, active : BOOLEAN]
MemberRecord == [key : Account, handle : Handle \cup {None}, id : XUser \cup {None}]
PartitionRecord == [members : SUBSET Account, active : BOOLEAN, checkpoint : SUBSET MemberRecord]
ScanRecord ==
    [schedule : Partition, of : SUBSET MemberRecord, status : {"RUNNING", "FAILED"}, no : Nat]

RegistryTypes ==
    /\ account \in [Account -> AccountRecord]
    /\ partition \in [Partition -> PartitionRecord]
    /\ scan \subseteq ScanRecord
    /\ observed \subseteq Handle
    /\ used \in [manifests : Nat, lookups : Nat, scans : Nat, authors : Nat]

\* Ids are permanent: what a run that may still store something, and what was
\* stored, says of an endpoint's user is what the endpoint says.
IdsPermanent ==
    /\ \A r \in scan : r.status = "RUNNING" =>
         \A s \in r.of : s.id \in XUser /\ account[s.key].id = s.id
    /\ \A x \in attributed : x \in Account \X XUser /\ account[x[1]].id = x[2]

\* The members of a partition under their handles, and those of a snapshot.
ContractOf(p) == {<<a, account[a].handle>> : a \in partition[p].members}
HandlesOf(snapshot) == {<<s.key, s.handle>> : s \in snapshot}

\* RunsFollowContract, in these words.
ContractsFollowed ==
    /\ \A r \in scan : r.status = "RUNNING" =>
         HandlesOf(r.of) = ContractOf(r.schedule) /\ partition[r.schedule].active
    /\ \A p \in Partition : partition[p].checkpoint # {} =>
         HandlesOf(partition[p].checkpoint) = ContractOf(p)

\* The inductive invariant behind RegistryInv.
RegistryIInv == RegistryTypes /\ ContractsFollowed /\ IdentityIsUnique /\ IdsPermanent

LEMMA RegistryIInvSuffices == RegistryIInv => RegistryInv
<1> SUFFICES ASSUME RegistryIInv PROVE RegistryInv
  OBVIOUS
<1> USE DEF RegistryIInv
<1>1. RegistryTypeOK
  <2>1. \A a \in Account : account[a] \in AccountRecord
    BY DEF RegistryTypes
  <2>2. \A p \in Partition : partition[p] \in PartitionRecord
    BY DEF RegistryTypes
  <2>3. attributed \subseteq Account \X XUser
    BY DEF IdsPermanent
  <2> QED
    BY <2>1, <2>2, <2>3 DEF RegistryTypes, RegistryTypeOK, AccountRecord, PartitionRecord
<1>2. RunsFollowContract
  BY DEF ContractsFollowed, RunsFollowContract, ContractOf, HandlesOf
<1>3. OneUserPerAccount
  <2> SUFFICES ASSUME NEW x \in attributed, NEW y \in attributed
               PROVE  (x[1] = y[1]) = (x[2] = y[2])
    BY DEF OneUserPerAccount
  <2>1. /\ x[1] \in Account /\ y[1] \in Account /\ x[2] \in XUser
        /\ account[x[1]].id = x[2] /\ account[y[1]].id = y[2]
    BY DEF IdsPermanent
  <2>2. x[2] # None
    BY <2>1, RegistryAssumption
  <2>3. x[2] = y[2] => x[1] = y[1]
    BY <2>1, <2>2 DEF IdentityIsUnique
  <2> QED
    BY <2>1, <2>3
<1> QED
  BY <1>1, <1>2, <1>3 DEF RegistryInv

\* Steps of an account's identity keep the handle, and its id once it has one.
LEMMA IdentityStep ==
  ASSUME RegistryIInv, NEW a \in Account,
         RegistryTypes', UNCHANGED <<partition, scan, attributed>>,
         \A b \in Account \ {a} : account'[b] = account[b],
         account'[a].handle = account[a].handle,
         \/ account'[a].id = account[a].id
         \/ account[a].id = None /\ account'[a].id \in XUser /\ ~IdentityConflict(a, account'[a].id),
         account'[a].status = "VERIFIED" => account'[a].id # None
  PROVE  RegistryIInv'
<1> USE DEF RegistryIInv
<1>1. \A b \in Account : account'[b].handle = account[b].handle
  OBVIOUS
<1>2. \A p \in Partition : ContractOf(p)' = ContractOf(p)
  <2> SUFFICES ASSUME NEW p \in Partition PROVE ContractOf(p)' = ContractOf(p)
    OBVIOUS
  <2>1. partition[p].members \subseteq Account
    BY DEF RegistryTypes, PartitionRecord
  <2> QED
    BY <1>1, <2>1 DEF ContractOf
<1>3. ContractsFollowed'
  <2>1. \A r \in scan : r.schedule \in Partition
    BY DEF RegistryTypes, ScanRecord
  <2> QED
    BY <1>2, <2>1 DEF ContractsFollowed, HandlesOf
<1>4. IdentityIsUnique'
  <2>1. \A b \in Account : account'[b].id \notin LegacyUser
    BY DEF IdentityIsUnique, IdentityConflict
  <2>2. ASSUME NEW b \in Account, NEW c \in Account, b # c, account'[b].id # None
        PROVE  account'[b].id # account'[c].id
    BY <2>2, RegistryAssumption DEF IdentityIsUnique, IdentityConflict
  <2>3. \A b \in Account : account'[b].status = "VERIFIED" => account'[b].id # None
    BY DEF IdentityIsUnique
  <2> QED
    BY <2>1, <2>2, <2>3 DEF IdentityIsUnique
<1>5. IdsPermanent'
  <2>1. \A b \in Account : account[b].id \in XUser => account'[b].id = account[b].id
    BY RegistryAssumption
  <2>2. ASSUME NEW r \in scan, r.status = "RUNNING", NEW s \in r.of
        PROVE  s.id \in XUser /\ account'[s.key].id = s.id
    <3>1. s.key \in Account
      BY <2>2 DEF RegistryTypes, ScanRecord, MemberRecord
    <3> QED
      BY <2>1, <2>2, <3>1 DEF IdsPermanent
  <2>3. ASSUME NEW x \in attributed PROVE x \in Account \X XUser /\ account'[x[1]].id = x[2]
    BY <2>1 DEF IdsPermanent
  <2> QED
    BY <2>2, <2>3 DEF IdsPermanent
<1> QED
  BY <1>3, <1>4, <1>5

\* What a manifest makes of an account: its id stays, its handle is the
\* manifest's, and only an unchanged handle stays verified.
LEMMA ReconciledIs ==
  ASSUME NEW m \in Manifest, NEW a \in Account, account[a] \in AccountRecord
  PROVE  /\ ReconciledAccount(m, a) \in AccountRecord
         /\ ReconciledAccount(m, a).id = account[a].id
         /\ a \in DesiredAccounts(m) => ReconciledAccount(m, a).handle = m.handle[a]
         /\ ReconciledAccount(m, a).status = "VERIFIED" => account[a].status = "VERIFIED"
<1>0. m.handle[a] \in Handle \cup {None} /\ (m.in[a] # None) \in BOOLEAN
  BY DEF Manifest
<1>1. /\ ReconciledIdentity(m, a) \in AccountRecord /\ ReconciledIdentity(m, a).id = account[a].id
      /\ ReconciledIdentity(m, a).status = "VERIFIED" => account[a].status = "VERIFIED"
  <2>1. CASE account[a].handle = m.handle[a]
    BY <2>1 DEF ReconciledIdentity
  <2>2. CASE account[a].handle # m.handle[a]
    <3>1. ReconciledIdentity(m, a) = [account[a] EXCEPT !.status = "PENDING", !.due = TRUE]
      BY <2>2 DEF ReconciledIdentity
    <3> QED
      BY <3>1 DEF AccountRecord
  <2> QED
    BY <2>1, <2>2
<1>2. CASE a \in DesiredAccounts(m)
  <2> DEFINE e == ReconciledIdentity(m, a)
             on == m.in[a] # None
  <2>1. ReconciledAccount(m, a) = [e EXCEPT !.handle = m.handle[a], !.active = on]
    BY <1>2, Zenon DEF ReconciledAccount
  <2>2. e \in AccountRecord /\ on \in BOOLEAN
    BY <1>1
  <2> HIDE DEF e, on
  <2>3. /\ [e EXCEPT !.handle = m.handle[a], !.active = on] \in AccountRecord
        /\ [e EXCEPT !.handle = m.handle[a], !.active = on].id = e.id
        /\ [e EXCEPT !.handle = m.handle[a], !.active = on].handle = m.handle[a]
        /\ [e EXCEPT !.handle = m.handle[a], !.active = on].status = e.status
    BY <1>0, <2>2 DEF AccountRecord
  <2> QED
    BY <1>1, <2>1, <2>3 DEF e
<1>3. CASE a \notin DesiredAccounts(m)
  BY <1>3 DEF ReconciledAccount, AccountRecord
<1> QED
  BY <1>2, <1>3

\* A manifest that is reconciled while runs are under way.
LEMMA ReconcileStep ==
  ASSUME RegistryIInv, NEW m \in Manifest, Reconcile(m)
  PROVE  RegistryIInv'
<1> USE DEF RegistryIInv
<1> DEFINE wanted(p) == DesiredMembers(m, p) # {}
           reset == {p \in Partition : ~wanted(p) \/ ContractChanged(m, p)}
           after(r) == IF r.schedule \in reset THEN [r EXCEPT !.status = "FAILED"] ELSE r
           part(p) == [members |-> DesiredMembers(m, p), active |-> wanted(p),
                       checkpoint |-> IF p \in reset THEN {} ELSE partition[p].checkpoint]
<1>1. /\ ValidManifest(m)
      /\ account' = [a \in Account |-> ReconciledAccount(m, a)]
      /\ partition' = [p \in Partition |-> part(p)]
      /\ scan' = {after(r) : r \in scan}
      /\ used' = [used EXCEPT !.manifests = used.manifests + 1]
      /\ UNCHANGED <<lookup, observed, attributed>>
  BY DEF Reconcile
<1>2. \A a \in Account : account[a] \in AccountRecord
  BY DEF RegistryTypes
<1>3. \A a \in Account :
        /\ account'[a] \in AccountRecord /\ account'[a].id = account[a].id
        /\ a \in DesiredAccounts(m) => account'[a].handle = m.handle[a]
        /\ account'[a].status = "VERIFIED" => account[a].status = "VERIFIED"
  BY <1>1, <1>2, ReconciledIs
<1>4. \A p \in Partition :
        /\ DesiredMembers(m, p) \in SUBSET Account
        /\ \A a \in DesiredMembers(m, p) : a \in DesiredAccounts(m)
  BY <1>1, RegistryAssumption DEF DesiredMembers, DesiredAccounts, ValidManifest
<1>5. ASSUME NEW q \in scan'
      PROVE  q \in ScanRecord /\ (q.status = "RUNNING" => q \in scan /\ q.schedule \notin reset)
  <2>1. PICK r \in scan : q = after(r)
    BY <1>1, <1>5
  <2>2. r \in ScanRecord
    BY DEF RegistryTypes
  <2>3. [r EXCEPT !.status = "FAILED"] \in ScanRecord /\ [r EXCEPT !.status = "FAILED"].status = "FAILED"
    BY <2>2 DEF ScanRecord
  <2> HIDE DEF reset
  <2>4. CASE r.schedule \in reset
    BY <2>1, <2>3, <2>4
  <2>5. CASE r.schedule \notin reset
    BY <2>1, <2>2, <2>5
  <2> QED
    BY <2>4, <2>5
<1>6. RegistryTypes'
  <2>1. ASSUME NEW p \in Partition PROVE part(p) \in PartitionRecord
    <3>1. wanted(p) \in BOOLEAN /\ DesiredMembers(m, p) \in SUBSET Account
      BY <1>4
    <3>2. (IF p \in reset THEN {} ELSE partition[p].checkpoint) \in SUBSET MemberRecord
      BY DEF RegistryTypes, PartitionRecord
    <3> HIDE DEF reset, wanted
    <3> QED
      BY <3>1, <3>2, Zenon DEF PartitionRecord
  <2> HIDE DEF part, after
  <2>2. partition' \in [Partition -> PartitionRecord]
    BY <1>1, <2>1
  <2>3. account' \in [Account -> AccountRecord]
    BY <1>1, <1>3
  <2>4. scan' \subseteq ScanRecord
    BY <1>5
  <2> QED
    BY <1>1, <2>2, <2>3, <2>4 DEF RegistryTypes
\* A schedule that is not reset keeps its contract.
<1>7. ASSUME NEW p \in Partition, p \notin reset
      PROVE  ContractOf(p)' = ContractOf(p) /\ partition'[p].active
  <2>1. partition[p].members = DesiredMembers(m, p) /\ wanted(p)
        /\ \A a \in DesiredMembers(m, p) : account[a].handle = m.handle[a]
    BY <1>7 DEF ContractChanged
  <2>2. partition'[p].members = DesiredMembers(m, p) /\ partition'[p].active = wanted(p)
    BY <1>1
  <2>3. \A a \in DesiredMembers(m, p) : account'[a].handle = account[a].handle
    BY <1>3, <1>4, <2>1
  <2> QED
    BY <2>1, <2>2, <2>3 DEF ContractOf
<1>8. ContractsFollowed'
  <2>1. ASSUME NEW q \in scan', q.status = "RUNNING"
        PROVE  HandlesOf(q.of) = ContractOf(q.schedule)' /\ partition'[q.schedule].active
    <3>1. q \in scan /\ q.schedule \in Partition /\ q.schedule \notin reset
      BY <1>5, <2>1 DEF ScanRecord
    <3> QED
      BY <1>7, <2>1, <3>1 DEF ContractsFollowed
  <2>2. ASSUME NEW p \in Partition, partition'[p].checkpoint # {}
        PROVE  HandlesOf(partition'[p].checkpoint) = ContractOf(p)'
    <3>1. p \notin reset /\ partition'[p].checkpoint = partition[p].checkpoint
      BY <1>1, <2>2
    <3> QED
      BY <1>7, <2>2, <3>1 DEF ContractsFollowed
  <2> QED
    BY <2>1, <2>2 DEF ContractsFollowed, HandlesOf
<1>9. IdentityIsUnique'
  BY <1>3 DEF IdentityIsUnique
<1>10. IdsPermanent'
  <2>1. ASSUME NEW q \in scan', q.status = "RUNNING", NEW s \in q.of
        PROVE  s.id \in XUser /\ account'[s.key].id = s.id
    <3>1. q \in scan /\ s.key \in Account
      BY <1>5, <2>1 DEF ScanRecord, MemberRecord
    <3> QED
      BY <1>3, <2>1, <3>1 DEF IdsPermanent
  <2>2. ASSUME NEW x \in attributed' PROVE x \in Account \X XUser /\ account'[x[1]].id = x[2]
    BY <1>1, <1>3, <2>2 DEF IdsPermanent
  <2> QED
    BY <2>1, <2>2 DEF IdsPermanent
<1> QED
  BY <1>6, <1>8, <1>9, <1>10

\* A scan is claimed of a partition whose members are all verified.
LEMMA ClaimScanStep ==
  ASSUME RegistryIInv, NEW p \in Partition, ClaimScan(p)
  PROVE  RegistryIInv'
<1> USE DEF RegistryIInv
<1> DEFINE run == [schedule |-> p, of |-> PartitionSnapshot(p), status |-> "RUNNING", no |-> used.scans]
           member(a) == [key |-> a, handle |-> account[a].handle, id |-> account[a].id]
<1>1. /\ scan' = scan \cup {run} /\ used' = [used EXCEPT !.scans = used.scans + 1]
      /\ UNCHANGED <<account, partition, lookup, observed, attributed>>
      /\ partition[p].active
      /\ \A a \in partition[p].members : account[a].status = "VERIFIED"
  BY DEF ClaimScan, Eligible
<1>2. partition[p].members \subseteq Account /\ \A a \in Account : account[a] \in AccountRecord
  BY DEF RegistryTypes, PartitionRecord
<1>3. PartitionSnapshot(p) = {member(a) : a \in partition[p].members}
  BY DEF PartitionSnapshot
<1>4. \A a \in Account : member(a) \in MemberRecord
  BY <1>2 DEF MemberRecord, AccountRecord
<1>5. run \in ScanRecord
  <2>1. PartitionSnapshot(p) \in SUBSET MemberRecord
    BY <1>2, <1>3, <1>4
  <2>2. used.scans \in Nat
    BY DEF RegistryTypes
  <2> QED
    BY <2>1, <2>2 DEF ScanRecord
<1>6. RegistryTypes'
  BY <1>1, <1>5 DEF RegistryTypes
<1>7. HandlesOf(run.of) = ContractOf(p)
  <2>1. \A a \in partition[p].members : <<member(a).key, member(a).handle>> = <<a, account[a].handle>>
    OBVIOUS
  <2>2. run.of = {member(a) : a \in partition[p].members}
    BY <1>3
  <2> HIDE DEF run, member
  <2> QED
    BY <2>1, <2>2 DEF HandlesOf, ContractOf
<1>8. ContractsFollowed'
  <2>1. run.schedule = p
    OBVIOUS
  <2>2. \A q : ContractOf(q)' = ContractOf(q)
    BY <1>1 DEF ContractOf
  <2> HIDE DEF run
  <2> QED
    BY <1>1, <1>7, <2>1, <2>2 DEF ContractsFollowed, HandlesOf
<1>9. IdentityIsUnique'
  BY <1>1 DEF IdentityIsUnique
<1>10. IdsPermanent'
  <2>1. ASSUME NEW s \in run.of PROVE s.id \in XUser /\ account[s.key].id = s.id
    <3>1. PICK a \in partition[p].members : s = member(a)
      BY <1>3, <2>1
    <3>2. account[a].id \in XUser
      BY <1>1, <1>2 DEF IdentityIsUnique, AccountRecord
    <3> QED
      BY <3>1, <3>2
  <2> HIDE DEF run
  <2> QED
    BY <1>1, <2>1 DEF IdsPermanent
<1> QED
  BY <1>6, <1>8, <1>9, <1>10

\* A scan's result: the checkpoint is the run's, the posts are its members'.
LEMMA PersistScanStep ==
  ASSUME RegistryIInv, NEW r \in scan, PersistScan(r)
  PROVE  RegistryIInv'
<1> USE DEF RegistryIInv
<1>1. /\ scan' = scan \ {r} /\ UNCHANGED <<account, lookup, observed, used>> /\ r \in ScanRecord
  BY DEF PersistScan, RegistryTypes
<1>2. r.schedule \in Partition /\ r.of \in SUBSET MemberRecord
  BY <1>1 DEF ScanRecord
<1>3. CASE r.status # "RUNNING"
  <2>1. UNCHANGED <<partition, attributed>>
    BY <1>3 DEF PersistScan
  <2> QED
    BY <1>1, <2>1 DEF RegistryTypes, ContractsFollowed, ContractOf, HandlesOf, IdentityIsUnique, IdsPermanent
<1>4. CASE r.status = "RUNNING"
  <2>1. /\ partition' = [partition EXCEPT ![r.schedule] = [partition[r.schedule] EXCEPT !.checkpoint = r.of]]
        /\ attributed' = attributed \cup {<<s.key, s.id>> : s \in r.of}
    BY <1>4 DEF PersistScan
  <2>2. LET q == [partition[r.schedule] EXCEPT !.checkpoint = r.of] IN
        /\ q \in PartitionRecord /\ q.members = partition[r.schedule].members
        /\ q.active = partition[r.schedule].active /\ q.checkpoint = r.of
    <3>1. partition[r.schedule] \in PartitionRecord
      BY <1>2 DEF RegistryTypes
    <3> QED
      BY <1>2, <3>1 DEF PartitionRecord
  <2>3. /\ partition' \in [Partition -> PartitionRecord]
        /\ \A p \in Partition : /\ partition'[p].members = partition[p].members
                                 /\ partition'[p].active = partition[p].active
                                 /\ partition'[p].checkpoint =
                                      IF p = r.schedule THEN r.of ELSE partition[p].checkpoint
    BY <1>2, <2>1, <2>2 DEF RegistryTypes
  <2>4. RegistryTypes'
    BY <1>1, <2>3 DEF RegistryTypes
  <2>5. \A p \in Partition : ContractOf(p)' = ContractOf(p)
    BY <1>1, <2>3 DEF ContractOf
  <2>6. ContractsFollowed'
    <3>1. \A q \in scan : q.schedule \in Partition
      BY DEF RegistryTypes, ScanRecord
    <3> QED
      BY <1>1, <1>2, <1>4, <2>3, <2>5, <3>1 DEF ContractsFollowed, HandlesOf
  <2>7. IdsPermanent'
    <3>1. ASSUME NEW s \in r.of PROVE <<s.key, s.id>> \in Account \X XUser /\ account[s.key].id = s.id
      <4>1. s.key \in Account
        BY <1>2, <3>1 DEF MemberRecord
      <4> QED
        BY <1>4, <3>1, <4>1 DEF IdsPermanent
    <3>2. ASSUME NEW x \in attributed' PROVE x \in Account \X XUser /\ account[x[1]].id = x[2]
      BY <2>1, <3>1, <3>2 DEF IdsPermanent
    <3> QED
      BY <1>1, <3>2 DEF IdsPermanent
  <2> QED
    BY <1>1, <2>4, <2>6, <2>7 DEF IdentityIsUnique
<1> QED
  BY <1>3, <1>4

\* Every step of the registry keeps the invariant.
LEMMA RegistryStep == RegistryIInv /\ [RegistryNext]_registryVars => RegistryIInv'
<1> SUFFICES ASSUME RegistryIInv, [RegistryNext]_registryVars PROVE RegistryIInv'
  OBVIOUS
<1>a. RegistryTypes
  BY DEF RegistryIInv
<1>b. \A a \in Account : account[a] \in AccountRecord /\ (account[a].status = "VERIFIED" => account[a].id # None)
  BY DEF RegistryIInv, RegistryTypes, IdentityIsUnique
<1>1. ASSUME NEW m \in Manifest, Reconcile(m) PROVE RegistryIInv'
  BY <1>1, ReconcileStep
<1>2. ASSUME UNCHANGED <<account, partition, scan, attributed>>, RegistryTypes' PROVE RegistryIInv'
  BY <1>2 DEF RegistryIInv, ContractsFollowed, ContractOf, HandlesOf, IdentityIsUnique, IdsPermanent
\* The account has another record, under the same handle.
<1>3. ASSUME NEW a \in Account, NEW q \in AccountRecord, account' = [account EXCEPT ![a] = q],
             UNCHANGED <<partition, scan, observed, attributed>>,
             used' \in [manifests : Nat, lookups : Nat, scans : Nat, authors : Nat],
             q.handle = account[a].handle,
             \/ q.id = account[a].id
             \/ account[a].id = None /\ q.id \in XUser /\ ~IdentityConflict(a, q.id),
             q.status = "VERIFIED" => q.id # None
      PROVE  RegistryIInv'
  <2>1. account'[a] = q /\ \A b \in Account \ {a} : account'[b] = account[b]
    BY <1>a, <1>3 DEF RegistryTypes
  <2>2. RegistryTypes'
    BY <1>a, <1>3 DEF RegistryTypes
  <2> QED
    BY <1>3, <2>1, <2>2, IdentityStep
<1>4. ASSUME NEW a \in Account, IdentityDue(a) PROVE RegistryIInv'
  <2> DEFINE q == [account[a] EXCEPT !.due = TRUE]
  <2>0. account[a] \in AccountRecord
    BY <1>b
  <2>1. q \in AccountRecord /\ q.handle = account[a].handle /\ q.id = account[a].id /\ q.status = account[a].status
    BY <2>0 DEF AccountRecord
  <2>2. account' = [account EXCEPT ![a] = q] /\ UNCHANGED <<partition, lookup, scan, observed, attributed, used>>
    BY <1>4 DEF IdentityDue
  <2> HIDE DEF q
  <2> QED
    BY <1>a, <1>b, <1>3, <2>1, <2>2 DEF RegistryTypes
<1>5. ASSUME NEW a \in Account, ClaimIdentity(a) PROVE RegistryIInv'
  <2>1. used' \in [manifests : Nat, lookups : Nat, scans : Nat, authors : Nat]
    BY <1>a, <1>5 DEF ClaimIdentity, RegistryTypes
  <2>2. CASE UNCHANGED account
    BY <1>a, <1>2, <1>5, <2>1, <2>2 DEF ClaimIdentity, RegistryTypes
  <2>3. CASE account' = [account EXCEPT ![a] = [account[a] EXCEPT !.due = FALSE]]
    <3> DEFINE q == [account[a] EXCEPT !.due = FALSE]
    <3>0. account[a] \in AccountRecord
      BY <1>b
    <3>1. q \in AccountRecord /\ q.handle = account[a].handle /\ q.id = account[a].id /\ q.status = account[a].status
      BY <3>0 DEF AccountRecord
    <3>2. account' = [account EXCEPT ![a] = q] /\ UNCHANGED <<partition, scan, observed, attributed>>
      BY <1>5, <2>3 DEF ClaimIdentity
    <3> HIDE DEF q
    <3> QED
      BY <1>b, <1>3, <2>1, <3>1, <3>2
  <2> QED
    BY <1>5, <2>2, <2>3 DEF ClaimIdentity, InsertIdentityRun
<1>6. ASSUME NEW a \in Account, IdentityRunFails(a) PROVE RegistryIInv'
  <2>1. UNCHANGED <<partition, scan, observed, attributed, used>>
    BY <1>6 DEF IdentityRunFails
  <2>2. CASE UNCHANGED account
    BY <1>a, <1>2, <2>1, <2>2 DEF RegistryTypes
  <2>3. CASE account' = [account EXCEPT ![a] = [account[a] EXCEPT !.status = "FAILED", !.due = FALSE]]
    <3> DEFINE q == [account[a] EXCEPT !.status = "FAILED", !.due = FALSE]
    <3>1. q \in AccountRecord /\ q.handle = account[a].handle /\ q.id = account[a].id /\ q.status = "FAILED"
      <4>1. account[a] \in AccountRecord
        BY <1>b
      <4> QED
        BY <4>1 DEF AccountRecord
    <3> HIDE DEF q
    <3>2. account' = [account EXCEPT ![a] = q]
      BY <2>3 DEF q
    <3> QED
      BY <1>a, <1>3, <2>1, <3>1, <3>2 DEF RegistryTypes
  <2> QED
    BY <1>6, <2>2, <2>3 DEF IdentityRunFails
<1>7. ASSUME NEW a \in Account, NEW u \in XUser \cup {None}, PersistIdentity(a, u) PROVE RegistryIInv'
  <2>1. UNCHANGED <<partition, scan, observed, attributed, used>>
    BY <1>7 DEF PersistIdentity
  <2>2. CASE u = None \/ IdentityConflict(a, u)
    <3>1. PICK t \in {"FAILED", "CONFLICT"} :
            account' = [account EXCEPT ![a] = [account[a] EXCEPT !.status = t, !.due = FALSE]]
      BY <1>7, <2>2 DEF PersistIdentity
    <3> DEFINE q == [account[a] EXCEPT !.status = t, !.due = FALSE]
    <3>2. q \in AccountRecord /\ q.handle = account[a].handle /\ q.id = account[a].id /\ q.status # "VERIFIED"
      <4>1. account[a] \in AccountRecord
        BY <1>b
      <4> QED
        BY <4>1 DEF AccountRecord
    <3> HIDE DEF q
    <3>3. account' = [account EXCEPT ![a] = q]
      BY <3>1 DEF q
    <3> QED
      BY <1>a, <1>3, <2>1, <3>2, <3>3 DEF RegistryTypes
  <2>3. CASE u # None /\ ~IdentityConflict(a, u)
    <3> DEFINE q == [account[a] EXCEPT !.id = u, !.status = "VERIFIED", !.due = FALSE]
    <3>1. account' = [account EXCEPT ![a] = q]
      BY <1>7, <2>3 DEF PersistIdentity
    <3>2. q \in AccountRecord /\ q.handle = account[a].handle /\ q.id = u
      <4>1. account[a] \in AccountRecord /\ u \in XUser
        BY <1>b, <2>3
      <4> QED
        BY <4>1 DEF AccountRecord
    <3>3. account[a].id \in {None, u}
      BY <2>3 DEF IdentityConflict
    <3> HIDE DEF q
    <3> QED
      BY <1>a, <1>3, <2>1, <2>3, <3>1, <3>2, <3>3 DEF RegistryTypes
  <2> QED
    BY <2>2, <2>3
<1>8. ASSUME NEW p \in Partition, ClaimScan(p) PROVE RegistryIInv'
  BY <1>8, ClaimScanStep
<1>9. ASSUME NEW r \in scan, PersistScan(r) PROVE RegistryIInv'
  BY <1>9, PersistScanStep
<1>10. ASSUME NEW h \in Handle, ResolveAuthor(h) PROVE RegistryIInv'
  BY <1>a, <1>2, <1>10 DEF ResolveAuthor, RegistryTypes
<1>11. CASE UNCHANGED registryVars
  BY <1>a, <1>2, <1>11 DEF registryVars, RegistryTypes
<1> QED
  BY <1>1, <1>4, <1>5, <1>6, <1>7, <1>8, <1>9, <1>10, <1>11 DEF RegistryNext

\* RegistryInv, whatever manifests are reconciled while identity runs and scans
\* are under way: the posts of an endpoint are one user's for ever, and a run
\* of a contract that was replaced stores nothing.
THEOREM RegistryInvHolds == RegistrySpec => []RegistryInv
<1>1. RegistryInit => RegistryIInv
  <2> SUFFICES ASSUME RegistryInit PROVE RegistryIInv
    OBVIOUS
  <2>1. RegistryTypes
    BY DEF RegistryInit, RegistryTypes, AccountRecord, PartitionRecord
  <2>2. \A a \in Account : account[a].id = None /\ account[a].status = "PENDING"
    BY DEF RegistryInit
  <2>3. IdentityIsUnique
    BY <2>2, RegistryAssumption DEF IdentityIsUnique
  <2>4. ContractsFollowed /\ IdsPermanent
    BY DEF RegistryInit, ContractsFollowed, IdsPermanent
  <2> QED
    BY <2>1, <2>3, <2>4 DEF RegistryIInv
<1> QED
  BY <1>1, RegistryIInvSuffices, RegistryStep, PTL DEF RegistrySpec

(***************************************************************************)
(* The bug reports.                                                        *)
(***************************************************************************)

Url == {NoUrl} \cup Locator
RowRecord == [pub : PublicId, url : Url, key : BOOLEAN, keyDeleted : BOOLEAN,
              status : {"open", "closed"}, due : {"no", "closed", "hard"}, scrubbed : BOOLEAN]
ClaimRecord == [pub : PublicId, url : Url, hashed : BOOLEAN, key : BOOLEAN,
                started : BOOLEAN, deleted : BOOLEAN]
CleanerRecord == [step : {"claimed", "deleting", "confirmed"}, r : Report, url : Url]
MigratorRecord == [step : {"deleting", "confirmed"}, s : Source]
PurgerRecord == [step : {"deleting", "confirmed"}, r : Private, orphan : BOOLEAN]

\* What a row and the retention claim of one report may be together.  While
\* the row lives its claim has deleted nothing, and the row has handed over
\* its screenshot; a row with a locator has no private key.
Together(row, c) ==
    /\ row # AbsentRow /\ c # NoClaim =>
         /\ row.url = NoUrl /\ ~ (row.key /\ ~ row.keyDeleted)
         /\ ~ c.hashed /\ ~ c.deleted /\ ~ c.key /\ c.pub = row.pub
         /\ c.url # NoUrl => row.scrubbed
    /\ row # AbsentRow /\ row.url # NoUrl => ~ row.key
    /\ c # NoClaim /\ c.key => c.url = NoUrl

\* No live row names an object whose deletion has begun, and nothing names the
\* copy of a migration that has not begun.
Fenced ==
    /\ \A r, q \in Report : claim[r] # NoClaim /\ claim[r].started /\ claim[r].url # NoUrl =>
         ~ (reportRow[q] # AbsentRow /\ reportRow[q].url = claim[r].url)
    /\ \A s \in Source : migration[s] # "none" =>
         \A q \in Report : ~ (reportRow[q] # AbsentRow /\ reportRow[q].url = <<s, 0>>)
    /\ \A s \in Source : migration[s] = "none" =>
         /\ <<s, 1>> \notin storedUrl
         /\ \A q \in Report : /\ ~ (reportRow[q] # AbsentRow /\ reportRow[q].url = <<s, 1>>)
                              /\ ~ (claim[q] # NoClaim /\ claim[q].url = <<s, 1>>)

\* What the position of a job means.
JobsAt ==
    /\ cleaner # Idle => /\ cleaner \in CleanerRecord
                         /\ reportRow[cleaner.r] # AbsentRow /\ claim[cleaner.r] # NoClaim
                         /\ claim[cleaner.r].url = cleaner.url
                         /\ cleaner.step \in {"deleting", "confirmed"} =>
                              claim[cleaner.r].started /\ cleaner.url # NoUrl
                         /\ cleaner.step = "confirmed" => cleaner.url \notin storedUrl
    /\ migrator # Idle => /\ migrator \in MigratorRecord /\ migration[migrator.s] # "none"
                          /\ migrator.step = "confirmed" => <<migrator.s, 0>> \notin storedUrl
    /\ purger # Idle => /\ purger \in PurgerRecord
                        /\ purger.step = "confirmed" => purger.r \notin storedKey

\* A public id that was given to a report is known by its row or its claim.
OwnersKnown ==
    \A p \in PublicId : publicOwner[p] # NoReport =>
        \/ reportRow[publicOwner[p]] # AbsentRow /\ reportRow[publicOwner[p]].pub = p
        \/ claim[publicOwner[p]] # NoClaim /\ claim[publicOwner[p]].pub = p

\* An object a client uploaded is stored until its locator has been retired, so
\* insert accepts no object that is gone.
GoneIsRetired ==
    \A s \in Source : <<s, 0>> \in storedUrl \/ migration[s] # "none" \/
        \E r \in Report : claim[r] # NoClaim /\ claim[r].url = <<s, 0>> /\ (claim[r].started \/ claim[r].deleted)

\* The inductive invariant behind ReportInv.
ReportIInv ==
    /\ ReportTypeOK /\ \A r \in Report : Together(reportRow[r], claim[r])
    /\ Fenced /\ JobsAt /\ OwnersKnown /\ GoneIsRetired
    /\ LiveScreenshotReadable /\ PublicIdNeverReused /\ NoScreenshotForgotten

\* The kinds of values the module tells apart.
LEMMA ReportKinds ==
  /\ AbsentRow \notin RowRecord /\ NoClaim \notin ClaimRecord
  /\ Idle \notin CleanerRecord /\ Idle \notin MigratorRecord /\ Idle \notin PurgerRecord
  /\ NoUrl \notin Locator
  /\ \A s \in Source : <<s, 0>> \in Locator /\ <<s, 1>> \in Locator
  /\ \A u \in Locator : u[1] \in Source /\ u[2] \in {0, 1} /\ u = <<u[1], u[2]>>
<1>1. AbsentRow \notin RowRecord /\ NoClaim \notin ClaimRecord
  BY ReportAssumption DEF AbsentRow, NoClaim, RowRecord, ClaimRecord
<1>2. Idle \notin CleanerRecord /\ Idle \notin MigratorRecord /\ Idle \notin PurgerRecord
  BY DEF Idle, CleanerRecord, MigratorRecord, PurgerRecord
<1>3. NoUrl \notin Locator
  BY DEF NoUrl, Locator
<1> QED
  BY <1>1, <1>2, <1>3 DEF Locator

LEMMA ReportTables ==
  ASSUME ReportTypeOK
  PROVE  /\ reportRow \in [Report -> {AbsentRow} \cup RowRecord]
         /\ claim \in [Report -> {NoClaim} \cup ClaimRecord]
BY DEF ReportTypeOK, RowRecord, ClaimRecord, Url

\* One report may get this row and this claim: the row hands its screenshot
\* over or goes, its claim goes on.
Follows(r, row, c) ==
    /\ row \in {AbsentRow} \cup RowRecord /\ c \in {NoClaim} \cup ClaimRecord
    /\ Together(row, c)
    /\ row # AbsentRow => /\ reportRow[r] # AbsentRow /\ row.pub = reportRow[r].pub
                          /\ row.url # NoUrl => row.url = reportRow[r].url
    /\ reportRow[r] # AbsentRow =>
         row # AbsentRow \/ (c # NoClaim /\ c.pub = reportRow[r].pub)
    /\ claim[r] # NoClaim => c # NoClaim /\ c.pub = claim[r].pub
    /\ claim[r] # NoClaim /\ claim[r].url # NoUrl /\ (claim[r].started \/ claim[r].deleted) =>
         c.url = claim[r].url /\ (c.started \/ c.deleted)
    /\ c # NoClaim /\ c.url # NoUrl =>
         \/ reportRow[r] # AbsentRow /\ reportRow[r].url = c.url
         \/ claim[r] # NoClaim /\ claim[r].url = c.url
    /\ c # NoClaim /\ c.started /\ c.url # NoUrl =>
         /\ \A q \in Report \ {r} : ~ (reportRow[q] # AbsentRow /\ reportRow[q].url = c.url)
         /\ ~ (row # AbsentRow /\ row.url = c.url)
    /\ r \in storedKey /\ r \in Inventory =>
         \/ row # AbsentRow /\ row.key /\ ~ row.keyDeleted
         \/ c # NoClaim /\ c.key /\ ~ c.deleted
    /\ \A u \in storedUrl :
         \/ reportRow[r] # AbsentRow /\ reportRow[r].url = u
         \/ claim[r] # NoClaim /\ claim[r].url = u /\ ~ claim[r].hashed
         => \/ row # AbsentRow /\ row.url = u
            \/ c # NoClaim /\ c.url = u /\ ~ c.hashed
            \/ \E q \in Report \ {r} : reportRow[q] # AbsentRow /\ reportRow[q].url = u

\* One report changes so, the objects and the migrations stay.
LEMMA OneReportChanges ==
  ASSUME ReportIInv, NEW r \in Report, NEW row, NEW c, Follows(r, row, c),
         reportRow' = [reportRow EXCEPT ![r] = row], claim' = [claim EXCEPT ![r] = c],
         UNCHANGED <<migration, storedUrl, storedKey, publicOwner, named>>
  PROVE  /\ reportRow' \in [Report -> {AbsentRow} \cup RowRecord]
         /\ claim' \in [Report -> {NoClaim} \cup ClaimRecord]
         /\ \A q \in Report : Together(reportRow'[q], claim'[q])
         /\ Fenced' /\ OwnersKnown' /\ GoneIsRetired'
         /\ LiveScreenshotReadable' /\ PublicIdNeverReused' /\ NoScreenshotForgotten'
<1> USE DEF Follows
<1>1. /\ reportRow \in [Report -> {AbsentRow} \cup RowRecord]
      /\ claim \in [Report -> {NoClaim} \cup ClaimRecord]
  BY ReportTables DEF ReportIInv
<1>2. /\ reportRow' \in [Report -> {AbsentRow} \cup RowRecord]
      /\ claim' \in [Report -> {NoClaim} \cup ClaimRecord]
      /\ reportRow'[r] = row /\ claim'[r] = c
      /\ \A q \in Report \ {r} : reportRow'[q] = reportRow[q] /\ claim'[q] = claim[q]
  BY <1>1
<1>3. \A q \in Report : Together(reportRow'[q], claim'[q])
  BY <1>2 DEF ReportIInv
<1>4. \A q \in Report, u \in Locator :
        reportRow'[q] # AbsentRow /\ reportRow'[q].url = u => reportRow[q] # AbsentRow /\ reportRow[q].url = u
  BY <1>2, ReportKinds
<1>5. Fenced'
  <2>0. Fenced
    BY DEF ReportIInv
  <2>1. ASSUME NEW p \in Report, NEW q \in Report, claim'[p] # NoClaim, claim'[p].started,
               claim'[p].url # NoUrl, reportRow'[q] # AbsentRow, reportRow'[q].url = claim'[p].url
        PROVE  FALSE
    <3>1. claim'[p].url \in Locator
      BY <1>2, <2>1 DEF ClaimRecord, Url
    <3>2. CASE p = r
      BY <1>2, <2>1, <3>2
    <3>3. CASE p # r
      BY <1>2, <1>4, <2>0, <2>1, <3>1, <3>3 DEF Fenced
    <3> QED
      BY <3>2, <3>3
  <2>2. ASSUME NEW s \in Source, migration[s] # "none", NEW q \in Report,
               reportRow'[q] # AbsentRow, reportRow'[q].url = <<s, 0>>
        PROVE  FALSE
    BY <1>4, <2>0, <2>2, ReportKinds DEF Fenced
  <2>3. ASSUME NEW s \in Source, migration[s] = "none"
        PROVE  /\ <<s, 1>> \notin storedUrl
               /\ \A q \in Report : /\ ~ (reportRow'[q] # AbsentRow /\ reportRow'[q].url = <<s, 1>>)
                                    /\ ~ (claim'[q] # NoClaim /\ claim'[q].url = <<s, 1>>)
    <3>1. <<s, 1>> \notin storedUrl /\ <<s, 1>> \in Locator /\ <<s, 1>> # NoUrl
      BY <2>0, <2>3, ReportKinds DEF Fenced
    <3>2. \A q \in Report : /\ ~ (reportRow[q] # AbsentRow /\ reportRow[q].url = <<s, 1>>)
                            /\ ~ (claim[q] # NoClaim /\ claim[q].url = <<s, 1>>)
      BY <2>0, <2>3 DEF Fenced
    <3> DEFINE u == <<s, 1>>
    <3> HIDE DEF u
    <3>3. \A q \in Report : ~ (claim'[q] # NoClaim /\ claim'[q].url = u)
      BY <1>2, <3>1, <3>2 DEF u
    <3>4. \A q \in Report : ~ (reportRow'[q] # AbsentRow /\ reportRow'[q].url = u)
      BY <1>4, <3>1, <3>2 DEF u
    <3> QED
      BY <3>1, <3>3, <3>4 DEF u
  <2> QED
    BY <2>1, <2>2, <2>3 DEF Fenced
<1>6. OwnersKnown'
  <2> SUFFICES ASSUME NEW p \in PublicId, publicOwner[p] # NoReport
               PROVE  \/ reportRow'[publicOwner[p]] # AbsentRow /\ reportRow'[publicOwner[p]].pub = p
                      \/ claim'[publicOwner[p]] # NoClaim /\ claim'[publicOwner[p]].pub = p
    BY DEF OwnersKnown
  <2>1. publicOwner[p] \in Report
    BY DEF ReportIInv, ReportTypeOK
  <2>2. \/ reportRow[publicOwner[p]] # AbsentRow /\ reportRow[publicOwner[p]].pub = p
        \/ claim[publicOwner[p]] # NoClaim /\ claim[publicOwner[p]].pub = p
    BY DEF ReportIInv, OwnersKnown
  <2>3. CASE publicOwner[p] = r
    BY <1>2, <2>2, <2>3
  <2>4. CASE publicOwner[p] # r
    BY <1>2, <2>1, <2>2, <2>4
  <2> QED
    BY <2>3, <2>4
<1>7. LiveScreenshotReadable'
  <2> SUFFICES ASSUME NEW q \in Report, reportRow'[q] # AbsentRow, reportRow'[q].url # NoUrl
               PROVE  reportRow'[q].url \in storedUrl
    BY DEF LiveScreenshotReadable, Live
  <2>1. reportRow'[q].url \in Locator
    BY <1>2 DEF RowRecord, Url
  <2>2. reportRow[q] # AbsentRow /\ reportRow[q].url = reportRow'[q].url
    BY <1>4, <2>1
  <2> QED
    BY <2>2 DEF ReportIInv, LiveScreenshotReadable, Live
<1>8. PublicIdNeverReused'
  <2> SUFFICES ASSUME NEW q \in Report, reportRow'[q] # AbsentRow
               PROVE  publicOwner[reportRow'[q].pub] = q
    BY DEF PublicIdNeverReused, Live
  <2>1. reportRow[q] # AbsentRow /\ reportRow'[q].pub = reportRow[q].pub
    BY <1>2
  <2> QED
    BY <2>1 DEF ReportIInv, PublicIdNeverReused, Live
<1>9. \A q \in storedKey \cap named : q \in Inventory'
  <2> SUFFICES ASSUME NEW q \in storedKey \cap named PROVE q \in Inventory'
    OBVIOUS
  <2>1. q \in Inventory /\ q \in Report
    BY DEF ReportIInv, NoScreenshotForgotten, Inventory
  <2>2. CASE q = r
    BY <1>2, <2>1, <2>2 DEF Inventory, Live, ReportClaimed
  <2>3. CASE q # r
    BY <1>2, <2>1, <2>3 DEF Inventory, Live, ReportClaimed
  <2> QED
    BY <2>2, <2>3
<1>10. ASSUME NEW u \in storedUrl, u \in named \/ u[2] = 1
       PROVE  \/ \E q \in Report : reportRow'[q] # AbsentRow /\ reportRow'[q].url = u
              \/ \E q \in Report : claim'[q] # NoClaim /\ claim'[q].url = u /\ ~ claim'[q].hashed
              \/ u[2] = 0 /\ migration[u[1]] = "started"
  <2>1. \/ \E q \in Report : reportRow[q] # AbsentRow /\ reportRow[q].url = u
        \/ \E q \in Report : claim[q] # NoClaim /\ claim[q].url = u /\ ~ claim[q].hashed
        \/ u[2] = 0 /\ migration[u[1]] = "started"
    BY <1>10 DEF ReportIInv, NoScreenshotForgotten, OtherReference, Live, ReportClaimed
  <2>2. CASE \E q \in Report \ {r} : reportRow[q] # AbsentRow /\ reportRow[q].url = u
    BY <1>2, <2>2
  <2>3. CASE \E q \in Report \ {r} : claim[q] # NoClaim /\ claim[q].url = u /\ ~ claim[q].hashed
    BY <1>2, <2>3
  <2>4. CASE \/ reportRow[r] # AbsentRow /\ reportRow[r].url = u
             \/ claim[r] # NoClaim /\ claim[r].url = u /\ ~ claim[r].hashed
    <3>1. \/ row # AbsentRow /\ row.url = u
          \/ c # NoClaim /\ c.url = u /\ ~ c.hashed
          \/ \E q \in Report \ {r} : reportRow[q] # AbsentRow /\ reportRow[q].url = u
      BY <2>4
    <3> QED
      BY <1>2, <3>1
  <2>5. CASE u[2] = 0 /\ migration[u[1]] = "started"
    BY <2>5
  <2> QED
    BY <2>1, <2>2, <2>3, <2>4, <2>5
<1>11. NoScreenshotForgotten'
  BY <1>9, <1>10 DEF NoScreenshotForgotten, OtherReference, Live, ReportClaimed
<1>12. GoneIsRetired'
  <2> SUFFICES ASSUME NEW s \in Source, <<s, 0>> \notin storedUrl, migration[s] = "none"
               PROVE  \E q \in Report : /\ claim'[q] # NoClaim /\ claim'[q].url = <<s, 0>>
                                        /\ claim'[q].started \/ claim'[q].deleted
    BY DEF GoneIsRetired
  <2>1. PICK q \in Report : /\ claim[q] # NoClaim /\ claim[q].url = <<s, 0>>
                            /\ claim[q].started \/ claim[q].deleted
    BY DEF ReportIInv, GoneIsRetired
  <2>2. claim[q].url # NoUrl
    BY <2>1, ReportKinds
  <2>3. CASE q = r
    BY <1>2, <2>1, <2>2, <2>3
  <2>4. CASE q # r
    BY <1>2, <2>1, <2>4
  <2> QED
    BY <2>3, <2>4
<1> QED
  BY <1>2, <1>3, <1>5, <1>6, <1>7, <1>8, <1>11, <1>12

LEMMA ReportTypesNext ==
  ASSUME reportRow' \in [Report -> {AbsentRow} \cup RowRecord],
         claim' \in [Report -> {NoClaim} \cup ClaimRecord],
         migration' \in [Source -> {"none", "started", "deleted"}],
         storedUrl' \subseteq Locator, storedKey' \subseteq Private, keyOld' \subseteq Private,
         JobsAt', publicOwner' \in [PublicId -> Report \cup {NoReport}],
         named' \subseteq Private \cup Locator,
         storageFaults' \in 0..MaxStorageFaults, reopens' \in 0..MaxReopens
  PROVE  ReportTypeOK'
<1>1. /\ cleaner'.step \in {"idle", "claimed", "deleting", "confirmed"}
      /\ migrator'.step \in {"idle", "deleting", "confirmed"}
      /\ purger'.step \in {"idle", "deleting", "confirmed"}
  <2>1. cleaner'.step \in {"idle", "claimed", "deleting", "confirmed"}
    <3>1. CASE cleaner' = Idle
      BY <3>1 DEF Idle
    <3>2. CASE cleaner' # Idle
      BY <3>2 DEF JobsAt, CleanerRecord
    <3> QED
      BY <3>1, <3>2
  <2>2. migrator'.step \in {"idle", "deleting", "confirmed"}
    <3>1. CASE migrator' = Idle
      BY <3>1 DEF Idle
    <3>2. CASE migrator' # Idle
      BY <3>2 DEF JobsAt, MigratorRecord
    <3> QED
      BY <3>1, <3>2
  <2>3. purger'.step \in {"idle", "deleting", "confirmed"}
    <3>1. CASE purger' = Idle
      BY <3>1 DEF Idle
    <3>2. CASE purger' # Idle
      BY <3>2 DEF JobsAt, PurgerRecord
    <3> QED
      BY <3>1, <3>2
  <2> QED
    BY <2>1, <2>2, <2>3
<1> QED
  BY <1>1 DEF ReportTypeOK, RowRecord, ClaimRecord, Url

\* The jobs' positions do not depend on what else happens to the reports.
LEMMA JobsKeep ==
  ASSUME JobsAt, UNCHANGED <<cleaner, migrator, purger, migration, storedUrl, storedKey>>,
         \A r \in Report : reportRow[r] # AbsentRow /\ claim[r] # NoClaim =>
           /\ reportRow'[r] # AbsentRow /\ claim'[r] # NoClaim
           /\ claim'[r].url = claim[r].url /\ claim'[r].started = claim[r].started
  PROVE  JobsAt'
<1>1. cleaner # Idle => cleaner.r \in Report
  BY DEF JobsAt, CleanerRecord
<1>2. (cleaner # Idle => /\ cleaner \in CleanerRecord
                         /\ reportRow[cleaner.r] # AbsentRow /\ claim[cleaner.r] # NoClaim
                         /\ claim[cleaner.r].url = cleaner.url
                         /\ cleaner.step \in {"deleting", "confirmed"} =>
                              claim[cleaner.r].started /\ cleaner.url # NoUrl
                         /\ cleaner.step = "confirmed" => cleaner.url \notin storedUrl)'
  BY <1>1 DEF JobsAt
<1> QED
  BY <1>2 DEF JobsAt

LEMMA StatusStep ==
  ASSUME ReportIInv, NEW r \in Report, NEW status \in {"open", "closed"}, updateStatus(r, status)
  PROVE  ReportIInv'
<1>1. /\ reportRow \in [Report -> {AbsentRow} \cup RowRecord]
      /\ claim \in [Report -> {NoClaim} \cup ClaimRecord] /\ Together(reportRow[r], claim[r])
      /\ ReportTypeOK /\ JobsAt
  BY ReportTables DEF ReportIInv
<1>2. reportRow[r] # AbsentRow /\ reportRow[r] \in RowRecord /\ ~ reportRow[r].scrubbed
  BY <1>1 DEF updateStatus, Live
<1>3. claim[r] # NoClaim => claim[r].url = NoUrl
  BY <1>1, <1>2 DEF Together
<1>4. RestoredUrl(r) = reportRow[r].url /\ ~ WithdrawsClaim(r)
  BY <1>3 DEF RestoredUrl, WithdrawsClaim, ReportClaimed
<1> DEFINE row == [reportRow[r] EXCEPT !.status = status, !.url = reportRow[r].url,
                                       !.due = IF @ = "hard" THEN @ ELSE "no"]
<1>5. /\ reportRow' = [reportRow EXCEPT ![r] = row] /\ claim' = [claim EXCEPT ![r] = claim[r]]
      /\ UNCHANGED <<claim, migration, storedUrl, storedKey, keyOld, cleaner, migrator, purger,
                     publicOwner, named, storageFaults>>
      /\ reopens' \in 0..MaxReopens
  <2>1. reportRow' = [reportRow EXCEPT ![r] = row]
    BY <1>1, <1>4 DEF updateStatus
  <2>2. claim' = claim
    BY <1>4 DEF updateStatus
  <2>3. reopens' \in 0..MaxReopens
    BY <1>1, ReportAssumption DEF updateStatus, ReportTypeOK
  <2>4. UNCHANGED <<migration, storedUrl, storedKey, keyOld, cleaner, migrator, purger,
                    publicOwner, named, storageFaults>>
    BY DEF updateStatus
  <2> QED
    BY <1>1, <2>1, <2>2, <2>3, <2>4
<1>6. /\ row \in RowRecord /\ row.pub = reportRow[r].pub /\ row.url = reportRow[r].url
      /\ row.key = reportRow[r].key /\ row.keyDeleted = reportRow[r].keyDeleted
      /\ row.scrubbed = reportRow[r].scrubbed
  BY <1>2 DEF RowRecord
<1>7. row # AbsentRow
  BY <1>6, ReportKinds
<1> HIDE DEF row
<1>8. Together(row, claim[r])
  BY <1>1, <1>2, <1>6, <1>7 DEF Together
<1>9. /\ reportRow' \in [Report -> {AbsentRow} \cup RowRecord]
      /\ claim' \in [Report -> {NoClaim} \cup ClaimRecord]
      /\ \A q \in Report : Together(reportRow'[q], claim'[q])
      /\ Fenced' /\ OwnersKnown' /\ GoneIsRetired'
      /\ LiveScreenshotReadable' /\ PublicIdNeverReused' /\ NoScreenshotForgotten'
  <2>1. claim[r] # NoClaim /\ claim[r].started /\ claim[r].url # NoUrl => FALSE
    BY <1>3
  <2>2. r \in Inventory => \/ row # AbsentRow /\ row.key /\ ~ row.keyDeleted
                           \/ claim[r] # NoClaim /\ claim[r].key /\ ~ claim[r].deleted
    BY <1>6, <1>7 DEF Inventory, Live, ReportClaimed
  <2>3. row \in {AbsentRow} \cup RowRecord /\ claim[r] \in {NoClaim} \cup ClaimRecord
    BY <1>1, <1>6
  <2>4. Follows(r, row, claim[r])
    BY <1>2, <1>6, <1>7, <1>8, <2>1, <2>2, <2>3 DEF Follows
  <2> QED
    BY <1>5, <2>4, OneReportChanges
<1>10. JobsAt'
  <2>1. \A q \in Report : reportRow[q] # AbsentRow => reportRow'[q] # AbsentRow
    BY <1>1, <1>5, <1>7
  <2> QED
    BY <1>1, <1>5, <2>1, JobsKeep
<1>11. ReportTypeOK'
  BY <1>1, <1>5, <1>9, <1>10, ReportTypesNext DEF ReportTypeOK
<1> QED
  BY <1>9, <1>10, <1>11 DEF ReportIInv

LEMMA AgeStep ==
  ASSUME ReportIInv, NEW r \in Report, Age(r)
  PROVE  ReportIInv'
<1>1. /\ reportRow \in [Report -> {AbsentRow} \cup RowRecord]
      /\ claim \in [Report -> {NoClaim} \cup ClaimRecord] /\ Together(reportRow[r], claim[r])
      /\ ReportTypeOK /\ JobsAt
  BY ReportTables DEF ReportIInv
<1>2. UNCHANGED <<claim, migration, storedUrl, storedKey, cleaner, migrator, purger,
                  publicOwner, named, storageFaults, reopens>>
  BY DEF Age
<1>3. PICK row \in {AbsentRow} \cup RowRecord :
        /\ reportRow' = [reportRow EXCEPT ![r] = row] /\ keyOld' \subseteq Private
        /\ row = AbsentRow <=> reportRow[r] = AbsentRow
        /\ row # AbsentRow => /\ row.pub = reportRow[r].pub /\ row.url = reportRow[r].url
                              /\ row.key = reportRow[r].key /\ row.keyDeleted = reportRow[r].keyDeleted
                              /\ row.scrubbed = reportRow[r].scrubbed
  <2>1. CASE r \in Private /\ keyOld' = keyOld \cup {r} /\ UNCHANGED reportRow
    <3>1. reportRow' = [reportRow EXCEPT ![r] = reportRow[r]] /\ keyOld' \subseteq Private
      BY <1>1, <2>1 DEF ReportTypeOK
    <3>2. reportRow[r] \in {AbsentRow} \cup RowRecord
      BY <1>1
    <3> QED
      BY <3>1, <3>2
  <2>2. ASSUME NEW d \in {"closed", "hard"}, Live(r), reportRow' = [reportRow EXCEPT ![r].due = d],
               UNCHANGED keyOld
        PROVE  \E row \in {AbsentRow} \cup RowRecord :
                 /\ reportRow' = [reportRow EXCEPT ![r] = row] /\ keyOld' \subseteq Private
                 /\ row = AbsentRow <=> reportRow[r] = AbsentRow
                 /\ row # AbsentRow => /\ row.pub = reportRow[r].pub /\ row.url = reportRow[r].url
                                       /\ row.key = reportRow[r].key
                                       /\ row.keyDeleted = reportRow[r].keyDeleted
                                       /\ row.scrubbed = reportRow[r].scrubbed
    <3> DEFINE row == [reportRow[r] EXCEPT !.due = d]
    <3>1. reportRow[r] # AbsentRow /\ reportRow[r] \in RowRecord
      BY <1>1, <2>2 DEF Live
    <3>2. /\ row \in RowRecord /\ row.pub = reportRow[r].pub /\ row.url = reportRow[r].url
          /\ row.key = reportRow[r].key /\ row.keyDeleted = reportRow[r].keyDeleted
          /\ row.scrubbed = reportRow[r].scrubbed
      BY <3>1 DEF RowRecord
    <3>3. row # AbsentRow
      BY <3>2, ReportKinds
    <3>4. reportRow' = [reportRow EXCEPT ![r] = row] /\ keyOld' \subseteq Private
      BY <1>1, <2>2 DEF ReportTypeOK
    <3> HIDE DEF row
    <3> QED
      BY <3>1, <3>2, <3>3, <3>4
  <2> QED
    BY <2>1, <2>2 DEF Age
<1>4. Together(row, claim[r])
  BY <1>1, <1>3 DEF Together
<1>5. claim' = [claim EXCEPT ![r] = claim[r]] /\ claim[r] \in {NoClaim} \cup ClaimRecord
  BY <1>1, <1>2
<1>6. /\ reportRow' \in [Report -> {AbsentRow} \cup RowRecord]
      /\ claim' \in [Report -> {NoClaim} \cup ClaimRecord]
      /\ \A q \in Report : Together(reportRow'[q], claim'[q])
      /\ Fenced' /\ OwnersKnown' /\ GoneIsRetired'
      /\ LiveScreenshotReadable' /\ PublicIdNeverReused' /\ NoScreenshotForgotten'
  <2>1. ASSUME claim[r] # NoClaim, claim[r].started, claim[r].url # NoUrl
        PROVE  /\ \A q \in Report \ {r} : ~ (reportRow[q] # AbsentRow /\ reportRow[q].url = claim[r].url)
               /\ ~ (row # AbsentRow /\ row.url = claim[r].url)
    BY <1>3, <2>1 DEF ReportIInv, Fenced
  <2>2. r \in Inventory => \/ row # AbsentRow /\ row.key /\ ~ row.keyDeleted
                           \/ claim[r] # NoClaim /\ claim[r].key /\ ~ claim[r].deleted
    BY <1>3 DEF Inventory, Live, ReportClaimed
  <2>3. UNCHANGED <<migration, storedUrl, storedKey, publicOwner, named>>
    BY <1>2
  <2>4. Follows(r, row, claim[r])
    BY <1>3, <1>4, <1>5, <2>1, <2>2 DEF Follows
  <2> QED
    BY <1>3, <1>5, <2>3, <2>4, OneReportChanges
<1>7. JobsAt'
  <2>1. \A q \in Report : reportRow[q] # AbsentRow => reportRow'[q] # AbsentRow
    BY <1>1, <1>3
  <2> QED
    BY <1>1, <1>2, <2>1, JobsKeep
<1>8. ReportTypeOK'
  BY <1>1, <1>2, <1>3, <1>6, <1>7, ReportTypesNext DEF ReportTypeOK
<1> QED
  BY <1>6, <1>7, <1>8 DEF ReportIInv

\* What the steps of the clean-up have in common: they change the report they
\* work on and their own position.
LEMMA ReportStep ==
  ASSUME ReportIInv, NEW r \in Report, NEW row, NEW c, Follows(r, row, c),
         reportRow' = [reportRow EXCEPT ![r] = row], claim' = [claim EXCEPT ![r] = c], JobsAt',
         UNCHANGED <<migration, storedUrl, storedKey, keyOld, publicOwner, named, storageFaults,
                     reopens>>
  PROVE  ReportIInv'
<1>1. /\ reportRow' \in [Report -> {AbsentRow} \cup RowRecord]
      /\ claim' \in [Report -> {NoClaim} \cup ClaimRecord]
      /\ \A q \in Report : Together(reportRow'[q], claim'[q])
      /\ Fenced' /\ OwnersKnown' /\ GoneIsRetired'
      /\ LiveScreenshotReadable' /\ PublicIdNeverReused' /\ NoScreenshotForgotten'
  BY OneReportChanges
<1>2. ReportTypeOK'
  BY <1>1, ReportTypesNext DEF ReportIInv, ReportTypeOK
<1> QED
  BY <1>1, <1>2 DEF ReportIInv

\* The other jobs while the cleaner moves and report r changes.
LEMMA CleanerMoves ==
  ASSUME ReportIInv, UNCHANGED <<migrator, purger, migration, storedUrl, storedKey>>,
         cleaner' = Idle \/
           /\ cleaner' \in CleanerRecord
           /\ reportRow'[cleaner'.r] # AbsentRow /\ claim'[cleaner'.r] # NoClaim
           /\ claim'[cleaner'.r].url = cleaner'.url
           /\ cleaner'.step \in {"deleting", "confirmed"} =>
                claim'[cleaner'.r].started /\ cleaner'.url # NoUrl
           /\ cleaner'.step = "confirmed" => cleaner'.url \notin storedUrl
  PROVE  JobsAt'
BY DEF ReportIInv, JobsAt

LEMMA NewClaimFacts ==
  ASSUME NEW p \in PublicId, NEW u \in Url, NEW k \in BOOLEAN
  PROVE  LET c == NewClaim(p, u, k)
         IN  /\ c \in ClaimRecord /\ c # NoClaim /\ c.pub = p /\ c.url = u /\ c.key = k
             /\ ~ c.hashed /\ ~ c.started /\ ~ c.deleted
<1> DEFINE c == NewClaim(p, u, k)
<1>1. /\ c \in ClaimRecord /\ c.pub = p /\ c.url = u /\ c.key = k
      /\ ~ c.hashed /\ ~ c.started /\ ~ c.deleted
  BY DEF NewClaim, ClaimRecord
<1> QED
  BY <1>1, ReportKinds

LEMMA ClaimStep ==
  ASSUME ReportIInv, NEW r \in Report, claimForDeletion(r)
  PROVE  ReportIInv'
<1>1. /\ reportRow \in [Report -> {AbsentRow} \cup RowRecord]
      /\ claim \in [Report -> {NoClaim} \cup ClaimRecord] /\ Together(reportRow[r], claim[r])
  BY ReportTables DEF ReportIInv
<1>2. reportRow[r] # AbsentRow /\ reportRow[r] \in RowRecord /\ cleaner = Idle
  BY <1>1 DEF claimForDeletion, Expired, Live
<1>3. /\ reportRow[r].pub \in PublicId /\ reportRow[r].url \in Url /\ KeptKey(r) \in BOOLEAN
      /\ KeptKey(r) <=> reportRow[r].key /\ ~ reportRow[r].keyDeleted
  BY <1>2 DEF RowRecord, KeptKey
<1> DEFINE c == IF ReportClaimed(r) THEN claim[r]
                ELSE NewClaim(reportRow[r].pub, reportRow[r].url, KeptKey(r))
<1>4. UNCHANGED <<migration, storedUrl, storedKey, keyOld, migrator, purger, publicOwner, named,
                  storageFaults, reopens>>
  BY DEF claimForDeletion
<1>5. /\ c \in ClaimRecord /\ c # NoClaim /\ c.pub = reportRow[r].pub
      /\ ~ c.hashed /\ ~ c.deleted
      /\ claim[r] # NoClaim => c = claim[r]
      /\ claim[r] = NoClaim => c.url = reportRow[r].url /\ c.key = KeptKey(r) /\ ~ c.started
  <2>1. CASE claim[r] # NoClaim
    BY <1>1, <1>2, <2>1 DEF ReportClaimed, Together
  <2>2. CASE claim[r] = NoClaim
    <3>1. c = NewClaim(reportRow[r].pub, reportRow[r].url, KeptKey(r))
      BY <2>2 DEF ReportClaimed
    <3> QED
      BY <1>3, <2>2, <3>1, NewClaimFacts
  <2> QED
    BY <2>1, <2>2
<1>6. CASE reportRow[r].key /\ ~ reportRow[r].keyDeleted
  <2> DEFINE k == [c EXCEPT !.key = KeptKey(r)]
  <2>1. /\ reportRow' = [reportRow EXCEPT ![r] = AbsentRow] /\ claim' = [claim EXCEPT ![r] = k]
        /\ UNCHANGED cleaner
    BY <1>6 DEF claimForDeletion
  <2>2. claim[r] = NoClaim /\ reportRow[r].url = NoUrl
    BY <1>1, <1>2, <1>6 DEF Together
  <2> HIDE DEF c
  <2>3. /\ k \in ClaimRecord /\ k.pub = reportRow[r].pub /\ k.url = NoUrl /\ k.key
        /\ ~ k.hashed /\ ~ k.deleted /\ ~ k.started
    BY <1>3, <1>5, <1>6, <2>2 DEF ClaimRecord
  <2>4. k # NoClaim
    BY <2>3, ReportKinds
  <2> HIDE DEF k
  <2>5. \A u \in storedUrl : u # NoUrl
    BY ReportKinds DEF ReportIInv, ReportTypeOK
  <2>6. Together(AbsentRow, k)
    BY <2>3 DEF Together
  <2>7. Follows(r, AbsentRow, k)
    BY <1>2, <2>2, <2>3, <2>4, <2>5, <2>6 DEF Follows
  <2>8. JobsAt'
    BY <1>2, <1>4, <2>1, CleanerMoves
  <2> QED
    BY <1>4, <2>1, <2>7, <2>8, ReportStep
<1>7. CASE ~ (reportRow[r].key /\ ~ reportRow[r].keyDeleted)
  <2> DEFINE row == IF reportRow[r].url = NoUrl THEN reportRow[r]
                    ELSE [reportRow[r] EXCEPT !.url = NoUrl, !.scrubbed = TRUE]
  <2>1. /\ claim' = [claim EXCEPT ![r] = c]
        /\ reportRow' = IF reportRow[r].url = NoUrl THEN reportRow
                        ELSE [reportRow EXCEPT ![r].url = NoUrl, ![r].scrubbed = TRUE]
        /\ cleaner' = [step |-> "claimed", r |-> r,
                       url |-> IF c.deleted \/ c.hashed THEN NoUrl ELSE c.url]
    BY <1>7 DEF claimForDeletion
  <2>2. reportRow' = [reportRow EXCEPT ![r] = row]
    BY <1>1, <2>1
  <2>3. /\ row \in RowRecord /\ row.pub = reportRow[r].pub /\ row.url = NoUrl
        /\ row.key = reportRow[r].key /\ row.keyDeleted = reportRow[r].keyDeleted
        /\ reportRow[r].url # NoUrl => row.scrubbed
        /\ reportRow[r].scrubbed => row.scrubbed
    BY <1>2 DEF RowRecord, Url
  <2>4. row # AbsentRow
    BY <2>3, ReportKinds
  <2> HIDE DEF row, c
  <2>5. Together(row, c)
    <3>1. claim[r] # NoClaim /\ c.url # NoUrl => reportRow[r].scrubbed
      BY <1>1, <1>2, <1>5 DEF Together
    <3>2. ~ c.key
      BY <1>1, <1>2, <1>3, <1>5, <1>7 DEF Together
    <3> QED
      BY <1>5, <1>7, <2>3, <3>1, <3>2 DEF Together
  <2>6. ASSUME c.started, c.url # NoUrl
        PROVE  \A q \in Report : ~ (reportRow[q] # AbsentRow /\ reportRow[q].url = c.url)
    BY <1>5, <2>6 DEF ReportIInv, Fenced
  <2>7. ~ (r \in Inventory)
    <3>1. claim[r] # NoClaim => ~ claim[r].key
      BY <1>1, <1>2 DEF Together
    <3> QED
      BY <1>7, <3>1 DEF Inventory, ReportClaimed, Live
  <2>8. \A u \in storedUrl : u # NoUrl
    BY ReportKinds DEF ReportIInv, ReportTypeOK
  <2>9. claim[r] # NoClaim => reportRow[r].url = NoUrl
    BY <1>1, <1>2 DEF Together
  <2>10. Follows(r, row, c)
    BY <1>2, <1>5, <2>3, <2>4, <2>5, <2>6, <2>7, <2>8, <2>9 DEF Follows
  <2>11. JobsAt'
    <3>1. reportRow'[r] = row /\ claim'[r] = c
      BY <1>1, <2>1, <2>2
    <3>2. cleaner' = [step |-> "claimed", r |-> r, url |-> c.url]
      BY <1>5, <2>1
    <3>3. cleaner' \in CleanerRecord /\ cleaner'.r = r /\ cleaner'.url = c.url /\ cleaner'.step = "claimed"
      BY <1>5, <3>2 DEF CleanerRecord, ClaimRecord
    <3> QED
      BY <1>4, <1>5, <2>4, <3>1, <3>3, CleanerMoves
  <2> QED
    BY <1>4, <2>1, <2>2, <2>10, <2>11, ReportStep
<1> QED
  BY <1>6, <1>7

\* The report the cleaner works on.
LEMMA CleanersReport ==
  ASSUME ReportIInv, cleaner # Idle
  PROVE  /\ cleaner \in CleanerRecord /\ cleaner.r \in Report
         /\ reportRow[cleaner.r] # AbsentRow /\ reportRow[cleaner.r] \in RowRecord
         /\ claim[cleaner.r] # NoClaim /\ claim[cleaner.r] \in ClaimRecord
         /\ claim[cleaner.r].url = cleaner.url
         /\ reportRow[cleaner.r].url = NoUrl
         /\ ~ (reportRow[cleaner.r].key /\ ~ reportRow[cleaner.r].keyDeleted)
         /\ ~ claim[cleaner.r].hashed /\ ~ claim[cleaner.r].deleted /\ ~ claim[cleaner.r].key
         /\ claim[cleaner.r].pub = reportRow[cleaner.r].pub
         /\ cleaner.r \notin Inventory
<1>1. cleaner \in CleanerRecord /\ cleaner.r \in Report
  BY DEF ReportIInv, JobsAt, CleanerRecord
<1>2. /\ reportRow[cleaner.r] # AbsentRow /\ claim[cleaner.r] # NoClaim
      /\ claim[cleaner.r].url = cleaner.url
  BY DEF ReportIInv, JobsAt
<1>3. reportRow[cleaner.r] \in RowRecord /\ claim[cleaner.r] \in ClaimRecord
  BY <1>1, <1>2, ReportTables DEF ReportIInv
<1>4. Together(reportRow[cleaner.r], claim[cleaner.r])
  BY <1>1 DEF ReportIInv
<1> QED
  BY <1>1, <1>2, <1>3, <1>4 DEF Together, Inventory, Live, ReportClaimed

LEMMA PrepareStep ==
  ASSUME ReportIInv, prepareClaimedDeletion
  PROVE  ReportIInv'
<1> DEFINE r == cleaner.r
           u == IF claim[r] = NoClaim \/ claim[r].hashed THEN NoUrl ELSE claim[r].url
<1>1. cleaner.step = "claimed" /\ cleaner # Idle
  BY DEF prepareClaimedDeletion, Idle
<1>2. /\ cleaner \in CleanerRecord /\ r \in Report
      /\ reportRow[r] # AbsentRow /\ reportRow[r] \in RowRecord
      /\ claim[r] # NoClaim /\ claim[r] \in ClaimRecord /\ claim[r].url = cleaner.url
      /\ reportRow[r].url = NoUrl /\ ~ claim[r].hashed /\ ~ claim[r].deleted /\ ~ claim[r].key
      /\ claim[r].pub = reportRow[r].pub /\ r \notin Inventory
  BY <1>1, CleanersReport
<1>3. u = claim[r].url
  BY <1>2
<1>4. UNCHANGED <<migration, storedUrl, storedKey, keyOld, migrator, purger, publicOwner, named,
                  storageFaults, reopens>>
  BY DEF prepareClaimedDeletion
<1>5. \A v \in storedUrl : v # NoUrl
  BY ReportKinds DEF ReportIInv, ReportTypeOK
<1>6. /\ reportRow \in [Report -> {AbsentRow} \cup RowRecord]
      /\ claim \in [Report -> {NoClaim} \cup ClaimRecord] /\ Together(reportRow[r], claim[r])
  BY <1>2, ReportTables DEF ReportIInv
<1> HIDE DEF r, u
<1>7. ASSUME NEW c, c \in ClaimRecord, c.pub = claim[r].pub, ~ c.key, ~ c.started, ~ claim[r].started,
             c.url = NoUrl \/ c.url = claim[r].url,
             reportRow' = [reportRow EXCEPT ![r] = AbsentRow], claim' = [claim EXCEPT ![r] = c],
             cleaner' = Idle,
             claim[r].url \in storedUrl =>
               \E q \in Report \ {r} : reportRow[q] # AbsentRow /\ reportRow[q].url = claim[r].url
      PROVE  ReportIInv'
  <2>1. c # NoClaim
    BY <1>7, ReportKinds
  <2>2. Together(AbsentRow, c)
    BY <1>7 DEF Together
  <2>3. Follows(r, AbsentRow, c)
    BY <1>2, <1>5, <1>7, <2>1, <2>2 DEF Follows
  <2>4. JobsAt'
    BY <1>4, <1>7, CleanerMoves
  <2> QED
    BY <1>2, <1>4, <1>7, <2>3, <2>4, ReportStep
<1>8. CASE NotToDelete(r)
  <2>1. cleaner' = Idle /\ UNCHANGED <<reportRow, claim>>
    BY <1>8 DEF prepareClaimedDeletion, r
  <2>2. JobsAt'
    BY <1>4, <2>1, CleanerMoves
  <2>3. /\ reportRow' = [reportRow EXCEPT ![r] = reportRow[r]]
        /\ claim' = [claim EXCEPT ![r] = claim[r]]
    BY <1>6, <2>1
  <2>4. claim[r].started /\ claim[r].url # NoUrl =>
          \A q \in Report : ~ (reportRow[q] # AbsentRow /\ reportRow[q].url = claim[r].url)
    BY <1>2 DEF ReportIInv, Fenced
  <2>5. Follows(r, reportRow[r], claim[r])
    BY <1>2, <1>6, <2>4 DEF Follows
  <2> QED
    BY <1>2, <1>4, <2>2, <2>3, <2>5, ReportStep
<1>9. CASE ~ NotToDelete(r) /\ u = NoUrl
  <2> DEFINE c == [claim[r] EXCEPT !.hashed = (u # NoUrl)]
  <2>1. /\ reportRow' = [reportRow EXCEPT ![r] = AbsentRow]
        /\ claim' = [claim EXCEPT ![r].hashed = u # NoUrl] /\ cleaner' = Idle
    BY <1>9 DEF prepareClaimedDeletion, r, u
  <2>2. claim' = [claim EXCEPT ![r] = c]
    BY <1>6, <2>1
  <2>3. /\ c \in ClaimRecord /\ c.pub = claim[r].pub /\ ~ c.key
        /\ c.url = claim[r].url /\ c.started = claim[r].started
    BY <1>2 DEF ClaimRecord
  <2>4. claim[r].url = NoUrl /\ claim[r].url \notin storedUrl
    BY <1>3, <1>5, <1>9
  <2> HIDE DEF c
  <2>5. c # NoClaim
    BY <2>3, ReportKinds
  <2>6. Together(AbsentRow, c)
    BY <2>3 DEF Together
  <2>7. Follows(r, AbsentRow, c)
    BY <1>2, <1>5, <2>3, <2>4, <2>5, <2>6 DEF Follows
  <2>8. JobsAt'
    BY <1>4, <2>1, CleanerMoves
  <2> QED
    BY <1>2, <1>4, <2>1, <2>2, <2>7, <2>8, ReportStep
<1>10. CASE ~ NotToDelete(r) /\ u # NoUrl /\ ~ claim[r].started /\ OtherReference(u)
  <2> DEFINE c == [claim[r] EXCEPT !.url = NoUrl]
  <2>1. /\ reportRow' = [reportRow EXCEPT ![r] = AbsentRow]
        /\ claim' = [claim EXCEPT ![r].url = NoUrl] /\ cleaner' = Idle
    BY <1>2, <1>10 DEF prepareClaimedDeletion, r, u
  <2>2. claim' = [claim EXCEPT ![r] = c]
    BY <1>6, <2>1
  <2>3. /\ c \in ClaimRecord /\ c.pub = claim[r].pub /\ ~ c.key /\ c.url = NoUrl /\ ~ c.started
    BY <1>2, <1>10 DEF ClaimRecord, Url
  <2>4. \E q \in Report \ {r} : reportRow[q] # AbsentRow /\ reportRow[q].url = claim[r].url
    BY <1>2, <1>3, <1>10 DEF OtherReference, Live
  <2> HIDE DEF c
  <2> QED
    BY <1>7, <1>10, <2>1, <2>2, <2>3, <2>4
<1>11. CASE ~ NotToDelete(r) /\ u # NoUrl /\ ~ (~ claim[r].started /\ OtherReference(u))
  <2> DEFINE c == [claim[r] EXCEPT !.started = TRUE]
  <2>1. /\ claim' = [claim EXCEPT ![r].started = TRUE]
        /\ cleaner' = [cleaner EXCEPT !.step = "deleting"] /\ UNCHANGED reportRow
    BY <1>2, <1>11 DEF prepareClaimedDeletion, r, u
  <2>2. claim' = [claim EXCEPT ![r] = c] /\ reportRow' = [reportRow EXCEPT ![r] = reportRow[r]]
    BY <1>6, <2>1
  <2>3. /\ c \in ClaimRecord /\ c.pub = claim[r].pub /\ c.key = claim[r].key
        /\ c.hashed = claim[r].hashed /\ c.deleted = claim[r].deleted
        /\ c.url = claim[r].url /\ c.started
    BY <1>2 DEF ClaimRecord
  <2>4. c # NoClaim
    BY <2>3, ReportKinds
  <2>5. \A q \in Report : ~ (reportRow[q] # AbsentRow /\ reportRow[q].url = claim[r].url)
    <3>1. CASE claim[r].started
      BY <1>2, <1>3, <1>11, <3>1 DEF ReportIInv, Fenced
    <3>2. CASE ~ claim[r].started
      BY <1>3, <1>11, <3>2 DEF OtherReference, Live
    <3> QED
      BY <3>1, <3>2
  <2> HIDE DEF c
  <2>6. Together(reportRow[r], c)
    BY <1>2, <1>6, <2>3 DEF Together
  <2>7. Follows(r, reportRow[r], c)
    BY <1>2, <2>3, <2>4, <2>5, <2>6 DEF Follows
  <2>8. JobsAt'
    <3>1. /\ cleaner' \in CleanerRecord /\ cleaner'.r = r /\ cleaner'.url = cleaner.url
          /\ cleaner'.step = "deleting"
      BY <1>2, <2>1 DEF CleanerRecord, r
    <3>2. reportRow'[r] # AbsentRow /\ claim'[r] = c
      BY <1>2, <1>6, <2>1, <2>2
    <3> QED
      BY <1>2, <1>3, <1>4, <1>11, <2>3, <2>4, <3>1, <3>2, CleanerMoves
  <2> QED
    BY <1>2, <1>4, <2>2, <2>7, <2>8, ReportStep
<1> QED
  BY <1>8, <1>9, <1>10, <1>11

LEMMA CompleteStep ==
  ASSUME ReportIInv, completeClaimedDeletion
  PROVE  ReportIInv'
<1> DEFINE r == cleaner.r
<1>1. cleaner.step = "confirmed" /\ cleaner # Idle /\ cleaner' = Idle
  BY DEF completeClaimedDeletion, Idle
<1>2. /\ cleaner \in CleanerRecord /\ r \in Report
      /\ reportRow[r] # AbsentRow /\ reportRow[r] \in RowRecord
      /\ claim[r] # NoClaim /\ claim[r] \in ClaimRecord /\ claim[r].url = cleaner.url
      /\ reportRow[r].url = NoUrl /\ ~ claim[r].hashed /\ ~ claim[r].deleted /\ ~ claim[r].key
      /\ claim[r].pub = reportRow[r].pub /\ r \notin Inventory
  BY <1>1, CleanersReport
<1>3. /\ claim[r].url \notin storedUrl /\ claim[r].started /\ claim[r].url # NoUrl
      /\ \A q \in Report : ~ (reportRow[q] # AbsentRow /\ reportRow[q].url = claim[r].url)
  <2>1. claim[r].url \notin storedUrl /\ claim[r].started /\ claim[r].url # NoUrl
    BY <1>1, <1>2 DEF ReportIInv, JobsAt
  <2> QED
    BY <1>2, <2>1 DEF ReportIInv, Fenced
<1>4. UNCHANGED <<migration, storedUrl, storedKey, keyOld, migrator, purger, publicOwner, named,
                  storageFaults, reopens>>
  BY DEF completeClaimedDeletion
<1>5. /\ reportRow \in [Report -> {AbsentRow} \cup RowRecord]
      /\ claim \in [Report -> {NoClaim} \cup ClaimRecord] /\ Together(reportRow[r], claim[r])
      /\ \A v \in storedUrl : v # NoUrl
  BY <1>2, ReportTables, ReportKinds DEF ReportIInv, ReportTypeOK
<1>6. JobsAt'
  BY <1>1, <1>4, CleanerMoves
<1> HIDE DEF r
<1>7. CASE UNCHANGED <<reportRow, claim>>
  <2>1. /\ reportRow' = [reportRow EXCEPT ![r] = reportRow[r]]
        /\ claim' = [claim EXCEPT ![r] = claim[r]]
    BY <1>5, <1>7
  <2>2. Follows(r, reportRow[r], claim[r])
    BY <1>2, <1>3, <1>5 DEF Follows
  <2> QED
    BY <1>2, <1>4, <1>6, <2>1, <2>2, ReportStep
<1>8. CASE /\ claim' = [claim EXCEPT ![r].deleted = claim[r].url # NoUrl,
                                     ![r].hashed = claim[r].url # NoUrl]
           /\ reportRow' = [reportRow EXCEPT ![r] = AbsentRow]
  <2> DEFINE c == [claim[r] EXCEPT !.deleted = (claim[r].url # NoUrl),
                                   !.hashed = (claim[r].url # NoUrl)]
  <2>1. claim' = [claim EXCEPT ![r] = c]
    BY <1>5, <1>8
  <2>2. /\ c \in ClaimRecord /\ c.pub = claim[r].pub /\ c.key = claim[r].key /\ c.url = claim[r].url
        /\ c.started = claim[r].started
    BY <1>2 DEF ClaimRecord
  <2> HIDE DEF c
  <2>3. c # NoClaim /\ Together(AbsentRow, c)
    BY <1>2, <2>2, ReportKinds DEF Together
  <2>4. Follows(r, AbsentRow, c)
    BY <1>2, <1>3, <1>5, <2>2, <2>3 DEF Follows
  <2> QED
    BY <1>2, <1>4, <1>6, <1>8, <2>1, <2>4, ReportStep
<1> QED
  BY <1>7, <1>8 DEF completeClaimedDeletion, r

LEMMA MarkStep ==
  ASSUME ReportIInv, markScreenshotDeleted
  PROVE  ReportIInv'
<1> DEFINE r == purger.r
<1>1. purger # Idle /\ purger' = Idle /\ r \in Report /\ r \notin storedKey
  <2>1. purger.step = "confirmed" /\ purger # Idle /\ purger' = Idle
    BY DEF markScreenshotDeleted, Idle
  <2> QED
    BY <2>1, ReportAssumption DEF ReportIInv, JobsAt, PurgerRecord
<1>2. UNCHANGED <<migration, storedUrl, storedKey, keyOld, cleaner, migrator, publicOwner, named,
                  storageFaults, reopens>>
  BY DEF markScreenshotDeleted
<1>3. /\ reportRow \in [Report -> {AbsentRow} \cup RowRecord]
      /\ claim \in [Report -> {NoClaim} \cup ClaimRecord] /\ Together(reportRow[r], claim[r])
      /\ \A v \in storedUrl : v # NoUrl
  BY <1>1, ReportTables, ReportKinds DEF ReportIInv, ReportTypeOK
<1> DEFINE row == IF Live(r) THEN [reportRow[r] EXCEPT !.key = FALSE, !.keyDeleted = TRUE]
                  ELSE reportRow[r]
           c == IF ReportClaimed(r) /\ claim[r].key
                THEN [claim[r] EXCEPT !.key = FALSE, !.deleted = TRUE, !.url = NoUrl] ELSE claim[r]
<1>4. reportRow' = [reportRow EXCEPT ![r] = row]
  BY <1>1, <1>3 DEF markScreenshotDeleted
<1>5. claim' = [claim EXCEPT ![r] = c]
  BY <1>1, <1>3 DEF markScreenshotDeleted
<1>6. CASE reportRow[r] # AbsentRow
  <2>1. /\ reportRow[r] \in RowRecord /\ row = [reportRow[r] EXCEPT !.key = FALSE, !.keyDeleted = TRUE]
    BY <1>1, <1>3, <1>6 DEF Live
  <2>2. /\ row \in RowRecord /\ row.pub = reportRow[r].pub /\ row.url = reportRow[r].url
        /\ ~ row.key /\ row.keyDeleted /\ row.scrubbed = reportRow[r].scrubbed
    BY <2>1 DEF RowRecord
  <2> HIDE DEF row
  <2>3. row # AbsentRow
    BY <2>2, ReportKinds
  <2>4. c = claim[r]
    BY <1>3, <1>6 DEF Together, ReportClaimed
  <2> HIDE DEF c
  <2>5. claim[r] \in {NoClaim} \cup ClaimRecord
    BY <1>1, <1>3
  <2>6. Together(row, c)
    BY <1>3, <1>6, <2>2, <2>3, <2>4 DEF Together
  <2>7. claim[r] # NoClaim /\ claim[r].started /\ claim[r].url # NoUrl =>
          \A q \in Report : ~ (reportRow[q] # AbsentRow /\ reportRow[q].url = claim[r].url)
    BY <1>1 DEF ReportIInv, Fenced
  <2>8. Follows(r, row, c)
    BY <1>1, <1>6, <2>2, <2>3, <2>4, <2>5, <2>6, <2>7 DEF Follows
  <2>9. JobsAt'
    <3>1. UNCHANGED claim /\ \A q \in Report : reportRow[q] # AbsentRow => reportRow'[q] # AbsentRow
      BY <1>1, <1>3, <1>4, <1>5, <2>3, <2>4
    <3> QED
      BY <1>1, <1>2, <3>1 DEF ReportIInv, JobsAt, CleanerRecord
  <2> QED
    BY <1>1, <1>2, <1>4, <1>5, <2>8, <2>9, ReportStep
<1>7. CASE reportRow[r] = AbsentRow
  <2>1. row = AbsentRow
    BY <1>7 DEF Live
  <2> HIDE DEF row
  <2>2. c # NoClaim <=> claim[r] # NoClaim
    <3>1. CASE claim[r] = NoClaim
      BY <3>1 DEF ReportClaimed
    <3>2. CASE claim[r] # NoClaim
      <4>1. claim[r] \in ClaimRecord
        BY <1>1, <1>3, <3>2
      <4>2. c \in ClaimRecord
        BY <4>1 DEF ClaimRecord, Url
      <4> QED
        BY <3>2, <4>2, ReportKinds
    <3> QED
      BY <3>1, <3>2
  <2>3. /\ c \in {NoClaim} \cup ClaimRecord
        /\ c # NoClaim => /\ c.pub = claim[r].pub /\ (c.key => c.url = NoUrl)
                          /\ c = claim[r] \/ (c.url = NoUrl /\ claim[r].url = NoUrl)
    <3>1. CASE claim[r] = NoClaim
      BY <2>2, <3>1
    <3>2. CASE claim[r] # NoClaim
      <4>1. claim[r] \in ClaimRecord /\ (claim[r].key => claim[r].url = NoUrl)
        BY <1>1, <1>3, <3>2 DEF Together
      <4> QED
        BY <4>1 DEF ClaimRecord, Url
    <3> QED
      BY <3>1, <3>2
  <2> HIDE DEF c
  <2>4. Together(row, c)
    BY <2>1, <2>3 DEF Together
  <2>5. claim[r] # NoClaim /\ claim[r].started /\ claim[r].url # NoUrl =>
          \A q \in Report : ~ (reportRow[q] # AbsentRow /\ reportRow[q].url = claim[r].url)
    BY <1>1 DEF ReportIInv, Fenced
  <2>6. Follows(r, row, c)
    BY <1>1, <1>3, <1>7, <2>1, <2>2, <2>3, <2>4, <2>5 DEF Follows
  <2>7. JobsAt'
    <3>1. cleaner # Idle => cleaner.r \in Report /\ cleaner.r # r
      BY <1>7, CleanersReport
    <3>2. cleaner # Idle => claim'[cleaner.r] = claim[cleaner.r] /\ reportRow'[cleaner.r] = reportRow[cleaner.r]
      BY <1>3, <1>4, <1>5, <3>1
    <3> QED
      BY <1>1, <1>2, <3>2 DEF ReportIInv, JobsAt
  <2> QED
    BY <1>1, <1>2, <1>4, <1>5, <2>6, <2>7, ReportStep
<1> QED
  BY <1>6, <1>7

\* An object of the public bucket goes that no live row names, or nothing goes.
LEMMA ObjectsGo ==
  ASSUME ReportIInv, storedUrl' \subseteq storedUrl, storedKey' \subseteq storedKey,
         \A u \in storedUrl \ storedUrl' : ~ \E q \in Report : Live(q) /\ reportRow[q].url = u,
         GoneIsRetired',
         UNCHANGED <<reportRow, claim, migration, keyOld, publicOwner, named, reopens>>,
         storageFaults' \in 0..MaxStorageFaults, JobsAt'
  PROVE  ReportIInv'
<1>1. /\ reportRow' \in [Report -> {AbsentRow} \cup RowRecord]
      /\ claim' \in [Report -> {NoClaim} \cup ClaimRecord]
  BY ReportTables DEF ReportIInv
<1>2. ReportTypeOK'
  BY <1>1, ReportTypesNext DEF ReportIInv, ReportTypeOK
<1>3. Fenced'
  BY DEF ReportIInv, Fenced
<1>4. OwnersKnown' /\ PublicIdNeverReused' /\ \A r \in Report : Together(reportRow'[r], claim'[r])
  BY DEF ReportIInv, OwnersKnown, PublicIdNeverReused, Live, Together
<1>5. LiveScreenshotReadable'
  BY DEF ReportIInv, LiveScreenshotReadable, Live
<1>6. NoScreenshotForgotten'
  BY DEF ReportIInv, NoScreenshotForgotten, OtherReference, Inventory, Live, ReportClaimed
<1> QED
  BY <1>2, <1>3, <1>4, <1>5, <1>6 DEF ReportIInv

LEMMA GoneKeeps ==
  ASSUME ReportIInv, NEW u, UNCHANGED <<claim, migration>>, storedUrl' \in {storedUrl, storedUrl \ {u}},
         \/ \E r \in Report : claim[r] # NoClaim /\ claim[r].url = u /\ claim[r].started
         \/ \E s \in Source : u = <<s, 0>> /\ migration[s] # "none"
  PROVE  GoneIsRetired'
<1> SUFFICES ASSUME NEW s \in Source, <<s, 0>> \notin storedUrl', migration[s] = "none"
             PROVE  \E r \in Report : /\ claim[r] # NoClaim /\ claim[r].url = <<s, 0>>
                                      /\ claim[r].started \/ claim[r].deleted
  BY DEF GoneIsRetired
<1>1. CASE <<s, 0>> \notin storedUrl
  BY <1>1 DEF ReportIInv, GoneIsRetired
<1>2. CASE <<s, 0>> \in storedUrl
  <2>1. u = <<s, 0>>
    BY <1>2
  <2>2. \A t \in Source : u = <<t, 0>> => t = s
    BY <2>1
  <2> QED
    BY <2>1, <2>2
<1> QED
  BY <1>1, <1>2

\* The objects the jobs delete are fenced.
LEMMA FencedTargets ==
  ASSUME ReportIInv
  PROVE  /\ cleaner.step = "deleting" =>
              /\ ~ \E q \in Report : Live(q) /\ reportRow[q].url = cleaner.url
              /\ \E r \in Report : claim[r] # NoClaim /\ claim[r].url = cleaner.url /\ claim[r].started
         /\ migrator.step = "deleting" =>
              /\ migrator.s \in Source /\ migration[migrator.s] # "none"
              /\ ~ \E q \in Report : Live(q) /\ reportRow[q].url = <<migrator.s, 0>>
<1>1. ASSUME cleaner.step = "deleting"
      PROVE  /\ ~ \E q \in Report : Live(q) /\ reportRow[q].url = cleaner.url
             /\ \E r \in Report : claim[r] # NoClaim /\ claim[r].url = cleaner.url /\ claim[r].started
  <2>1. cleaner # Idle
    BY <1>1 DEF Idle
  <2>2. /\ cleaner.r \in Report /\ claim[cleaner.r] # NoClaim /\ claim[cleaner.r].url = cleaner.url
    BY <2>1, CleanersReport
  <2>3. claim[cleaner.r].started /\ cleaner.url # NoUrl
    BY <1>1, <2>1 DEF ReportIInv, JobsAt
  <2> QED
    BY <2>2, <2>3 DEF ReportIInv, Fenced, Live
<1>2. ASSUME migrator.step = "deleting"
      PROVE  /\ migrator.s \in Source /\ migration[migrator.s] # "none"
             /\ ~ \E q \in Report : Live(q) /\ reportRow[q].url = <<migrator.s, 0>>
  <2>1. migrator # Idle
    BY <1>2 DEF Idle
  <2>2. migrator.s \in Source /\ migration[migrator.s] # "none"
    BY <2>1 DEF ReportIInv, JobsAt, MigratorRecord
  <2> QED
    BY <2>2 DEF ReportIInv, Fenced, Live
<1> QED
  BY <1>1, <1>2

LEMMA StorageSteps ==
  ASSUME ReportIInv
  PROVE  /\ deleteScreenshot => ReportIInv'
         /\ MigrationDeletesSource => ReportIInv'
         /\ RetentionRemoves => ReportIInv'
         /\ JobLost => ReportIInv'
         /\ \A r \in Report : RetentionPicks(r) => ReportIInv'
<1>0. JobsAt /\ ReportTypeOK /\ GoneIsRetired
  BY DEF ReportIInv
<1>1. ASSUME deleteScreenshot PROVE ReportIInv'
  <2>1. /\ cleaner.step = "deleting" /\ storedUrl' = storedUrl \ {cleaner.url}
        /\ cleaner' = [cleaner EXCEPT !.step = "confirmed"]
        /\ UNCHANGED <<reportRow, claim, migration, storedKey, keyOld, migrator, purger, publicOwner,
                       named, storageFaults, reopens>>
    BY <1>1 DEF deleteScreenshot
  <2>2. cleaner # Idle /\ cleaner \in CleanerRecord
    BY <1>0, <2>1 DEF Idle, JobsAt
  <2>3. /\ cleaner' \in CleanerRecord /\ cleaner'.r = cleaner.r /\ cleaner'.url = cleaner.url
        /\ cleaner'.step = "confirmed"
    BY <2>1, <2>2 DEF CleanerRecord
  <2>4. JobsAt'
    BY <1>0, <2>1, <2>2, <2>3 DEF JobsAt
  <2>5. storageFaults' \in 0..MaxStorageFaults
    BY <1>0, <2>1 DEF ReportTypeOK
  <2> QED
    <3>1. GoneIsRetired'
      BY <2>1, FencedTargets, GoneKeeps
    <3> QED
      BY <2>1, <2>4, <2>5, <3>1, FencedTargets, ObjectsGo
<1>2. ASSUME MigrationDeletesSource PROVE ReportIInv'
  <2>1. /\ migrator.step = "deleting" /\ storedUrl' = storedUrl \ {<<migrator.s, 0>>}
        /\ migrator' = [migrator EXCEPT !.step = "confirmed"]
        /\ UNCHANGED <<reportRow, claim, migration, storedKey, keyOld, cleaner, purger, publicOwner,
                       named, storageFaults, reopens>>
    BY <1>2 DEF MigrationDeletesSource
  <2>2. migrator # Idle /\ migrator \in MigratorRecord
    BY <1>0, <2>1 DEF Idle, JobsAt
  <2>3. /\ migrator' \in MigratorRecord /\ migrator'.s = migrator.s /\ migrator'.step = "confirmed"
    BY <2>1, <2>2 DEF MigratorRecord
  <2>4. JobsAt'
    BY <1>0, <2>1, <2>2, <2>3 DEF JobsAt
  <2>5. storageFaults' \in 0..MaxStorageFaults
    BY <1>0, <2>1 DEF ReportTypeOK
  <2> QED
    <3>1. GoneIsRetired'
      BY <2>1, FencedTargets, GoneKeeps
    <3> QED
      BY <2>1, <2>4, <2>5, <3>1, FencedTargets, ObjectsGo
<1>3. ASSUME RetentionRemoves PROVE ReportIInv'
  <2>1. /\ purger.step = "deleting" /\ storedKey' = storedKey \ {purger.r}
        /\ purger' = IF purger.orphan THEN Idle ELSE [purger EXCEPT !.step = "confirmed"]
        /\ UNCHANGED <<reportRow, claim, migration, storedUrl, keyOld, cleaner, migrator, publicOwner,
                       named, storageFaults, reopens>>
    BY <1>3 DEF RetentionRemoves
  <2>2. purger # Idle /\ purger \in PurgerRecord
    BY <1>0, <2>1 DEF Idle, JobsAt
  <2>3. purger' # Idle => purger' \in PurgerRecord /\ purger'.r = purger.r
    BY <2>1, <2>2 DEF PurgerRecord
  <2>4. JobsAt'
    BY <1>0, <2>1, <2>2, <2>3 DEF JobsAt
  <2>5. storageFaults' \in 0..MaxStorageFaults
    BY <1>0, <2>1 DEF ReportTypeOK
  <2> QED
    BY <1>0, <2>1, <2>4, <2>5, ObjectsGo DEF GoneIsRetired
<1>4. ASSUME JobLost PROVE ReportIInv'
  <2>1. /\ UNCHANGED <<reportRow, claim, migration, keyOld, publicOwner, named, reopens>>
        /\ storageFaults' \in 0..MaxStorageFaults
    BY <1>0, <1>4, ReportAssumption DEF JobLost, ReportTypeOK
  <2>2. CASE /\ cleaner # Idle /\ cleaner' = Idle
             /\ \/ UNCHANGED storedUrl
                \/ cleaner.step = "deleting" /\ storedUrl' = storedUrl \ {cleaner.url}
             /\ UNCHANGED <<migrator, purger, storedKey>>
    <3>1. JobsAt'
      BY <1>0, <2>1, <2>2 DEF JobsAt
    <3>2. GoneIsRetired'
      <4>1. CASE UNCHANGED storedUrl
        BY <1>0, <2>1, <4>1 DEF GoneIsRetired
      <4>2. CASE ~ UNCHANGED storedUrl
        BY <2>1, <2>2, <4>2, FencedTargets, GoneKeeps
      <4> QED
        BY <4>1, <4>2
    <3> QED
      BY <2>1, <2>2, <3>1, <3>2, FencedTargets, ObjectsGo
  <2>3. CASE /\ migrator # Idle /\ migrator' = Idle
             /\ \/ UNCHANGED storedUrl
                \/ migrator.step = "deleting" /\ storedUrl' = storedUrl \ {<<migrator.s, 0>>}
             /\ UNCHANGED <<cleaner, purger, storedKey>>
    <3>1. JobsAt'
      BY <1>0, <2>1, <2>3 DEF JobsAt
    <3>2. GoneIsRetired'
      <4>1. CASE UNCHANGED storedUrl
        BY <1>0, <2>1, <4>1 DEF GoneIsRetired
      <4>2. CASE ~ UNCHANGED storedUrl
        BY <2>1, <2>3, <4>2, FencedTargets, GoneKeeps
      <4> QED
        BY <4>1, <4>2
    <3> QED
      BY <2>1, <2>3, <3>1, <3>2, FencedTargets, ObjectsGo
  <2>4. CASE /\ purger # Idle /\ purger' = Idle
             /\ \/ UNCHANGED storedKey
                \/ purger.step = "deleting" /\ storedKey' = storedKey \ {purger.r}
             /\ UNCHANGED <<cleaner, migrator, storedUrl>>
    <3>1. JobsAt'
      BY <1>0, <2>1, <2>4 DEF JobsAt
    <3> QED
      BY <1>0, <2>1, <2>4, <3>1, ObjectsGo DEF GoneIsRetired
  <2> QED
    BY <1>4, <2>2, <2>3, <2>4 DEF JobLost
<1>5. ASSUME NEW r \in Report, RetentionPicks(r) PROVE ReportIInv'
  <2>1. /\ purger' = [step |-> "deleting", r |-> r, orphan |-> r \notin Inventory] /\ r \in keyOld
        /\ UNCHANGED <<reportRow, claim, migration, storedUrl, storedKey, keyOld, cleaner, migrator,
                       publicOwner, named, storageFaults, reopens>>
    BY <1>5 DEF RetentionPicks
  <2>2. purger' \in PurgerRecord /\ purger'.step = "deleting"
    BY <1>0, <2>1 DEF PurgerRecord, ReportTypeOK
  <2>3. JobsAt'
    BY <1>0, <2>1, <2>2 DEF JobsAt
  <2>4. storageFaults' \in 0..MaxStorageFaults
    BY <1>0, <2>1 DEF ReportTypeOK
  <2> QED
    BY <1>0, <2>1, <2>3, <2>4, ObjectsGo DEF GoneIsRetired
<1> QED
  BY <1>1, <1>2, <1>3, <1>4, <1>5

\* Report r gets its row: the public id is new, the locator is not retired.
LEMMA SubmitStep ==
  ASSUME ReportIInv, NEW r \in Report, NEW p \in PublicId,
         NEW u \in {NoUrl} \cup (Source \X {0}), NEW k \in BOOLEAN, k => r \in Private,
         insert(r, p, u, k)
  PROVE  ReportIInv'
<1>1. /\ reportRow \in [Report -> {AbsentRow} \cup RowRecord]
      /\ claim \in [Report -> {NoClaim} \cup ClaimRecord]
      /\ ReportTypeOK /\ Fenced /\ JobsAt /\ OwnersKnown /\ GoneIsRetired
      /\ LiveScreenshotReadable /\ PublicIdNeverReused /\ NoScreenshotForgotten
  BY ReportTables DEF ReportIInv
<1> DEFINE row == NewRow(p, u, k)
<1>2. /\ reportRow[r] = AbsentRow /\ claim[r] = NoClaim
      /\ \A q \in Report : reportRow[q].pub # p /\ claim[q].pub # p
      /\ u # NoUrl => ~ LocatorRetired(u) /\ ~ k
      /\ reportRow' = [reportRow EXCEPT ![r] = row]
      /\ UNCHANGED <<claim, migration, storedUrl, storedKey, keyOld, cleaner, migrator, purger,
                     storageFaults, reopens>>
  BY DEF insert, Live, ReportClaimed, PublicIdRetired
<1>3. /\ row \in RowRecord /\ row.pub = p /\ row.url = u /\ row.key = k /\ ~ row.keyDeleted
      /\ ~ row.scrubbed
  <2>1. u \in Url
    BY DEF Url, Locator
  <2> QED
    BY <2>1 DEF NewRow, RowRecord
<1>4. row # AbsentRow
  BY <1>3, ReportKinds
<1> HIDE DEF row
<1>5. /\ reportRow' \in [Report -> {AbsentRow} \cup RowRecord] /\ reportRow'[r] = row
      /\ \A q \in Report \ {r} : reportRow'[q] = reportRow[q]
  BY <1>1, <1>2, <1>3
<1>6. u # NoUrl => /\ u \in Locator /\ u[2] = 0 /\ u[1] \in Source /\ u = <<u[1], 0>>
                   /\ migration[u[1]] = "none"
                   /\ \A q \in Report : ~ (/\ claim[q] # NoClaim /\ claim[q].url = u
                                           /\ claim[q].started \/ claim[q].deleted)
  <2> SUFFICES ASSUME u # NoUrl
               PROVE  /\ u \in Locator /\ u[2] = 0 /\ u[1] \in Source /\ u = <<u[1], 0>>
                      /\ migration[u[1]] = "none"
                      /\ \A q \in Report : ~ (/\ claim[q] # NoClaim /\ claim[q].url = u
                                              /\ claim[q].started \/ claim[q].deleted)
    OBVIOUS
  <2>1. u \in Locator /\ u[2] = 0 /\ u[1] \in Source /\ u = <<u[1], 0>>
    BY DEF Locator
  <2> QED
    BY <1>2, <2>1 DEF LocatorRetired, ReportClaimed
<1>7. publicOwner[p] = NoReport
  <2> SUFFICES ASSUME publicOwner[p] # NoReport PROVE FALSE
    OBVIOUS
  <2>1. publicOwner[p] \in Report
    BY <1>1 DEF ReportTypeOK
  <2> QED
    BY <1>1, <1>2, <2>1 DEF OwnersKnown
<1>8. /\ publicOwner' \in [PublicId -> Report \cup {NoReport}] /\ publicOwner'[p] = r
      /\ \A o \in PublicId \ {p} : publicOwner'[o] = publicOwner[o]
  <2>1. publicOwner \in [PublicId -> Report \cup {NoReport}]
    BY <1>1 DEF ReportTypeOK
  <2>2. publicOwner' = [publicOwner EXCEPT ![p] = IF publicOwner[p] = NoReport THEN r ELSE publicOwner[p]]
    BY DEF insert
  <2> QED
    BY <1>7, <2>1, <2>2
<1>9. \A q \in Report : Together(reportRow'[q], claim'[q])
  <2>1. Together(row, NoClaim)
    BY <1>2, <1>3 DEF Together
  <2> QED
    BY <1>2, <1>5, <2>1 DEF ReportIInv
<1>10. Fenced'
  <2>1. ASSUME NEW a \in Report, NEW q \in Report, claim[a] # NoClaim, claim[a].started, claim[a].url # NoUrl
        PROVE  ~ (reportRow'[q] # AbsentRow /\ reportRow'[q].url = claim[a].url)
    <3>1. CASE q = r
      BY <1>3, <1>5, <1>6, <2>1, <3>1
    <3>2. CASE q # r
      BY <1>1, <1>5, <2>1, <3>2 DEF Fenced
    <3> QED
      BY <3>1, <3>2
  <2>2. ASSUME NEW s \in Source, migration[s] # "none", NEW q \in Report
        PROVE  ~ (reportRow'[q] # AbsentRow /\ reportRow'[q].url = <<s, 0>>)
    <3>1. u # <<s, 0>>
      BY <1>6, <2>2, ReportKinds
    <3>2. CASE q = r
      BY <1>3, <1>5, <3>1, <3>2
    <3>3. CASE q # r
      BY <1>1, <1>5, <2>2, <3>3 DEF Fenced
    <3> QED
      BY <3>2, <3>3
  <2>3. ASSUME NEW s \in Source, migration[s] = "none"
        PROVE  /\ <<s, 1>> \notin storedUrl
               /\ \A q \in Report : /\ ~ (reportRow'[q] # AbsentRow /\ reportRow'[q].url = <<s, 1>>)
                                    /\ ~ (claim[q] # NoClaim /\ claim[q].url = <<s, 1>>)
    <3>1. u # <<s, 1>>
      <4>1. <<s, 1>>[2] = 1 /\ <<s, 1>> # NoUrl
        BY ReportKinds
      <4> QED
        BY <1>6, <4>1
    <3>2. /\ <<s, 1>> \notin storedUrl
          /\ \A q \in Report : /\ ~ (reportRow[q] # AbsentRow /\ reportRow[q].url = <<s, 1>>)
                               /\ ~ (claim[q] # NoClaim /\ claim[q].url = <<s, 1>>)
      BY <1>1, <2>3 DEF Fenced
    <3> DEFINE v == <<s, 1>>
    <3> HIDE DEF v
    <3>3. \A q \in Report : ~ (reportRow'[q] # AbsentRow /\ reportRow'[q].url = v)
      BY <1>3, <1>5, <3>1, <3>2 DEF v
    <3> QED
      BY <3>2, <3>3 DEF v
  <2> QED
    BY <1>2, <2>1, <2>2, <2>3 DEF Fenced
<1>11. JobsAt'
  BY <1>1, <1>2, <1>5, JobsKeep
<1>12. OwnersKnown'
  <2> SUFFICES ASSUME NEW o \in PublicId, publicOwner'[o] # NoReport
               PROVE  \/ reportRow'[publicOwner'[o]] # AbsentRow /\ reportRow'[publicOwner'[o]].pub = o
                      \/ claim'[publicOwner'[o]] # NoClaim /\ claim'[publicOwner'[o]].pub = o
    BY DEF OwnersKnown
  <2>1. CASE o = p
    BY <1>3, <1>4, <1>5, <1>8, <2>1
  <2>2. CASE o # p
    <3>1. publicOwner'[o] = publicOwner[o] /\ publicOwner[o] \in Report
      BY <1>1, <1>8, <2>2 DEF ReportTypeOK
    <3>2. publicOwner[o] # r
      BY <1>1, <1>2, <2>2, <3>1 DEF OwnersKnown
    <3> QED
      BY <1>1, <1>2, <1>5, <2>2, <3>1, <3>2 DEF OwnersKnown
  <2> QED
    BY <2>1, <2>2
<1>13. GoneIsRetired'
  BY <1>1, <1>2 DEF GoneIsRetired
<1>14. LiveScreenshotReadable'
  <2> SUFFICES ASSUME NEW q \in Report, reportRow'[q] # AbsentRow, reportRow'[q].url # NoUrl
               PROVE  reportRow'[q].url \in storedUrl
    BY <1>2 DEF LiveScreenshotReadable, Live
  <2>1. CASE q = r
    <3>1. reportRow'[q].url = u /\ u # NoUrl
      BY <1>3, <1>5, <2>1
    <3>2. <<u[1], 0>> \in storedUrl
      BY <1>1, <1>6, <3>1 DEF GoneIsRetired
    <3> QED
      BY <1>6, <3>1, <3>2
  <2>2. CASE q # r
    BY <1>1, <1>5, <2>2 DEF LiveScreenshotReadable, Live
  <2> QED
    BY <2>1, <2>2
<1>15. PublicIdNeverReused'
  <2> SUFFICES ASSUME NEW q \in Report, reportRow'[q] # AbsentRow
               PROVE  publicOwner'[reportRow'[q].pub] = q
    BY DEF PublicIdNeverReused, Live
  <2>1. CASE q = r
    BY <1>3, <1>5, <1>8, <2>1
  <2>2. CASE q # r
    <3>1. reportRow[q] # AbsentRow /\ reportRow'[q] = reportRow[q] /\ reportRow[q] \in RowRecord
      BY <1>1, <1>5, <2>2
    <3>2. reportRow[q].pub \in PublicId \ {p}
      BY <1>2, <3>1 DEF RowRecord
    <3> QED
      BY <1>1, <1>8, <3>1, <3>2 DEF PublicIdNeverReused, Live
  <2> QED
    BY <2>1, <2>2
<1>16. named' = named \cup (IF k THEN {r} ELSE {}) \cup (IF u # NoUrl THEN {u} ELSE {})
  BY DEF insert
<1>17. \A q \in storedKey \cap named' : q \in Inventory'
  <2> SUFFICES ASSUME NEW q \in storedKey, q \in named' PROVE q \in Inventory'
    OBVIOUS
  <2>1. q \in Report /\ q \notin Locator
    BY <1>1, ReportAssumption DEF ReportTypeOK
  <2>2. q \in named \/ (k /\ q = r)
    BY <1>6, <1>16, <2>1
  <2>3. CASE q \in named
    <3>1. q \in Inventory
      BY <1>1, <2>3 DEF NoScreenshotForgotten
    <3>2. q # r
      BY <1>2, <3>1 DEF Inventory, Live, ReportClaimed
    <3> QED
      BY <1>2, <1>5, <2>1, <3>1, <3>2 DEF Inventory, Live, ReportClaimed
  <2>4. CASE k /\ q = r
    BY <1>3, <1>4, <1>5, <2>4 DEF Inventory, Live
  <2> QED
    BY <2>2, <2>3, <2>4
<1>18. ASSUME NEW v \in storedUrl, v \in named' \/ v[2] = 1
       PROVE  \/ \E q \in Report : reportRow'[q] # AbsentRow /\ reportRow'[q].url = v
              \/ \E q \in Report : claim[q] # NoClaim /\ claim[q].url = v /\ ~ claim[q].hashed
              \/ v[2] = 0 /\ migration[v[1]] = "started"
  <2>1. v \in Locator /\ v # r
    BY <1>1, ReportAssumption DEF ReportTypeOK
  <2>2. CASE v = u
    BY <1>3, <1>4, <1>5, <2>2
  <2>3. CASE v # u
    <3>1. v \in named \/ v[2] = 1
      BY <1>16, <1>18, <2>1, <2>3
    <3>2. \/ \E q \in Report : reportRow[q] # AbsentRow /\ reportRow[q].url = v
          \/ \E q \in Report : claim[q] # NoClaim /\ claim[q].url = v /\ ~ claim[q].hashed
          \/ v[2] = 0 /\ migration[v[1]] = "started"
      BY <1>1, <3>1 DEF NoScreenshotForgotten, OtherReference, Live, ReportClaimed
    <3>3. ASSUME NEW q \in Report, reportRow[q] # AbsentRow, reportRow[q].url = v
          PROVE  reportRow'[q] # AbsentRow /\ reportRow'[q].url = v
      BY <1>2, <1>5, <3>3
    <3> QED
      BY <3>2, <3>3
  <2> QED
    BY <2>2, <2>3
<1>19. NoScreenshotForgotten'
  BY <1>2, <1>17, <1>18 DEF NoScreenshotForgotten, OtherReference, Live, ReportClaimed
<1>20. ReportTypeOK'
  <2>1. named' \subseteq Private \cup Locator
    BY <1>1, <1>6, <1>16 DEF ReportTypeOK
  <2> QED
    BY <1>1, <1>2, <1>5, <1>8, <1>11, <2>1, ReportTypesNext DEF ReportTypeOK
<1> QED
  BY <1>9, <1>10, <1>11, <1>12, <1>13, <1>14, <1>15, <1>19, <1>20 DEF ReportIInv

\* The first transaction of a migration.  A new one finds nothing that names the
\* copy; one that is repeated finds no row that names the source.
LEMMA MigrateStep ==
  ASSUME ReportIInv, NEW s \in Source, migrateAndDeleteStorageLocator(s)
  PROVE  ReportIInv'
<1> DEFINE old == <<s, 0>>
           new == <<s, 1>>
<1>1. /\ reportRow \in [Report -> {AbsentRow} \cup RowRecord]
      /\ claim \in [Report -> {NoClaim} \cup ClaimRecord]
      /\ ReportTypeOK /\ Fenced /\ JobsAt /\ OwnersKnown /\ GoneIsRetired
      /\ LiveScreenshotReadable /\ PublicIdNeverReused /\ NoScreenshotForgotten
  BY ReportTables DEF ReportIInv
<1>2. /\ storedUrl' = IF migration[s] = "none" THEN storedUrl \cup {new} ELSE storedUrl
      /\ migration[s] = "started" \/ (migration[s] = "none" /\ OtherReference(old))
      /\ migration' = [migration EXCEPT ![s] = "started"]
      /\ reportRow' = Rewritten(s) /\ migrator' = [step |-> "deleting", s |-> s]
      /\ UNCHANGED <<claim, storedKey, keyOld, cleaner, purger, publicOwner, named, storageFaults, reopens>>
  BY <1>1 DEF migrateAndDeleteStorageLocator, ReportTypeOK
<1>3. /\ migration' \in [Source -> {"none", "started", "deleted"}] /\ migration'[s] = "started"
      /\ \A t \in Source \ {s} : migration'[t] = migration[t]
  BY <1>1, <1>2 DEF ReportTypeOK
<1>4. /\ old \in Locator /\ new \in Locator /\ old # new /\ old # NoUrl /\ new # NoUrl
      /\ old[2] = 0 /\ new[2] = 1 /\ old[1] = s
      /\ \A t \in Source \ {s} : <<t, 0>> # old /\ <<t, 0>> # new /\ <<t, 1>> # old /\ <<t, 1>> # new
      /\ \A v \in Locator : v # old /\ v[2] = 0 => v[1] \in Source \ {s}
  BY ReportKinds
<1>5. ASSUME NEW q \in Report
      PROVE  /\ reportRow'[q] \in {AbsentRow} \cup RowRecord
             /\ reportRow'[q] = AbsentRow <=> reportRow[q] = AbsentRow
             /\ reportRow[q] # AbsentRow =>
                  /\ reportRow'[q].pub = reportRow[q].pub /\ reportRow'[q].key = reportRow[q].key
                  /\ reportRow'[q].keyDeleted = reportRow[q].keyDeleted
                  /\ reportRow'[q].scrubbed = reportRow[q].scrubbed
                  /\ reportRow'[q].url = IF reportRow[q].url = old THEN new ELSE reportRow[q].url
  <2>1. CASE reportRow[q] # AbsentRow /\ reportRow[q].url = old
    <3> DEFINE row == [reportRow[q] EXCEPT !.url = new]
    <3>1. reportRow'[q] = row /\ reportRow[q] \in RowRecord
      BY <1>1, <1>2, <2>1 DEF Rewritten, Live
    <3>2. /\ row \in RowRecord /\ row.pub = reportRow[q].pub /\ row.key = reportRow[q].key
          /\ row.keyDeleted = reportRow[q].keyDeleted /\ row.scrubbed = reportRow[q].scrubbed
          /\ row.url = new
      BY <1>4, <3>1 DEF RowRecord, Url
    <3> HIDE DEF row, new, old
    <3>3. row # AbsentRow
      BY <3>2, ReportKinds
    <3> QED
      BY <2>1, <3>1, <3>2, <3>3
  <2>2. CASE ~ (reportRow[q] # AbsentRow /\ reportRow[q].url = old)
    <3>1. reportRow'[q] = reportRow[q]
      BY <1>2, <2>2 DEF Rewritten, Live
    <3> QED
      BY <1>1, <2>2, <3>1
  <2> QED
    BY <2>1, <2>2
<1>6. reportRow' \in [Report -> {AbsentRow} \cup RowRecord]
  <2>1. reportRow' = [q \in Report |-> reportRow'[q]]
    BY <1>2 DEF Rewritten
  <2> QED
    BY <1>5, <2>1
<1> HIDE DEF old, new
<1>7. \A q \in Report : ~ (reportRow'[q] # AbsentRow /\ reportRow'[q].url = old)
  BY <1>4, <1>5
<1>8. migration[s] = "none" =>
        /\ new \notin storedUrl
        /\ \A q \in Report : /\ ~ (reportRow[q] # AbsentRow /\ reportRow[q].url = new)
                             /\ ~ (claim[q] # NoClaim /\ claim[q].url = new)
  BY <1>1 DEF Fenced, new
<1>9. migration[s] # "none" => \A q \in Report : ~ (reportRow[q] # AbsentRow /\ reportRow[q].url = old)
  BY <1>1 DEF Fenced, old
<1>10. \A q \in Report, v \in Locator :
         reportRow'[q] # AbsentRow /\ reportRow'[q].url = v =>
           \/ reportRow[q] # AbsentRow /\ reportRow[q].url = v
           \/ v = new /\ migration[s] = "none"
  BY <1>5, <1>9
<1>11. \A q \in Report : Together(reportRow'[q], claim'[q])
  <2> SUFFICES ASSUME NEW q \in Report PROVE Together(reportRow'[q], claim[q])
    BY <1>2
  <2>1. Together(reportRow[q], claim[q])
    BY DEF ReportIInv
  <2>2. reportRow[q] # AbsentRow /\ claim[q] # NoClaim => reportRow'[q].url = NoUrl
    BY <1>4, <1>5, <2>1 DEF Together
  <2> QED
    BY <1>4, <1>5, <2>1, <2>2 DEF Together
<1>12. Fenced'
  <2>1. ASSUME NEW a \in Report, NEW q \in Report, claim[a] # NoClaim, claim[a].started, claim[a].url # NoUrl,
               reportRow'[q] # AbsentRow, reportRow'[q].url = claim[a].url
        PROVE  FALSE
    <3>1. claim[a].url \in Locator
      BY <1>1, <2>1 DEF ClaimRecord, Url
    <3> QED
      BY <1>1, <1>8, <1>10, <2>1, <3>1 DEF Fenced
  <2>2. ASSUME NEW t \in Source, migration'[t] # "none", NEW q \in Report,
               reportRow'[q] # AbsentRow, reportRow'[q].url = <<t, 0>>
        PROVE  FALSE
    <3>1. CASE t = s
      BY <1>7, <2>2, <3>1 DEF old
    <3>2. CASE t # s
      <4>1. <<t, 0>> \in Locator /\ <<t, 0>> # new /\ migration[t] # "none"
        BY <1>3, <1>4, <2>2, <3>2, ReportKinds
      <4>2. reportRow[q] # AbsentRow /\ reportRow[q].url = <<t, 0>>
        BY <1>10, <2>2, <4>1
      <4> QED
        BY <1>1, <4>1, <4>2 DEF Fenced
    <3> QED
      BY <3>1, <3>2
  <2>3. ASSUME NEW t \in Source, migration'[t] = "none"
        PROVE  /\ <<t, 1>> \notin storedUrl'
               /\ \A q \in Report : /\ ~ (reportRow'[q] # AbsentRow /\ reportRow'[q].url = <<t, 1>>)
                                    /\ ~ (claim[q] # NoClaim /\ claim[q].url = <<t, 1>>)
    <3>1. t # s /\ migration[t] = "none"
      BY <1>3, <2>3
    <3> DEFINE v == <<t, 1>>
    <3>2. v \in Locator /\ v # new
      BY <1>4, <3>1, ReportKinds
    <3>3. /\ v \notin storedUrl
          /\ \A q \in Report : /\ ~ (reportRow[q] # AbsentRow /\ reportRow[q].url = v)
                               /\ ~ (claim[q] # NoClaim /\ claim[q].url = v)
      BY <1>1, <3>1 DEF Fenced
    <3> HIDE DEF v
    <3>4. v \notin storedUrl'
      BY <1>2, <3>2, <3>3
    <3>5. \A q \in Report : ~ (reportRow'[q] # AbsentRow /\ reportRow'[q].url = v)
      BY <1>10, <3>2, <3>3
    <3> QED
      BY <3>3, <3>4, <3>5 DEF v
  <2> QED
    BY <1>2, <2>1, <2>2, <2>3 DEF Fenced
<1>13. storedUrl \subseteq storedUrl' /\ storedUrl' \subseteq storedUrl \cup {new}
  BY <1>2
<1>14. JobsAt'
  <2>1. /\ migrator' \in MigratorRecord /\ migrator'.s = s /\ migrator'.step = "deleting"
    BY <1>2 DEF MigratorRecord
  <2>2. ASSUME cleaner # Idle
        PROVE  /\ cleaner.r \in Report /\ claim[cleaner.r] # NoClaim /\ claim[cleaner.r].url = cleaner.url
               /\ reportRow[cleaner.r] # AbsentRow
    BY <2>2, CleanersReport
  <2>3. ASSUME cleaner # Idle, cleaner.step = "confirmed"
        PROVE  cleaner.url \notin storedUrl'
    <3>1. cleaner.url \notin storedUrl
      BY <1>1, <2>3 DEF JobsAt
    <3>2. migration[s] = "none" => cleaner.url # new
      BY <1>8, <2>2, <2>3
    <3> QED
      BY <1>2, <3>1, <3>2
  <2>4. (cleaner # Idle => /\ cleaner \in CleanerRecord
                           /\ reportRow[cleaner.r] # AbsentRow /\ claim[cleaner.r] # NoClaim
                           /\ claim[cleaner.r].url = cleaner.url
                           /\ cleaner.step \in {"deleting", "confirmed"} =>
                                claim[cleaner.r].started /\ cleaner.url # NoUrl
                           /\ cleaner.step = "confirmed" => cleaner.url \notin storedUrl)'
    BY <1>1, <1>2, <1>5, <2>2, <2>3 DEF JobsAt
  <2> QED
    BY <1>1, <1>2, <1>3, <2>1, <2>4 DEF JobsAt
<1>15. OwnersKnown'
  <2> SUFFICES ASSUME NEW o \in PublicId, publicOwner[o] # NoReport
               PROVE  \/ reportRow'[publicOwner[o]] # AbsentRow /\ reportRow'[publicOwner[o]].pub = o
                      \/ claim[publicOwner[o]] # NoClaim /\ claim[publicOwner[o]].pub = o
    BY <1>2 DEF OwnersKnown
  <2>1. publicOwner[o] \in Report
    BY <1>1 DEF ReportTypeOK
  <2> QED
    BY <1>1, <1>5, <2>1 DEF OwnersKnown
<1>16. GoneIsRetired'
  <2> SUFFICES ASSUME NEW t \in Source
               PROVE  \/ <<t, 0>> \in storedUrl' \/ migration'[t] # "none"
                      \/ \E r \in Report : /\ claim[r] # NoClaim /\ claim[r].url = <<t, 0>>
                                           /\ claim[r].started \/ claim[r].deleted
    BY <1>2 DEF GoneIsRetired
  <2>1. CASE t = s
    BY <1>3, <2>1
  <2>2. CASE t # s
    BY <1>1, <1>3, <1>13, <2>2 DEF GoneIsRetired
  <2> QED
    BY <2>1, <2>2
<1>17. LiveScreenshotReadable'
  <2> SUFFICES ASSUME NEW q \in Report, reportRow'[q] # AbsentRow, reportRow'[q].url # NoUrl
               PROVE  reportRow'[q].url \in storedUrl'
    BY DEF LiveScreenshotReadable, Live
  <2>1. reportRow'[q].url \in Locator
    BY <1>5 DEF RowRecord, Url
  <2>2. CASE reportRow[q] # AbsentRow /\ reportRow[q].url = reportRow'[q].url
    BY <1>1, <1>13, <2>2 DEF LiveScreenshotReadable, Live
  <2>3. CASE reportRow'[q].url = new /\ migration[s] = "none"
    BY <1>2, <2>3
  <2> QED
    BY <1>10, <2>1, <2>2, <2>3
<1>18. PublicIdNeverReused'
  BY <1>1, <1>2, <1>5 DEF PublicIdNeverReused, Live
<1>19. \A q \in storedKey \cap named : q \in Inventory'
  <2> SUFFICES ASSUME NEW q \in storedKey \cap named PROVE q \in Inventory'
    OBVIOUS
  <2>1. q \in Inventory /\ q \in Report
    BY <1>1 DEF NoScreenshotForgotten, Inventory
  <2> QED
    BY <1>2, <1>5, <2>1 DEF Inventory, Live, ReportClaimed
<1>20. ASSUME NEW v \in storedUrl', v \in named \/ v[2] = 1
       PROVE  \/ \E q \in Report : reportRow'[q] # AbsentRow /\ reportRow'[q].url = v
              \/ \E q \in Report : claim[q] # NoClaim /\ claim[q].url = v /\ ~ claim[q].hashed
              \/ v[2] = 0 /\ migration'[v[1]] = "started"
  <2>1. CASE v = old
    BY <1>3, <1>4, <2>1
  <2>2. CASE v = new /\ migration[s] = "none"
    <3>1. PICK q \in Report : reportRow[q] # AbsentRow /\ reportRow[q].url = old
      BY <1>2, <2>2 DEF OtherReference, Live
    <3> QED
      BY <1>5, <2>2, <3>1
  <2>3. CASE v # old /\ ~ (v = new /\ migration[s] = "none")
    <3>1. v \in storedUrl /\ v \in Locator
      BY <1>1, <1>2, <2>3 DEF ReportTypeOK
    <3>2. \/ \E q \in Report : reportRow[q] # AbsentRow /\ reportRow[q].url = v
          \/ \E q \in Report : claim[q] # NoClaim /\ claim[q].url = v /\ ~ claim[q].hashed
          \/ v[2] = 0 /\ migration[v[1]] = "started"
      BY <1>1, <1>20, <3>1 DEF NoScreenshotForgotten, OtherReference, Live, ReportClaimed
    <3>3. v[2] = 0 /\ migration[v[1]] = "started" => migration'[v[1]] = "started"
      BY <1>3, <1>4, <2>3, <3>1
    <3>4. ASSUME NEW q \in Report, reportRow[q] # AbsentRow, reportRow[q].url = v
          PROVE  reportRow'[q] # AbsentRow /\ reportRow'[q].url = v
      BY <1>5, <2>3, <3>4
    <3> QED
      BY <3>2, <3>3, <3>4
  <2> QED
    BY <2>1, <2>2, <2>3
<1>21. NoScreenshotForgotten'
  BY <1>2, <1>19, <1>20 DEF NoScreenshotForgotten, OtherReference, Live, ReportClaimed
<1>22. ReportTypeOK'
  <2>1. storedUrl' \subseteq Locator
    BY <1>1, <1>4, <1>13 DEF ReportTypeOK
  <2> QED
    BY <1>1, <1>2, <1>3, <1>6, <1>14, <2>1, ReportTypesNext DEF ReportTypeOK
<1> QED
  BY <1>11, <1>12, <1>14, <1>15, <1>16, <1>17, <1>18, <1>21, <1>22 DEF ReportIInv

LEMMA MarksDeletedStep ==
  ASSUME ReportIInv, MigrationMarksDeleted
  PROVE  ReportIInv'
<1> DEFINE s == migrator.s
<1>1. /\ reportRow \in [Report -> {AbsentRow} \cup RowRecord]
      /\ claim \in [Report -> {NoClaim} \cup ClaimRecord]
      /\ ReportTypeOK /\ Fenced /\ JobsAt /\ GoneIsRetired /\ NoScreenshotForgotten
  BY ReportTables DEF ReportIInv
<1>2. /\ migrator.step = "confirmed" /\ migrator' = Idle /\ migrator # Idle
      /\ migration' = [migration EXCEPT ![s] = "deleted"]
      /\ UNCHANGED <<reportRow, claim, storedUrl, storedKey, keyOld, cleaner, purger, publicOwner, named,
                     storageFaults, reopens>>
  BY DEF MigrationMarksDeleted, Idle
<1>3. s \in Source /\ migration[s] # "none" /\ <<s, 0>> \notin storedUrl
  BY <1>1, <1>2 DEF JobsAt, MigratorRecord
<1> HIDE DEF s
<1>4. /\ migration' \in [Source -> {"none", "started", "deleted"}] /\ migration'[s] = "deleted"
      /\ \A t \in Source \ {s} : migration'[t] = migration[t]
  BY <1>1, <1>2, <1>3 DEF ReportTypeOK
<1>5. \A t \in Source : migration'[t] = "none" <=> migration[t] = "none"
  BY <1>3, <1>4
<1>6. Fenced'
  BY <1>1, <1>2, <1>5 DEF Fenced
<1>7. JobsAt'
  BY <1>1, <1>2 DEF JobsAt
<1>8. GoneIsRetired'
  BY <1>1, <1>2, <1>5 DEF GoneIsRetired
<1>9. NoScreenshotForgotten'
  <2>1. \A v \in storedUrl : v[2] = 0 /\ migration[v[1]] = "started" => migration'[v[1]] = "started"
    <3> SUFFICES ASSUME NEW v \in storedUrl, v[2] = 0, migration[v[1]] = "started"
                 PROVE  migration'[v[1]] = "started"
      OBVIOUS
    <3>1. v[1] \in Source /\ v = <<v[1], 0>>
      BY <1>1, ReportKinds DEF ReportTypeOK
    <3>2. v[1] # s
      BY <1>3, <3>1
    <3> QED
      BY <1>4, <3>1, <3>2
  <2>2. UNCHANGED Inventory
    BY <1>2 DEF Inventory, Live, ReportClaimed
  <2>3. \A v \in storedUrl : UNCHANGED OtherReference(v)
    BY <1>2 DEF OtherReference, Live
  <2> QED
    BY <1>1, <1>2, <2>1, <2>2, <2>3 DEF NoScreenshotForgotten, OtherReference, Live, ReportClaimed
<1>10. OwnersKnown' /\ LiveScreenshotReadable' /\ PublicIdNeverReused'
       /\ \A q \in Report : Together(reportRow'[q], claim'[q])
  BY <1>2 DEF ReportIInv, OwnersKnown, LiveScreenshotReadable, PublicIdNeverReused, Live
<1>11. ReportTypeOK'
  BY <1>1, <1>2, <1>4, <1>7, ReportTypesNext DEF ReportTypeOK
<1> QED
  BY <1>6, <1>7, <1>8, <1>9, <1>10, <1>11 DEF ReportIInv

LEMMA ReportStarts == ReportInit => ReportIInv
<1> SUFFICES ASSUME ReportInit PROVE ReportIInv
  OBVIOUS
<1> USE DEF ReportInit
<1>1. \A r \in Report : reportRow[r] = AbsentRow /\ claim[r] = NoClaim
  OBVIOUS
<1>2. storedUrl \subseteq Locator /\ \A s \in Source : <<s, 0>> \in storedUrl /\ <<s, 1>> \notin storedUrl
  BY DEF Locator
<1>3. \A u \in storedUrl : u[2] = 0
  OBVIOUS
<1>4. ReportTypeOK
  BY <1>2, ReportAssumption DEF ReportTypeOK, Idle
<1>5. \A r \in Report : Together(reportRow[r], claim[r])
  BY <1>1 DEF Together
<1>6. Fenced
  BY <1>1, <1>2 DEF Fenced
<1>7. JobsAt /\ OwnersKnown /\ GoneIsRetired
  BY <1>2 DEF JobsAt, OwnersKnown, GoneIsRetired
<1>8. LiveScreenshotReadable /\ PublicIdNeverReused
  BY <1>1 DEF LiveScreenshotReadable, PublicIdNeverReused, Live
<1>9. NoScreenshotForgotten
  BY <1>3 DEF NoScreenshotForgotten
<1> QED
  BY <1>4, <1>5, <1>6, <1>7, <1>8, <1>9 DEF ReportIInv

\* ReportInv holds for every set of reports, public ids and screenshots: a live
\* report never shows a deleted screenshot, no public id names a second report,
\* and every stored screenshot a report named is still known to a row, a claim
\* or a migration, also when every job may be lost between two of its steps.
THEOREM ReportInvHolds == ReportSpec => []ReportInv
<1>1. ReportIInv /\ [ReportNext]_reportVars => ReportIInv'
  <2> SUFFICES ASSUME ReportIInv, [ReportNext]_reportVars PROVE ReportIInv'
    OBVIOUS
  <2>1. ASSUME NEW r \in Report, Submit(r) PROVE ReportIInv'
    BY <2>1, SubmitStep DEF Submit
  <2>2. ASSUME NEW r \in Report, NEW status \in {"open", "closed"}, updateStatus(r, status)
        PROVE  ReportIInv'
    BY <2>2, StatusStep
  <2>3. ASSUME NEW r \in Report, Age(r) PROVE ReportIInv'
    BY <2>3, AgeStep
  <2>4. ASSUME NEW r \in Report, RetentionPicks(r) PROVE ReportIInv'
    BY <2>4, StorageSteps
  <2>5. CASE CleanupStep
    BY <2>5, ClaimStep, PrepareStep, CompleteStep, StorageSteps DEF CleanupStep
  <2>6. ASSUME NEW s \in Source, migrateAndDeleteStorageLocator(s) PROVE ReportIInv'
    BY <2>6, MigrateStep
  <2>7. CASE MigrationDeletesSource \/ RetentionRemoves \/ JobLost
    BY <2>7, StorageSteps
  <2>8. CASE MigrationMarksDeleted
    BY <2>8, MarksDeletedStep
  <2>9. CASE markScreenshotDeleted
    BY <2>9, MarkStep
  <2>10. CASE UNCHANGED reportVars
    <3>1. UNCHANGED <<reportRow, claim, migration, storedUrl, storedKey, keyOld, cleaner,
                      migrator, purger, publicOwner, named, storageFaults, reopens>>
      BY <2>10 DEF reportVars
    <3>2. JobsAt' /\ GoneIsRetired'
      BY <3>1 DEF ReportIInv, JobsAt, GoneIsRetired
    <3> QED
      BY <3>1, <3>2, ObjectsGo DEF ReportIInv, ReportTypeOK
  <2> QED
    BY <2>1, <2>2, <2>3, <2>4, <2>5, <2>6, <2>7, <2>8, <2>9, <2>10 DEF ReportNext
<1>2. ReportIInv => ReportInv
  BY DEF ReportIInv, ReportInv
<1> QED
  BY <1>1, <1>2, ReportStarts, PTL DEF ReportSpec

(***************************************************************************)
(* The intake of an item.                                                  *)
(***************************************************************************)

ItemText == {"PENDING", "PROVIDED", "DEFERRED", "FAILED"}
ItemOf(versions) == [version : 1..versions, life : {"unknown", "live", "finished"}, text : ItemText]
Transcript == {"PODCAST_TRANSCRIPT", "YOUTUBE_TRANSCRIPT"}
IntakeStatus == {"PENDING", "RUNNING", "COMPLETED", "CHECKED_NO_CHANGE", "CONTENT_DEFERRED",
                 "BUDGET_DEFERRED", "FAILED"}
RunRecord ==
    [job : Transcript \cup {"ARTICLE_FETCH", "YOUTUBE_METADATA"},
     stage : {"none", "NATIVE_FIRST", "NATIVE_SECOND", "GENERATED"},
     item : ItemOf(intake.versions), target : Nat, status : IntakeStatus,
     outbox : {"open", "taken", "delivered"}, provider : Nat, units : Nat,
     budget : {"none", "RESERVED", "COMMITTED", "RELEASED"}, reserved : Nat, recoveries : 0..2]
WorkRecord ==
    [step : {"idle", "reserve", "defer", "call", "answered", "fail"}, run : Nat, provider : Nat,
     units : Nat,
     answer : {"none", "text", "error", "live", "ended", "tooLong", "empty", "unavailable",
               "pending", "refused"},
     cost : {0, 1}, next : Nat]

IntakeTypes ==
    /\ intake \in IntakeCase /\ shown \in 0..intake.versions
    /\ revision \in Seq(ItemOf(intake.versions))
    /\ intakeRun \in Seq(RunRecord) /\ charged \in Seq(Nat) /\ Len(charged) = Len(intakeRun)
    /\ intakeJob \in [IntakeWorker -> WorkRecord]
    /\ disturbed \subseteq Runs

\* A run that was told a provider's job id orders a transcript; only a podcast's
\* or a video's transcript costs anything; a podcast is transcribed in one go.
RunShape(x) ==
    /\ x.provider # 0 => x.job = "YOUTUBE_TRANSCRIPT"
    /\ x.job = "PODCAST_TRANSCRIPT" => x.stage = "none"

\* What a worker holds of its run.
WorkShape(x, j) ==
    /\ j.step # "idle"
    /\ j.provider # 0 => x.job = "YOUTUBE_TRANSCRIPT"
    /\ j.next # 0 => x.job = "YOUTUBE_TRANSCRIPT"
    /\ j.cost # 0 => x.job \in Transcript
    /\ j.step \in {"reserve", "defer", "call"} => j.cost = 0
    /\ j.step \in {"reserve", "defer"} => j.provider = 0
    /\ j.step = "answered" => j.answer \notin {"none", "error"}
    /\ j.answer = "pending" => /\ x.job = "YOUTUBE_TRANSCRIPT" /\ j.next # 0
                              /\ j.cost = IF j.provider = 0 THEN 1 ELSE 0

\* The runs and the workers know each other.
Shapes ==
    /\ \A r \in Runs : RunShape(intakeRun[r]) /\ intakeRun[r].target \in 1..Len(revision)
    /\ \A w \in IntakeWorker :
          \/ intakeJob[w] = IdleWorker
          \/ intakeJob[w].run \in Runs /\ WorkShape(intakeRun[intakeJob[w].run], intakeJob[w])

\* A run's item is a version of its target revision, and the current revision
\* is of the version shown.
VersionsMatch ==
    /\ \A r \in Runs : intakeRun[r].item.version = revision[intakeRun[r].target].version
    /\ NewestDiscoveryKept

\* A run that may still, or again, ask its provider.
Open(x) ==
    \/ x.status \in {"PENDING", "RUNNING"}
    \/ x.job = "YOUTUBE_TRANSCRIPT" /\ x.provider # 0 /\ x.status = "FAILED"

\* There is one such run for a revision at most.
OneOpen ==
    \A r, q \in Runs : r # q /\ intakeRun[r].target = intakeRun[q].target
                       => ~(Open(intakeRun[r]) /\ Open(intakeRun[q]))

\* The books of a run nobody interfered with.
BooksOf(x) ==
    /\ x.status \notin {"PENDING", "RUNNING"} => x.budget # "RESERVED"
    /\ x.budget = "COMMITTED" => x.reserved = x.units
    /\ x.provider # 0 => x.budget = "COMMITTED" /\ x.units >= 1
    /\ x.status \in {"PENDING", "RUNNING"} /\ x.provider = 0 =>
          x.units = 0 /\ x.budget \in {"none", "RESERVED"} /\ (x.budget = "RESERVED" => x.reserved \in {1, 2})
    /\ x.job = "PODCAST_TRANSCRIPT" /\ x.budget = "RESERVED" => x.reserved = 1

\* The same while a worker has it, with what the worker has still to report.
HeldBooks(x, j, charge) ==
    /\ x.status = "RUNNING" /\ BooksOf(x)
    /\ charge = x.units + j.cost /\ j.units = x.units /\ j.provider = x.provider
    /\ j.step \in {"call", "answered", "fail"} /\ x.job \in Transcript /\ x.provider = 0 =>
          x.budget = "RESERVED"

Accounted(r) ==
    \/ /\ \A w \in IntakeWorker : intakeJob[w].run # r
       /\ intakeRun[r].status # "RUNNING" /\ BooksOf(intakeRun[r])
       /\ charged[r] = intakeRun[r].units
    \/ \E w \in IntakeWorker :
          /\ \A v \in IntakeWorker : intakeJob[v].run = r <=> v = w
          /\ HeldBooks(intakeRun[r], intakeJob[w], charged[r])

\* The inductive invariant behind IntakeInv.
IntakeIInv ==
    IntakeTypes /\ Shapes /\ VersionsMatch /\ OneOpen /\ \A r \in Runs \ disturbed : Accounted(r)

\* What a step may make of a run: it stays the order it was, and no closed run
\* opens again.
SameRun(y, x) ==
    /\ y.job = x.job /\ y.stage = x.stage /\ y.item = x.item /\ y.target = x.target
    /\ y.provider # 0 => y.job = "YOUTUBE_TRANSCRIPT"
    /\ Open(y) => Open(x)

\* A run that is inserted, for the target revision it is about.
FreshRun(y) ==
    /\ y.status = "PENDING" /\ y.budget = "none" /\ y.provider = 0 /\ y.units = 0
    /\ y.job = "PODCAST_TRANSCRIPT" => y.stage = "none"
    /\ y.target \in 1..Len(revision') /\ y.item.version = revision'[y.target].version
    /\ y.target > Len(revision) \/ \A q \in Runs : ~Open(intakeRun[q])

\* The receipt after a step.
ReceiptMoves ==
    /\ intake' = intake /\ shown' \in 0..intake.versions
    /\ revision' \in Seq(ItemOf(intake.versions)) /\ Len(revision) <= Len(revision')
    /\ \A i \in 1..Len(revision) : revision'[i] = revision[i]
    /\ NewestDiscoveryKept'

\* The runs after a step: one more at most.
RunsMove ==
    /\ intakeRun' \in Seq(RunRecord) /\ Len(intakeRun) <= Len(intakeRun')
    /\ Len(intakeRun') <= Len(intakeRun) + 1
    /\ \A r \in Runs : SameRun(intakeRun'[r], intakeRun[r])
    /\ \A r \in Runs' \ Runs : FreshRun(intakeRun'[r])

LEMMA IntakeParts ==
  ASSUME IntakeIInv
  PROVE  /\ intake.versions \in Nat /\ intake.kind \in {"ARTICLE", "EPISODE", "VIDEO"}
         /\ Len(revision) \in Nat /\ Len(intakeRun) \in Nat /\ Len(charged) = Len(intakeRun)
         /\ revision \in Seq(ItemOf(intake.versions)) /\ intakeRun \in Seq(RunRecord)
         /\ charged \in Seq(Nat) /\ shown \in 0..intake.versions
         /\ \A i \in 1..Len(revision) : revision[i] \in ItemOf(intake.versions)
         /\ \A r \in Runs : /\ intakeRun[r] \in RunRecord /\ charged[r] \in Nat
                            /\ RunShape(intakeRun[r]) /\ intakeRun[r].target \in 1..Len(revision)
                            /\ intakeRun[r].item.version = revision[intakeRun[r].target].version
         /\ intakeJob \in [IntakeWorker -> WorkRecord] /\ disturbed \subseteq Runs
         /\ \A w \in IntakeWorker : intakeJob[w] \in WorkRecord
         /\ NewestDiscoveryKept /\ 0 \notin Runs
<1>1. intake \in [kind : {"ARTICLE", "EPISODE", "VIDEO"}, versions : Nat, faults : Nat]
  BY IntakeAssumption DEF IntakeIInv, IntakeTypes
<1>2. /\ revision \in Seq(ItemOf(intake.versions)) /\ intakeRun \in Seq(RunRecord)
      /\ charged \in Seq(Nat) /\ Len(charged) = Len(intakeRun) /\ shown \in 0..intake.versions
      /\ intakeJob \in [IntakeWorker -> WorkRecord] /\ disturbed \subseteq Runs
  BY DEF IntakeIInv, IntakeTypes
<1>3. /\ Len(revision) \in Nat /\ Len(intakeRun) \in Nat
      /\ \A i \in 1..Len(revision) : revision[i] \in ItemOf(intake.versions)
      /\ \A r \in Runs : intakeRun[r] \in RunRecord /\ charged[r] \in Nat
  BY <1>2 DEF Runs
<1>4. \A r \in Runs : /\ RunShape(intakeRun[r]) /\ intakeRun[r].target \in 1..Len(revision)
                      /\ intakeRun[r].item.version = revision[intakeRun[r].target].version
  BY DEF IntakeIInv, Shapes, VersionsMatch
<1>5. NewestDiscoveryKept /\ 0 \notin Runs
  BY <1>3 DEF IntakeIInv, VersionsMatch, Runs
<1> QED
  BY <1>1, <1>2, <1>3, <1>4, <1>5

\* The runs of a step keep their orders and their one open run a revision.
LEMMA OrdersKept ==
  ASSUME IntakeIInv, ReceiptMoves, RunsMove
  PROVE  /\ VersionsMatch' /\ OneOpen' /\ Len(intakeRun') \in Nat /\ Runs \subseteq Runs'
         /\ \A r \in Runs' : RunShape(intakeRun'[r]) /\ intakeRun'[r].target \in 1..Len(revision')
<1>1. Len(intakeRun) \in Nat /\ Len(revision) \in Nat /\ Len(intakeRun') \in Nat /\ Len(revision') \in Nat
  BY IntakeParts DEF ReceiptMoves, RunsMove
<1>2. Runs = 1..Len(intakeRun) /\ Runs' = 1..Len(intakeRun') /\ Runs \subseteq Runs'
  BY <1>1 DEF Runs, RunsMove
<1>3. ASSUME NEW r \in Runs'
      PROVE  /\ RunShape(intakeRun'[r]) /\ intakeRun'[r].target \in 1..Len(revision')
             /\ intakeRun'[r].item.version = revision'[intakeRun'[r].target].version
  <2>1. CASE r \in Runs
    <3>1. /\ RunShape(intakeRun[r]) /\ intakeRun[r].target \in 1..Len(revision)
          /\ intakeRun[r].item.version = revision[intakeRun[r].target].version
      BY <2>1, IntakeParts
    <3>2. SameRun(intakeRun'[r], intakeRun[r])
      BY <2>1 DEF RunsMove
    <3> QED
      BY <1>1, <3>1, <3>2 DEF SameRun, RunShape, ReceiptMoves
  <2>2. CASE r \notin Runs
    <3>1. FreshRun(intakeRun'[r])
      BY <2>2 DEF RunsMove
    <3> QED
      BY <3>1 DEF FreshRun, RunShape
  <2> QED
    BY <2>1, <2>2
<1>4. VersionsMatch'
  BY <1>3 DEF VersionsMatch, ReceiptMoves
<1>5. OneOpen'
  <2> SUFFICES ASSUME NEW r \in Runs', NEW q \in Runs', r # q,
                      intakeRun'[r].target = intakeRun'[q].target,
                      Open(intakeRun'[r]), Open(intakeRun'[q])
               PROVE  FALSE
    BY DEF OneOpen
  <2>1. CASE r \in Runs /\ q \in Runs
    BY <2>1 DEF RunsMove, SameRun, IntakeIInv, OneOpen
  <2>2. ASSUME NEW a \in Runs, NEW b \in Runs' \ Runs, intakeRun'[a].target = intakeRun'[b].target,
               Open(intakeRun'[a])
        PROVE  FALSE
    <3>1. SameRun(intakeRun'[a], intakeRun[a]) /\ FreshRun(intakeRun'[b])
      BY <2>2 DEF RunsMove
    <3>2. Open(intakeRun[a]) /\ intakeRun[a].target = intakeRun'[b].target
      BY <2>2, <3>1 DEF SameRun
    <3>3. intakeRun[a].target \in 1..Len(revision)
      BY IntakeParts
    <3> QED
      BY <1>1, <3>1, <3>2, <3>3 DEF FreshRun
  <2>3. ~(r \notin Runs /\ q \notin Runs)
    BY <1>1, <1>2 DEF RunsMove
  <2> QED
    BY <2>1, <2>2, <2>3
<1> QED
  BY <1>1, <1>2, <1>3, <1>4, <1>5

\* A run that a step leaves alone keeps its books.
LEMMA BooksUntouched ==
  ASSUME NEW q, Accounted(q), intakeRun'[q] = intakeRun[q], charged'[q] = charged[q],
         \A v \in IntakeWorker : intakeJob'[v] = intakeJob[v]
                                 \/ (intakeJob[v].run # q /\ intakeJob'[v].run # q)
  PROVE  Accounted(q)'
BY DEF Accounted

LEMMA IdleIsIdle == IdleWorker \in WorkRecord /\ IdleWorker.run = 0 /\ IdleWorker.step = "idle"
BY DEF IdleWorker, WorkRecord

\* A step of a worker that has a run, and keeps j: the books may be left open, in
\* what the worker keeps, or are closed when it lets the run go.
BooksGoOn(x, j, charge) ==
    \/ j # IdleWorker /\ HeldBooks(x, j, charge)
    \/ j = IdleWorker /\ x.status # "RUNNING" /\ BooksOf(x) /\ charge = x.units

WorkerMove(w, r, j) ==
    /\ intakeJob[w] # IdleWorker /\ r = intakeJob[w].run
    /\ intakeJob' = [intakeJob EXCEPT ![w] = j]
    /\ j = IdleWorker \/ (j.run = r /\ WorkShape(intakeRun'[r], j))
    /\ \A q \in Runs : q # r => intakeRun'[q] = intakeRun[q] /\ charged'[q] = charged[q]
    /\ charged' \in Seq(Nat) /\ Len(charged') = Len(intakeRun')
    /\ \A q \in Runs' \ Runs : charged'[q] = 0
    /\ disturbed' = disturbed
    /\ HeldBooks(intakeRun[r], intakeJob[w], charged[r]) =>
          BooksGoOn(intakeRun'[r], j, charged'[r])

LEMMA WorkerMoves ==
  ASSUME IntakeIInv, ReceiptMoves, RunsMove, NEW w \in IntakeWorker, NEW r,
         NEW j \in WorkRecord, WorkerMove(w, r, j)
  PROVE  IntakeIInv'
<1>0. /\ intakeJob[w] # IdleWorker /\ r = intakeJob[w].run
      /\ intakeJob' = [intakeJob EXCEPT ![w] = j]
      /\ j = IdleWorker \/ (j.run = r /\ WorkShape(intakeRun'[r], j))
      /\ \A q \in Runs : q # r => intakeRun'[q] = intakeRun[q] /\ charged'[q] = charged[q]
      /\ charged' \in Seq(Nat) /\ Len(charged') = Len(intakeRun')
      /\ \A q \in Runs' \ Runs : charged'[q] = 0
      /\ disturbed' = disturbed
      /\ HeldBooks(intakeRun[r], intakeJob[w], charged[r]) =>
            \/ j # IdleWorker /\ HeldBooks(intakeRun'[r], j, charged'[r])
            \/ /\ j = IdleWorker /\ intakeRun'[r].status # "RUNNING"
               /\ BooksOf(intakeRun'[r]) /\ charged'[r] = intakeRun'[r].units
  BY DEF WorkerMove, BooksGoOn
<1>1. /\ VersionsMatch' /\ OneOpen' /\ Len(intakeRun') \in Nat /\ Runs \subseteq Runs'
      /\ \A q \in Runs' : RunShape(intakeRun'[q]) /\ intakeRun'[q].target \in 1..Len(revision')
  BY OrdersKept
<1>2. /\ r \in Runs /\ WorkShape(intakeRun[r], intakeJob[w]) /\ 0 \notin Runs /\ 0 \notin Runs'
      /\ \A v \in IntakeWorker : intakeJob[v] = IdleWorker
            \/ (intakeJob[v].run \in Runs /\ WorkShape(intakeRun[intakeJob[v].run], intakeJob[v]))
      /\ disturbed \subseteq Runs
  <2>1. /\ 0 \notin Runs /\ disturbed \subseteq Runs
        /\ \A v \in IntakeWorker : intakeJob[v] = IdleWorker
              \/ (intakeJob[v].run \in Runs /\ WorkShape(intakeRun[intakeJob[v].run], intakeJob[v]))
    BY IntakeParts DEF IntakeIInv, Shapes
  <2>2. 0 \notin Runs'
    BY <1>1 DEF Runs
  <2> QED
    BY <1>0, <2>1, <2>2
<1>3. /\ intakeJob'[w] = j /\ \A v \in IntakeWorker : v # w => intakeJob'[v] = intakeJob[v]
      /\ intakeJob' \in [IntakeWorker -> WorkRecord]
  BY <1>0, IntakeParts
<1>4. IntakeTypes'
  <2>1. RunRecord' = RunRecord
    BY <1>0 DEF RunRecord, ReceiptMoves
  <2>2. intake \in IntakeCase
    BY <1>0 DEF IntakeIInv, IntakeTypes
  <2> QED
    BY <1>0, <1>1, <1>2, <1>3, <2>1, <2>2 DEF IntakeTypes, ReceiptMoves, RunsMove
<1>5. Shapes'
  <2> SUFFICES ASSUME NEW v \in IntakeWorker, intakeJob'[v] # IdleWorker
               PROVE  /\ intakeJob'[v].run \in Runs'
                      /\ WorkShape(intakeRun'[intakeJob'[v].run], intakeJob'[v])
    BY <1>0, <1>1 DEF Shapes
  <2>1. CASE v = w
    BY <1>0, <1>1, <1>2, <1>3, <2>1
  <2>2. CASE v # w
    <3> DEFINE q == intakeJob[v].run
    <3>1. intakeJob'[v] = intakeJob[v] /\ q \in Runs /\ WorkShape(intakeRun[q], intakeJob[v])
      BY <1>0, <1>2, <1>3, <2>2
    <3> HIDE DEF q
    <3>2. intakeRun'[q].job = intakeRun[q].job
      BY <1>0, <3>1 DEF RunsMove, SameRun
    <3>3. WorkShape(intakeRun'[q], intakeJob[v])
      BY <1>0, <3>1, <3>2 DEF WorkShape
    <3> QED
      BY <1>0, <1>1, <3>1, <3>3 DEF q
  <2> QED
    BY <1>0, <2>1, <2>2
<1>6. ASSUME NEW q \in Runs' \ disturbed' PROVE Accounted(q)'
  <2>1. CASE q \notin Runs
    <3>1. FreshRun(intakeRun'[q]) /\ charged'[q] = 0
      BY <1>0, <2>1 DEF RunsMove
    <3>2. \A v \in IntakeWorker : intakeJob'[v].run # q
      BY <1>0, <1>1, <1>2, <1>3, <2>1, IdleIsIdle
    <3>3. /\ intakeRun'[q].status # "RUNNING" /\ charged'[q] = intakeRun'[q].units
          /\ BooksOf(intakeRun'[q])
      BY <1>0, <3>1 DEF FreshRun, BooksOf
    <3> QED
      BY <1>0, <3>2, <3>3 DEF Accounted
  <2>2. CASE q \in Runs /\ q # r
    <3>1. Accounted(q)
      BY <1>0, <2>2 DEF IntakeIInv
    <3>2. intakeJob[w].run # q /\ intakeJob'[w].run # q
      BY <1>0, <1>2, <1>3, <2>2, IdleIsIdle
    <3> QED
      BY <1>0, <1>3, <2>2, <3>1, <3>2, BooksUntouched
  <2>3. CASE q = r
    <3>1. Accounted(r)
      BY <1>0, <1>2, <2>3 DEF IntakeIInv
    <3>2. /\ \A v \in IntakeWorker : intakeJob[v].run = r <=> v = w
          /\ HeldBooks(intakeRun[r], intakeJob[w], charged[r])
      BY <1>0, <3>1 DEF Accounted
    <3>3. CASE j = IdleWorker
      <4>1. \A v \in IntakeWorker : intakeJob'[v].run # r
        BY <1>0, <1>2, <1>3, <3>2, <3>3, IdleIsIdle
      <4> QED
        BY <1>0, <2>3, <3>2, <3>3, <4>1 DEF Accounted
    <3>4. CASE j # IdleWorker
      <4>1. \A v \in IntakeWorker : intakeJob'[v].run = r <=> v = w
        BY <1>0, <1>3, <3>2, <3>4
      <4> QED
        BY <1>0, <1>3, <2>3, <3>2, <3>4, <4>1 DEF Accounted
    <3> QED
      BY <1>0, <3>3, <3>4
  <2> QED
    BY <1>0, <2>1, <2>2, <2>3
<1> QED
  BY <1>0, <1>1, <1>4, <1>5, <1>6 DEF IntakeIInv

\* A step that has no worker: one run changes, or one is inserted.
LEMMA PlannerMoves ==
  ASSUME IntakeIInv, ReceiptMoves, RunsMove, intakeJob' = intakeJob,
         charged' \in Seq(Nat), Len(charged') = Len(intakeRun'),
         \A q \in Runs : charged'[q] = charged[q], \A q \in Runs' \ Runs : charged'[q] = 0,
         disturbed \subseteq disturbed', disturbed' \subseteq Runs,
         \A q \in Runs \ disturbed' :
            intakeRun'[q] = intakeRun[q]
            \/ (/\ intakeRun[q].status # "RUNNING" /\ intakeRun'[q].status # "RUNNING"
                /\ intakeRun'[q].units = intakeRun[q].units
                /\ BooksOf(intakeRun[q]) => BooksOf(intakeRun'[q]))
  PROVE  IntakeIInv'
<1>1. /\ VersionsMatch' /\ OneOpen' /\ Len(intakeRun') \in Nat /\ Runs \subseteq Runs'
      /\ \A q \in Runs' : RunShape(intakeRun'[q]) /\ intakeRun'[q].target \in 1..Len(revision')
  BY OrdersKept
<1>2. /\ \A v \in IntakeWorker : intakeJob[v] = IdleWorker
            \/ (intakeJob[v].run \in Runs /\ WorkShape(intakeRun[intakeJob[v].run], intakeJob[v]))
      /\ 0 \notin Runs'
  BY <1>1 DEF IntakeIInv, Shapes, Runs
<1>3. IntakeTypes'
  <2>1. RunRecord' = RunRecord
    BY DEF RunRecord, ReceiptMoves
  <2>2. intake \in IntakeCase
    BY DEF IntakeIInv, IntakeTypes
  <2> QED
    BY <1>1, <2>1, <2>2, IntakeParts DEF IntakeTypes, ReceiptMoves, RunsMove
<1>4. Shapes'
  <2> SUFFICES ASSUME NEW v \in IntakeWorker, intakeJob[v] # IdleWorker
               PROVE  /\ intakeJob[v].run \in Runs'
                      /\ WorkShape(intakeRun'[intakeJob[v].run], intakeJob[v])
    BY <1>1 DEF Shapes
  <2> DEFINE q == intakeJob[v].run
  <2>1. q \in Runs /\ WorkShape(intakeRun[q], intakeJob[v])
    BY <1>2
  <2> HIDE DEF q
  <2>2. intakeRun'[q].job = intakeRun[q].job
    BY <2>1 DEF RunsMove, SameRun
  <2>3. WorkShape(intakeRun'[q], intakeJob[v])
    BY <2>1, <2>2 DEF WorkShape
  <2> QED
    BY <1>1, <2>1, <2>3 DEF q
<1>5. ASSUME NEW q \in Runs' \ disturbed' PROVE Accounted(q)'
  <2>1. CASE q \notin Runs
    <3>1. FreshRun(intakeRun'[q]) /\ charged'[q] = 0
      BY <2>1 DEF RunsMove
    <3>2. \A v \in IntakeWorker : intakeJob'[v].run # q
      BY <1>2, <2>1, IdleIsIdle
    <3>3. /\ intakeRun'[q].status # "RUNNING" /\ charged'[q] = intakeRun'[q].units
          /\ BooksOf(intakeRun'[q])
      BY <3>1 DEF FreshRun, BooksOf
    <3> QED
      BY <3>2, <3>3 DEF Accounted
  <2>2. CASE q \in Runs
    <3>1. Accounted(q)
      BY <2>2 DEF IntakeIInv
    <3>2. CASE intakeRun'[q] = intakeRun[q]
      BY <2>2, <3>1, <3>2, BooksUntouched
    <3>3. CASE intakeRun'[q] # intakeRun[q]
      <4>1. \A v \in IntakeWorker : intakeJob[v].run # q
        BY <2>2, <3>1, <3>3 DEF Accounted, HeldBooks
      <4>2. BooksOf(intakeRun[q]) /\ charged[q] = intakeRun[q].units
        BY <3>1, <4>1 DEF Accounted
      <4> QED
        BY <2>2, <3>3, <4>1, <4>2 DEF Accounted
    <3> QED
      BY <3>2, <3>3
  <2> QED
    BY <2>1, <2>2
<1> QED
  BY <1>1, <1>3, <1>4, <1>5 DEF IntakeIInv

LEMMA ReceiptStays ==
  ASSUME IntakeIInv, UNCHANGED <<intake, shown, revision>>
  PROVE  ReceiptMoves
BY IntakeParts DEF ReceiptMoves, NewestDiscoveryKept, Current

LEMMA SameAsItself == ASSUME NEW x, RunShape(x) PROVE SameRun(x, x)
BY DEF RunShape, SameRun

LEMMA RunsStay ==
  ASSUME IntakeIInv, intakeRun' = intakeRun
  PROVE  RunsMove /\ Runs' = Runs
<1>1. \A r \in Runs : SameRun(intakeRun[r], intakeRun[r])
  BY IntakeParts, SameAsItself
<1> QED
  BY <1>1, IntakeParts DEF RunsMove, Runs

LEMMA OneRunChanged ==
  ASSUME IntakeIInv, NEW r \in Runs, NEW x \in RunRecord, SameRun(x, intakeRun[r]),
         intakeRun' = [intakeRun EXCEPT ![r] = x]
  PROVE  /\ RunsMove /\ Runs' = Runs /\ Len(intakeRun') = Len(intakeRun) /\ intakeRun'[r] = x
         /\ \A q \in Runs : q # r => intakeRun'[q] = intakeRun[q]
<1>1. intakeRun \in Seq(RunRecord) /\ Runs = 1..Len(intakeRun) /\ Len(intakeRun) \in Nat
  BY IntakeParts DEF Runs
<1>2. /\ intakeRun' \in Seq(RunRecord) /\ Len(intakeRun') = Len(intakeRun)
      /\ \A q \in Runs : intakeRun'[q] = IF q = r THEN x ELSE intakeRun[q]
  BY <1>1, ExceptSeq
<1>3. \A q \in Runs : SameRun(intakeRun'[q], intakeRun[q])
  BY <1>2, IntakeParts, SameAsItself
<1> QED
  BY <1>1, <1>2, <1>3 DEF RunsMove, Runs

LEMMA OneRunAdded ==
  ASSUME IntakeIInv, NEW x \in RunRecord, FreshRun(x), intakeRun' = Append(intakeRun, x)
  PROVE  /\ RunsMove /\ Len(intakeRun') = Len(intakeRun) + 1
         /\ \A q \in Runs : intakeRun'[q] = intakeRun[q]
<1>1. intakeRun \in Seq(RunRecord) /\ Runs = 1..Len(intakeRun) /\ Len(intakeRun) \in Nat
  BY IntakeParts DEF Runs
<1>2. /\ intakeRun' \in Seq(RunRecord) /\ Len(intakeRun') = Len(intakeRun) + 1
      /\ \A q \in Runs : intakeRun'[q] = intakeRun[q]
      /\ intakeRun'[Len(intakeRun) + 1] = x
  BY <1>1
<1>3. \A q \in Runs : SameRun(intakeRun'[q], intakeRun[q])
  BY <1>2, IntakeParts, SameAsItself
<1>4. Runs' \ Runs = {Len(intakeRun) + 1}
  BY <1>1, <1>2 DEF Runs
<1> QED
  BY <1>1, <1>2, <1>3, <1>4 DEF RunsMove

LEMMA ChargeAdded ==
  ASSUME IntakeIInv, charged' = Append(charged, 0), Len(intakeRun') = Len(intakeRun) + 1
  PROVE  /\ charged' \in Seq(Nat) /\ Len(charged') = Len(intakeRun')
         /\ \A q \in Runs : charged'[q] = charged[q]
         /\ \A q \in Runs' \ Runs : charged'[q] = 0
<1>1. charged \in Seq(Nat) /\ Len(charged) = Len(intakeRun) /\ Len(charged) \in Nat
  BY IntakeParts
<1> QED
  BY <1>1 DEF Runs

LEMMA ChargeStays ==
  ASSUME IntakeIInv, charged' = charged, Len(intakeRun') = Len(intakeRun)
  PROVE  /\ charged' \in Seq(Nat) /\ Len(charged') = Len(intakeRun')
         /\ \A q \in Runs : charged'[q] = charged[q]
         /\ \A q \in Runs' \ Runs : charged'[q] = 0
BY IntakeParts DEF Runs

LEMMA NewRunRecord ==
  ASSUME IntakeIInv, NEW item \in ItemOf(intake.versions), NEW target \in Nat,
         NEW job \in Transcript \cup {"ARTICLE_FETCH", "YOUTUBE_METADATA"},
         NEW stage \in {"none", "NATIVE_FIRST", "NATIVE_SECOND", "GENERATED"},
         job = "PODCAST_TRANSCRIPT" => stage = "none"
  PROVE  LET x == NewRun(job, stage, item, target)
         IN  /\ x \in RunRecord /\ x.target = target /\ x.item = item
             /\ x.status = "PENDING" /\ x.budget = "none" /\ x.provider = 0 /\ x.units = 0
             /\ x.job = "PODCAST_TRANSCRIPT" => x.stage = "none"
BY DEF NewRun, RunRecord, IntakeStatus

LEMMA FirstJob ==
  ASSUME IntakeIInv
  PROVE  FirstJobKind \in {"ARTICLE_FETCH", "PODCAST_TRANSCRIPT", "YOUTUBE_METADATA"}
BY IntakeParts DEF FirstJobKind

LEMMA PollStep ==
  ASSUME IntakeIInv, NEW v \in 1..intake.versions, PersistPoll(v)
  PROVE  IntakeIInv'
<1> DEFINE d == Discovered(v)
           x == NewRun(FirstJobKind, "none", d, Len(revision) + 1)
<1>1. /\ shown' = v /\ intake' = intake /\ intakeJob' = intakeJob /\ disturbed' = disturbed
      /\ \/ /\ revision # <<>> /\ Current = d
            /\ revision' = revision /\ intakeRun' = intakeRun /\ charged' = charged
         \/ /\ revision' = Append(revision, d) /\ intakeRun' = Append(intakeRun, x)
            /\ charged' = Append(charged, 0)
  BY DEF PersistPoll
<1>2. d \in ItemOf(intake.versions) /\ d.version = v /\ shown' \in 0..intake.versions
  BY <1>1, IntakeParts DEF Discovered, ItemOf, ItemText
<1> HIDE DEF d
<1>3. CASE revision' = revision /\ intakeRun' = intakeRun /\ charged' = charged /\ Current = d
  <2>1. ReceiptMoves
    BY <1>1, <1>2, <1>3, IntakeParts DEF ReceiptMoves, NewestDiscoveryKept, Current
  <2> QED
    BY <1>1, <1>3, <2>1, RunsStay, ChargeStays, IntakeParts, PlannerMoves
<1>4. CASE revision' = Append(revision, d) /\ intakeRun' = Append(intakeRun, x)
           /\ charged' = Append(charged, 0)
  <2>1. /\ revision' \in Seq(ItemOf(intake.versions)) /\ Len(revision') = Len(revision) + 1
        /\ \A i \in 1..Len(revision) : revision'[i] = revision[i]
        /\ revision'[Len(revision) + 1] = d /\ Len(revision) \in Nat
    BY <1>2, <1>4, IntakeParts
  <2>2. ReceiptMoves
    BY <1>1, <1>2, <2>1, IntakeParts DEF ReceiptMoves, NewestDiscoveryKept, Current
  <2>3. x \in RunRecord /\ FreshRun(x)
    <3>1. /\ Len(revision) + 1 \in Nat
          /\ FirstJobKind \in Transcript \cup {"ARTICLE_FETCH", "YOUTUBE_METADATA"}
      BY <2>1, FirstJob DEF Transcript
    <3>2. /\ x \in RunRecord /\ x.target = Len(revision) + 1 /\ x.item = d
          /\ x.status = "PENDING" /\ x.budget = "none" /\ x.provider = 0 /\ x.units = 0
          /\ x.job = "PODCAST_TRANSCRIPT" => x.stage = "none"
      BY <1>2, <3>1, NewRunRecord
    <3> HIDE DEF x
    <3> QED
      BY <2>1, <3>2 DEF FreshRun
  <2> HIDE DEF x
  <2> QED
    BY <1>1, <1>4, <2>2, <2>3, OneRunAdded, ChargeAdded, IntakeParts, PlannerMoves
<1> QED
  BY <1>1, <1>3, <1>4

\* A set of numbers up to n has a greatest one: its distance from n is least.
LEMMA GreatestExists ==
  ASSUME NEW n \in Nat, NEW S, S \subseteq 1..n, S # {}
  PROVE  \E r \in S : \A q \in S : q <= r
<1> DEFINE R == {ss \in Nat \X Nat : ss[1] < ss[2]}
           T == {n - i : i \in S}
<1>1. T \subseteq Nat /\ T # {}
  <2>1. \A i \in S : n - i \in Nat
    OBVIOUS
  <2>2. PICK i \in S : TRUE
    OBVIOUS
  <2> QED
    BY <2>1, <2>2
<1>2. IsWellFoundedOn(R, Nat)
  BY NatLessThanWellFounded DEF OpToRel
<1>3. \E x \in T : \A y \in T : ~(<<y, x>> \in R)
  <2> HIDE DEF T, R
  <2> QED
    BY <1>1, <1>2, WFMin
<1>4. PICK x \in T : \A y \in T : ~(y < x)
  BY <1>1, <1>3
<1>5. PICK r \in S : x = n - r
  BY <1>4
<1>6. ASSUME NEW q \in S PROVE q <= r
  <2>1. ~(n - q < n - r)
    BY <1>4, <1>5
  <2> QED
    BY <2>1
<1> QED
  BY <1>6

LEMMA LatestOf ==
  ASSUME IntakeIInv, NEW S, S \subseteq Runs, S # {}
  PROVE  Latest(S) \in S
<1>1. \E r \in S : \A q \in S : q <= r
  BY IntakeParts, GreatestExists DEF Runs
<1> QED
  BY <1>1 DEF Latest

\* A failed provider run polls again.
LEMMA RecoverStep == ASSUME IntakeIInv, RecoverProviderPoll PROVE IntakeIInv'
<1> DEFINE r == Latest(BlockingRuns)
           x == [intakeRun[r] EXCEPT !.status = "PENDING", !.outbox = "open",
                                     !.recoveries = intakeRun[r].recoveries + 1]
<1>1. /\ intakeRun' = [intakeRun EXCEPT ![r].status = "PENDING", ![r].outbox = "open",
                                        ![r].recoveries = @ + 1]
      /\ intakeRun[r].recoveries < 2 /\ BlockingRuns # {}
      /\ UNCHANGED <<intake, shown, revision, intakeJob, charged, disturbed>>
  BY DEF RecoverProviderPoll
<1>2. BlockingRuns \subseteq Runs
  BY DEF BlockingRuns, FailedProviderRuns, OfJob
<1>3. /\ r \in Runs /\ intakeRun[r].job = "YOUTUBE_TRANSCRIPT" /\ intakeRun[r].provider # 0
      /\ intakeRun[r].status = "FAILED"
  <2>1. r \in BlockingRuns
    BY <1>1, <1>2, LatestOf
  <2> HIDE DEF r
  <2> QED
    BY <2>1 DEF BlockingRuns, FailedProviderRuns, OfJob
<1> HIDE DEF r
<1>4. intakeRun[r] \in RunRecord
  BY <1>3, IntakeParts
<1>5. intakeRun' = [intakeRun EXCEPT ![r] = x]
  BY <1>1, <1>3, <1>4, IntakeParts DEF RunRecord
<1>6. x \in RunRecord /\ SameRun(x, intakeRun[r])
  <2> DEFINE n == intakeRun[r].recoveries + 1
  <2>1. n \in 0..2
    BY <1>1, <1>4 DEF RunRecord
  <2> HIDE DEF n
  <2>2. x \in RunRecord
    BY <1>4, <2>1 DEF RunRecord, IntakeStatus, n
  <2> QED
    BY <1>3, <1>4, <2>2 DEF RunRecord, SameRun, Open
<1>7. /\ x.status = "PENDING" /\ x.units = intakeRun[r].units
      /\ BooksOf(intakeRun[r]) => BooksOf(x)
  BY <1>3, <1>4 DEF RunRecord, BooksOf
<1> HIDE DEF x
<1>8. /\ RunsMove /\ Runs' = Runs /\ Len(intakeRun') = Len(intakeRun) /\ intakeRun'[r] = x
      /\ \A q \in Runs : q # r => intakeRun'[q] = intakeRun[q]
  BY <1>3, <1>5, <1>6, OneRunChanged
<1>9. \A q \in Runs \ disturbed' :
         intakeRun'[q] = intakeRun[q]
         \/ (/\ intakeRun[q].status # "RUNNING" /\ intakeRun'[q].status # "RUNNING"
             /\ intakeRun'[q].units = intakeRun[q].units
             /\ BooksOf(intakeRun[q]) => BooksOf(intakeRun'[q]))
  BY <1>3, <1>7, <1>8
<1>10. ReceiptMoves
  BY <1>1, ReceiptStays
<1> QED
  BY <1>1, <1>8, <1>9, <1>10, ChargeStays, IntakeParts, PlannerMoves

LEMMA Stages == NextStage \subseteq {"NATIVE_FIRST", "NATIVE_SECOND", "GENERATED"}
BY DEF NextStage

LEMMA Planned ==
  ASSUME IntakeIInv, NEW new \in PlanForCandidate
  PROVE  \E job \in Transcript \cup {"ARTICLE_FETCH", "YOUTUBE_METADATA"},
            stage \in {"none", "NATIVE_FIRST", "NATIVE_SECOND", "GENERATED"} :
            /\ job = "PODCAST_TRANSCRIPT" => stage = "none"
            /\ new = NewRun(job, stage, Current, Len(revision))
<1>1. CASE new = NewRun(FirstJobKind, "none", Current, Len(revision))
  <2>1. FirstJobKind \in Transcript \cup {"ARTICLE_FETCH", "YOUTUBE_METADATA"}
    BY FirstJob DEF Transcript
  <2> QED
    BY <1>1, <2>1
<1>2. ASSUME NEW stage \in NextStage,
             new = NewRun("YOUTUBE_TRANSCRIPT", stage, Current, Len(revision))
      PROVE  \E job \in Transcript \cup {"ARTICLE_FETCH", "YOUTUBE_METADATA"},
                s \in {"none", "NATIVE_FIRST", "NATIVE_SECOND", "GENERATED"} :
                /\ job = "PODCAST_TRANSCRIPT" => s = "none"
                /\ new = NewRun(job, s, Current, Len(revision))
  BY <1>2, Stages DEF Transcript
<1>3. \/ new = NewRun(FirstJobKind, "none", Current, Len(revision))
      \/ \E stage \in NextStage : new = NewRun("YOUTUBE_TRANSCRIPT", stage, Current, Len(revision))
  BY DEF PlanForCandidate
<1> QED
  BY <1>1, <1>2, <1>3

LEMMA PlanStep == ASSUME IntakeIInv, PlanTriggeredWork PROVE IntakeIInv'
<1>1. PICK new \in PlanForCandidate :
        /\ intakeRun' = Append(intakeRun, new) /\ charged' = Append(charged, 0)
        /\ revision # <<>> /\ BlockingRuns = {} /\ \A q \in Runs : ~IsActive(q)
        /\ UNCHANGED <<intake, shown, revision, intakeJob, disturbed>>
  BY DEF PlanTriggeredWork
<1>2. PICK job \in Transcript \cup {"ARTICLE_FETCH", "YOUTUBE_METADATA"},
           stage \in {"none", "NATIVE_FIRST", "NATIVE_SECOND", "GENERATED"} :
            /\ job = "PODCAST_TRANSCRIPT" => stage = "none"
            /\ new = NewRun(job, stage, Current, Len(revision))
  BY Planned
<1>3. /\ Len(revision) \in 1..Len(revision) /\ Len(revision) \in Nat
      /\ Current = revision[Len(revision)] /\ Current \in ItemOf(intake.versions)
  BY <1>1, IntakeParts DEF Current
<1>4. /\ new \in RunRecord /\ new.target = Len(revision) /\ new.item = Current
      /\ new.status = "PENDING" /\ new.budget = "none" /\ new.provider = 0 /\ new.units = 0
      /\ new.job = "PODCAST_TRANSCRIPT" => new.stage = "none"
  BY <1>2, <1>3, NewRunRecord
<1>5. \A q \in Runs : ~Open(intakeRun[q])
  BY <1>1 DEF Open, IsActive, BlockingRuns, FailedProviderRuns, OfJob
<1>6. FreshRun(new)
  BY <1>1, <1>3, <1>4, <1>5 DEF FreshRun
<1>7. ReceiptMoves
  BY <1>1, ReceiptStays
<1> QED
  BY <1>1, <1>4, <1>6, <1>7, OneRunAdded, ChargeAdded, IntakeParts, PlannerMoves

\* A lease has run out: whoever may still have the run disturbs it.
LEMMA ReclaimStep == ASSUME IntakeIInv, NEW r \in Runs, ReclaimStaleRun(r) PROVE IntakeIInv'
<1> DEFINE x == [intakeRun[r] EXCEPT !.status = "PENDING", !.outbox = "taken"]
<1>1. /\ intakeRun' = [intakeRun EXCEPT ![r].status = "PENDING", ![r].outbox = "taken"]
      /\ intakeRun[r].status \in {"PENDING", "RUNNING"}
      /\ disturbed' = IF intakeRun[r].status = "RUNNING" THEN disturbed \cup {r} ELSE disturbed
      /\ UNCHANGED <<intake, shown, revision, intakeJob, charged>>
  BY DEF ReclaimStaleRun, IsActive
<1>2. intakeRun[r] \in RunRecord /\ RunShape(intakeRun[r])
  BY IntakeParts
<1>3. intakeRun' = [intakeRun EXCEPT ![r] = x]
  BY <1>1, <1>2, IntakeParts DEF RunRecord
<1>4. x \in RunRecord /\ SameRun(x, intakeRun[r])
  BY <1>1, <1>2 DEF RunRecord, IntakeStatus, SameRun, Open, RunShape
<1>5. /\ x.status = "PENDING" /\ x.units = intakeRun[r].units
      /\ BooksOf(intakeRun[r]) => BooksOf(x)
  BY <1>1, <1>2 DEF RunRecord, BooksOf
<1> HIDE DEF x
<1>6. /\ RunsMove /\ Runs' = Runs /\ Len(intakeRun') = Len(intakeRun) /\ intakeRun'[r] = x
      /\ \A q \in Runs : q # r => intakeRun'[q] = intakeRun[q]
  BY <1>3, <1>4, OneRunChanged
<1>7. \A q \in Runs \ disturbed' :
         intakeRun'[q] = intakeRun[q]
         \/ (/\ intakeRun[q].status # "RUNNING" /\ intakeRun'[q].status # "RUNNING"
             /\ intakeRun'[q].units = intakeRun[q].units
             /\ BooksOf(intakeRun[q]) => BooksOf(intakeRun'[q]))
  BY <1>1, <1>5, <1>6
<1>8. ReceiptMoves /\ disturbed \subseteq disturbed' /\ disturbed' \subseteq Runs
  BY <1>1, ReceiptStays, IntakeParts
<1> QED
  BY <1>1, <1>6, <1>7, <1>8, ChargeStays, PlannerMoves

LEMMA DispatchStep == ASSUME IntakeIInv, NEW r \in Runs, DispatchJob(r) PROVE IntakeIInv'
<1>1. PICK taken \in {"taken", "delivered"} : intakeRun' = [intakeRun EXCEPT ![r].outbox = taken]
  BY DEF DispatchJob
<1>2. /\ intakeRun[r].status = "PENDING"
      /\ UNCHANGED <<intake, shown, revision, intakeJob, charged, disturbed>>
  BY DEF DispatchJob
<1> DEFINE x == [intakeRun[r] EXCEPT !.outbox = taken]
<1>3. intakeRun[r] \in RunRecord /\ RunShape(intakeRun[r])
  BY IntakeParts
<1>4. intakeRun' = [intakeRun EXCEPT ![r] = x]
  BY <1>1, <1>3, IntakeParts DEF RunRecord
<1>5. x \in RunRecord /\ SameRun(x, intakeRun[r])
  BY <1>3 DEF RunRecord, SameRun, Open, RunShape
<1>6. /\ x.status = "PENDING" /\ x.units = intakeRun[r].units
      /\ BooksOf(intakeRun[r]) => BooksOf(x)
  BY <1>2, <1>3 DEF RunRecord, BooksOf
<1> HIDE DEF x
<1>7. /\ RunsMove /\ Runs' = Runs /\ Len(intakeRun') = Len(intakeRun) /\ intakeRun'[r] = x
      /\ \A q \in Runs : q # r => intakeRun'[q] = intakeRun[q]
  BY <1>4, <1>5, OneRunChanged
<1>8. \A q \in Runs \ disturbed' :
         intakeRun'[q] = intakeRun[q]
         \/ (/\ intakeRun[q].status # "RUNNING" /\ intakeRun'[q].status # "RUNNING"
             /\ intakeRun'[q].units = intakeRun[q].units
             /\ BooksOf(intakeRun[q]) => BooksOf(intakeRun'[q]))
  BY <1>2, <1>6, <1>7
<1>9. ReceiptMoves
  BY <1>2, ReceiptStays
<1> QED
  BY <1>2, <1>7, <1>8, <1>9, ChargeStays, IntakeParts, PlannerMoves

LEMMA BeginStep ==
  ASSUME IntakeIInv, NEW w \in IntakeWorker, NEW r \in Runs, BeginRun(w, r)
  PROVE  IntakeIInv'
<1> DEFINE transcript == intakeRun[r].job \in Transcript /\ intakeRun[r].provider = 0
           x == [intakeRun[r] EXCEPT !.status = "RUNNING"]
           j == [IdleWorker EXCEPT !.run = r, !.provider = intakeRun[r].provider,
                                   !.units = intakeRun[r].units,
                                   !.step = IF transcript THEN "reserve" ELSE "call"]
<1>1. /\ intakeJob[w] = IdleWorker /\ intakeRun[r].status = "PENDING"
      /\ intakeRun' = [intakeRun EXCEPT ![r].status = "RUNNING"]
      /\ intakeJob' = [intakeJob EXCEPT ![w] = j]
      /\ UNCHANGED <<intake, shown, revision, charged, disturbed>>
  BY DEF BeginRun, Transcript
<1>2. intakeRun[r] \in RunRecord /\ RunShape(intakeRun[r]) /\ charged[r] \in Nat
  BY IntakeParts
<1>3. intakeRun' = [intakeRun EXCEPT ![r] = x]
  BY <1>1, <1>2, IntakeParts DEF RunRecord
<1>4. x \in RunRecord /\ SameRun(x, intakeRun[r])
  BY <1>1, <1>2 DEF RunRecord, IntakeStatus, SameRun, Open, RunShape
<1>5. r \in Nat /\ r # 0
  BY IntakeParts DEF Runs
<1>6. /\ j \in WorkRecord /\ j.run = r /\ j # IdleWorker
      /\ j.cost = 0 /\ j.units = intakeRun[r].units /\ j.provider = intakeRun[r].provider
      /\ j.next = 0 /\ j.answer = "none"
      /\ j.step = IF transcript THEN "reserve" ELSE "call"
  BY <1>2, <1>5 DEF IdleWorker, WorkRecord, RunRecord
<1>7. WorkShape(x, j)
  BY <1>2, <1>6 DEF WorkShape, RunShape, Transcript, RunRecord
<1>8. BooksOf(intakeRun[r]) /\ charged[r] = intakeRun[r].units => HeldBooks(x, j, charged[r])
  BY <1>1, <1>2, <1>6 DEF BooksOf, HeldBooks, RunRecord
<1> HIDE DEF x, j, transcript
<1>9. /\ RunsMove /\ Runs' = Runs /\ Len(intakeRun') = Len(intakeRun) /\ intakeRun'[r] = x
      /\ \A q \in Runs : q # r => intakeRun'[q] = intakeRun[q]
  BY <1>3, <1>4, OneRunChanged
<1>10. /\ ReceiptMoves /\ VersionsMatch' /\ OneOpen'
       /\ \A q \in Runs' : RunShape(intakeRun'[q]) /\ intakeRun'[q].target \in 1..Len(revision')
  BY <1>1, <1>9, ReceiptStays, OrdersKept
<1>11. /\ intakeJob'[w] = j /\ \A v \in IntakeWorker : v # w => intakeJob'[v] = intakeJob[v]
       /\ intakeJob' \in [IntakeWorker -> WorkRecord]
  BY <1>1, <1>6, IntakeParts
<1>12. IntakeTypes'
  <2>1. RunRecord' = RunRecord
    BY <1>1 DEF RunRecord
  <2> QED
    BY <1>1, <1>9, <1>11, <2>1 DEF IntakeIInv, IntakeTypes, RunsMove
<1>13. Shapes'
  <2> SUFFICES ASSUME NEW v \in IntakeWorker, intakeJob'[v] # IdleWorker
               PROVE  /\ intakeJob'[v].run \in Runs'
                      /\ WorkShape(intakeRun'[intakeJob'[v].run], intakeJob'[v])
    BY <1>10 DEF Shapes
  <2>1. CASE v = w
    BY <1>6, <1>7, <1>9, <1>11, <2>1
  <2>2. CASE v # w
    <3> DEFINE q == intakeJob[v].run
    <3>1. intakeJob'[v] = intakeJob[v] /\ q \in Runs /\ WorkShape(intakeRun[q], intakeJob[v])
      BY <1>11, <2>2 DEF IntakeIInv, Shapes
    <3> HIDE DEF q
    <3>2. intakeRun'[q].job = intakeRun[q].job
      BY <1>9, <3>1 DEF RunsMove, SameRun
    <3>3. WorkShape(intakeRun'[q], intakeJob[v])
      BY <3>1, <3>2 DEF WorkShape
    <3> QED
      BY <1>9, <3>1, <3>3 DEF q
  <2> QED
    BY <2>1, <2>2
<1>14. ASSUME NEW q \in Runs' \ disturbed' PROVE Accounted(q)'
  <2>1. Accounted(q) /\ q \in Runs
    BY <1>1, <1>9 DEF IntakeIInv
  <2>2. CASE q # r
    <3>1. intakeJob[w].run # q /\ intakeJob'[w].run # q
      BY <1>1, <1>6, <1>11, <2>1, <2>2, IdleIsIdle, IntakeParts
    <3> QED
      BY <1>1, <1>9, <1>11, <2>1, <2>2, <3>1, BooksUntouched
  <2>3. CASE q = r
    <3>1. /\ \A v \in IntakeWorker : intakeJob[v].run # r
          /\ BooksOf(intakeRun[r]) /\ charged[r] = intakeRun[r].units
      BY <1>1, <2>1, <2>3 DEF Accounted, HeldBooks
    <3>2. \A v \in IntakeWorker : intakeJob'[v].run = r <=> v = w
      BY <1>6, <1>11, <3>1
    <3>3. HeldBooks(intakeRun'[r], intakeJob'[w], charged'[r])
      BY <1>1, <1>8, <1>9, <1>11, <3>1
    <3> QED
      BY <2>3, <3>2, <3>3 DEF Accounted
  <2> QED
    BY <2>2, <2>3
<1> QED
  BY <1>10, <1>12, <1>13, <1>14 DEF IntakeIInv

\* A dead worker's run is disturbed.
LEMMA DeathStep ==
  ASSUME IntakeIInv, NEW w \in IntakeWorker, IntakeWorkerDies(w)
  PROVE  IntakeIInv'
<1>1. /\ intakeJob[w] # IdleWorker /\ intakeJob' = [intakeJob EXCEPT ![w] = IdleWorker]
      /\ disturbed' = disturbed \cup {intakeJob[w].run}
      /\ UNCHANGED <<intake, shown, revision, intakeRun, charged>>
  BY DEF IntakeWorkerDies
<1>2. intakeJob[w].run \in Runs /\ Runs' = Runs /\ 0 \notin Runs
  BY <1>1, IntakeParts DEF IntakeIInv, Shapes, Runs
<1>3. /\ intakeJob'[w] = IdleWorker /\ \A v \in IntakeWorker : v # w => intakeJob'[v] = intakeJob[v]
      /\ intakeJob' \in [IntakeWorker -> WorkRecord]
  BY <1>1, IntakeParts, IdleIsIdle
<1>4. IntakeTypes'
  <2>1. RunRecord' = RunRecord
    BY <1>1 DEF RunRecord
  <2> QED
    BY <1>1, <1>2, <1>3, <2>1 DEF IntakeIInv, IntakeTypes
<1>5. Shapes' /\ VersionsMatch' /\ OneOpen'
  <2>1. Shapes'
    BY <1>1, <1>2, <1>3 DEF IntakeIInv, Shapes
  <2>2. VersionsMatch' /\ OneOpen'
    BY <1>1, <1>2 DEF IntakeIInv, VersionsMatch, NewestDiscoveryKept, Current, OneOpen
  <2> QED
    BY <2>1, <2>2
<1>6. ASSUME NEW q \in Runs' \ disturbed' PROVE Accounted(q)'
  <2>1. Accounted(q) /\ q \in Runs /\ q # intakeJob[w].run
    BY <1>1, <1>2 DEF IntakeIInv
  <2>2. intakeJob'[w].run # q
    BY <1>2, <1>3, <2>1, IdleIsIdle
  <2> QED
    BY <1>1, <1>3, <2>1, <2>2, BooksUntouched
<1> QED
  BY <1>4, <1>5, <1>6 DEF IntakeIInv

\* A worker at a step has a run.
LEMMA WorkerHas ==
  ASSUME IntakeIInv, NEW w \in IntakeWorker, intakeJob[w].step # "idle"
  PROVE  LET r == intakeJob[w].run
         IN  /\ r \in Runs /\ intakeRun[r] \in RunRecord /\ intakeJob[w] \in WorkRecord
             /\ intakeJob[w] # IdleWorker
             /\ RunShape(intakeRun[r]) /\ WorkShape(intakeRun[r], intakeJob[w])
             /\ charged[r] \in Nat
BY IntakeParts, IdleIsIdle DEF IntakeIInv, Shapes

\* A worker's step that leaves the receipt alone and changes its run to x.
WorkerChange(w, r, x, j) ==
    /\ intakeJob[w].step # "idle" /\ r = intakeJob[w].run
    /\ SameRun(x, intakeRun[r])
    /\ j = IdleWorker \/ (j.run = r /\ WorkShape(x, j))
    /\ intakeRun' = [intakeRun EXCEPT ![r] = x] /\ intakeJob' = [intakeJob EXCEPT ![w] = j]
    /\ UNCHANGED <<intake, shown, revision, charged, disturbed>>
    /\ HeldBooks(intakeRun[r], intakeJob[w], charged[r]) => BooksGoOn(x, j, charged[r])

LEMMA WorkerChanges ==
  ASSUME IntakeIInv, NEW w \in IntakeWorker, NEW r, NEW x \in RunRecord, NEW j \in WorkRecord,
         WorkerChange(w, r, x, j)
  PROVE  IntakeIInv'
<1>1. r \in Runs /\ intakeJob[w] # IdleWorker /\ r = intakeJob[w].run
  BY WorkerHas DEF WorkerChange
<1>2. /\ RunsMove /\ Runs' = Runs /\ Len(intakeRun') = Len(intakeRun) /\ intakeRun'[r] = x
      /\ \A q \in Runs : q # r => intakeRun'[q] = intakeRun[q]
  BY <1>1, OneRunChanged DEF WorkerChange
<1>3. /\ charged' \in Seq(Nat) /\ Len(charged') = Len(intakeRun')
      /\ \A q \in Runs : charged'[q] = charged[q]
      /\ \A q \in Runs' \ Runs : charged'[q] = 0
  BY <1>2, ChargeStays DEF WorkerChange
<1>4. ReceiptMoves
  BY ReceiptStays DEF WorkerChange
<1>5. WorkerMove(w, r, j)
  <2>1. charged'[r] = charged[r]
    BY <1>1, <1>3
  <2>2. \A q \in Runs : q # r => intakeRun'[q] = intakeRun[q] /\ charged'[q] = charged[q]
    BY <1>2, <1>3
  <2> QED
    BY <1>1, <1>2, <1>3, <2>1, <2>2 DEF WorkerChange, WorkerMove
<1> QED
  BY <1>2, <1>4, <1>5, WorkerMoves

LEMMA RunItself ==
  ASSUME IntakeIInv, NEW r \in Runs
  PROVE  intakeRun = [intakeRun EXCEPT ![r] = intakeRun[r]]
BY IntakeParts

LEMMA ReserveStep ==
  ASSUME IntakeIInv, NEW w \in IntakeWorker, ReserveBudget(w)
  PROVE  IntakeIInv'
<1> DEFINE r == intakeJob[w].run
           had == intakeRun[r].budget \in {"RESERVED", "COMMITTED"}
           fits == Used + Expected(r) <= CreditLimit
           y == [intakeRun[r] EXCEPT !.budget = "RESERVED", !.reserved = Expected(r)]
           x == IF had \/ ~fits THEN intakeRun[r] ELSE y
           j == [intakeJob[w] EXCEPT !.step = IF had \/ fits THEN "call" ELSE "defer"]
<1>1. /\ intakeJob[w].step = "reserve"
      /\ intakeRun' = IF had \/ ~fits THEN intakeRun
                      ELSE [intakeRun EXCEPT ![r].budget = "RESERVED", ![r].reserved = Expected(r)]
      /\ intakeJob' = [intakeJob EXCEPT ![w] = j]
      /\ UNCHANGED <<intake, shown, revision, charged, disturbed>>
  BY IntakeParts DEF ReserveBudget, WorkRecord
<1>2. /\ r \in Runs /\ intakeRun[r] \in RunRecord /\ intakeJob[w] \in WorkRecord
      /\ RunShape(intakeRun[r]) /\ WorkShape(intakeRun[r], intakeJob[w]) /\ charged[r] \in Nat
  BY <1>1, WorkerHas
<1> HIDE DEF fits
<1>3. /\ Expected(r) \in {1, 2} /\ Expected(r) \in Nat
      /\ intakeRun[r].job = "PODCAST_TRANSCRIPT" => Expected(r) = 1
  BY <1>2 DEF Expected, RunShape
<1>4. y \in RunRecord /\ SameRun(y, intakeRun[r])
  BY <1>2, <1>3 DEF RunRecord, SameRun, Open, RunShape
<1>5. x \in RunRecord /\ SameRun(x, intakeRun[r])
  BY <1>2, <1>4, SameAsItself
<1>6. intakeRun' = [intakeRun EXCEPT ![r] = x]
  <2>1. [intakeRun EXCEPT ![r].budget = "RESERVED", ![r].reserved = Expected(r)]
          = [intakeRun EXCEPT ![r] = y]
    BY <1>2, IntakeParts DEF RunRecord
  <2> HIDE DEF y
  <2> QED
    BY <1>1, <1>2, <2>1, RunItself
<1>7. /\ j \in WorkRecord /\ j.run = r /\ j # IdleWorker /\ WorkShape(x, j)
      /\ j.cost = intakeJob[w].cost /\ j.units = intakeJob[w].units
      /\ j.provider = intakeJob[w].provider /\ j.step = IF had \/ fits THEN "call" ELSE "defer"
  <2>1. x.job = intakeRun[r].job
    BY <1>5 DEF SameRun
  <2>2. /\ j \in WorkRecord /\ j.run = r /\ j.cost = intakeJob[w].cost
        /\ j.units = intakeJob[w].units /\ j.provider = intakeJob[w].provider
        /\ j.next = intakeJob[w].next /\ j.answer = intakeJob[w].answer
        /\ j.step = IF had \/ fits THEN "call" ELSE "defer"
    BY <1>2 DEF WorkRecord
  <2> HIDE DEF j, x
  <2> QED
    BY <1>1, <1>2, <2>1, <2>2, IdleIsIdle DEF WorkShape
<1>8. HeldBooks(intakeRun[r], intakeJob[w], charged[r]) => HeldBooks(x, j, charged[r])
  <2> SUFFICES ASSUME HeldBooks(intakeRun[r], intakeJob[w], charged[r])
               PROVE  HeldBooks(x, j, charged[r])
    OBVIOUS
  <2>1. /\ intakeRun[r].provider = 0 /\ intakeRun[r].status = "RUNNING" /\ BooksOf(intakeRun[r])
        /\ intakeRun[r].units = 0 /\ intakeRun[r].budget \in {"none", "RESERVED"}
    BY <1>1, <1>2 DEF HeldBooks, BooksOf, WorkShape
  <2>2. BooksOf(y)
    BY <1>2, <1>3, <2>1 DEF BooksOf, RunRecord
  <2>3. /\ BooksOf(x) /\ x.status = "RUNNING" /\ x.units = intakeRun[r].units
        /\ x.provider = intakeRun[r].provider /\ (had \/ fits => x.budget = "RESERVED")
    BY <1>2, <2>1, <2>2 DEF RunRecord
  <2> HIDE DEF x, j
  <2> QED
    BY <1>7, <2>3 DEF HeldBooks
<1> HIDE DEF r, x, j, y, had
<1>9. r = intakeJob[w].run
  BY DEF r
<1>10. WorkerChange(w, r, x, j)
  BY <1>1, <1>5, <1>6, <1>7, <1>8, <1>9 DEF WorkerChange, BooksGoOn
<1> QED
  BY <1>5, <1>7, <1>10, WorkerChanges

LEMMA DeferStep ==
  ASSUME IntakeIInv, NEW w \in IntakeWorker, DeferRun(w)
  PROVE  IntakeIInv'
<1> DEFINE r == intakeJob[w].run
           opened == intakeRun[r].status \in {"PENDING", "RUNNING"}
           y == [intakeRun[r] EXCEPT !.status = "BUDGET_DEFERRED", !.outbox = "delivered",
                                     !.budget = Released(intakeRun[r].budget)]
           x == IF opened THEN y ELSE intakeRun[r]
<1>1. /\ intakeJob[w].step = "defer"
      /\ intakeRun' = IF ~opened THEN intakeRun
                      ELSE [intakeRun EXCEPT ![r].status = "BUDGET_DEFERRED",
                                             ![r].outbox = "delivered", ![r].budget = Released(@)]
      /\ intakeJob' = [intakeJob EXCEPT ![w] = IdleWorker]
      /\ UNCHANGED <<intake, shown, revision, charged, disturbed>>
  BY DEF DeferRun, IsActive
<1>2. /\ r \in Runs /\ intakeRun[r] \in RunRecord /\ intakeJob[w] \in WorkRecord
      /\ RunShape(intakeRun[r]) /\ WorkShape(intakeRun[r], intakeJob[w]) /\ charged[r] \in Nat
  BY <1>1, WorkerHas
<1>3. y \in RunRecord /\ SameRun(y, intakeRun[r])
  <2> DEFINE b == Released(intakeRun[r].budget)
  <2>1. b \in {"none", "RESERVED", "COMMITTED", "RELEASED"}
    BY <1>2 DEF RunRecord, Released
  <2> HIDE DEF b
  <2>2. y \in RunRecord /\ y.status = "BUDGET_DEFERRED"
    BY <1>2, <2>1 DEF RunRecord, IntakeStatus, b
  <2> QED
    BY <1>2, <2>2 DEF SameRun, Open, RunShape, RunRecord
<1>4. x \in RunRecord /\ SameRun(x, intakeRun[r])
  BY <1>2, <1>3, SameAsItself
<1>5. intakeRun' = [intakeRun EXCEPT ![r] = x]
  <2>1. [intakeRun EXCEPT ![r].status = "BUDGET_DEFERRED", ![r].outbox = "delivered",
                          ![r].budget = Released(@)]
          = [intakeRun EXCEPT ![r] = y]
    BY <1>2, IntakeParts DEF RunRecord
  <2> HIDE DEF y
  <2> QED
    BY <1>1, <1>2, <2>1, RunItself
<1>6. HeldBooks(intakeRun[r], intakeJob[w], charged[r]) =>
        x.status # "RUNNING" /\ BooksOf(x) /\ charged[r] = x.units
  BY <1>1, <1>2 DEF HeldBooks, BooksOf, WorkShape, RunRecord, WorkRecord, Released
<1> HIDE DEF r, x, y
<1>7. r = intakeJob[w].run /\ intakeJob[w].step # "idle"
  BY <1>1 DEF r
<1>8. WorkerChange(w, r, x, IdleWorker)
  BY <1>1, <1>4, <1>5, <1>6, <1>7 DEF WorkerChange, BooksGoOn
<1> QED
  BY <1>4, <1>8, IdleIsIdle, WorkerChanges

LEMMA AnswerShapes ==
  ASSUME IntakeIInv, NEW r \in Runs, NEW provider \in Nat, NEW a \in Answers(r, provider),
         provider # 0 => intakeRun[r].job = "YOUTUBE_TRANSCRIPT"
  PROVE  /\ a[1] \in {"text", "error", "live", "ended", "tooLong", "empty", "unavailable",
                      "pending", "refused"}
         /\ a[2] \in {0, 1}
         /\ a[2] # 0 => intakeRun[r].job \in Transcript
         /\ a[1] = "pending" => /\ intakeRun[r].job = "YOUTUBE_TRANSCRIPT"
                                /\ a[2] = IF provider = 0 THEN 1 ELSE 0
<1> DEFINE article == {"text", "error"} \X {0}
           podcast == {"text", "error"} \X {Expected(r)}
           video == {"live", "ended", "tooLong", "error"} \X {0}
           order == ({"text", "empty", "unavailable", "pending", "error"} \X {1}) \cup {<<"error", 0>>}
           poll == ({"text", "empty", "refused", "pending", "error"} \X {0})
                   \cup {<<"text", 1>>, <<"error", 1>>}
<1>1. Answers(r, provider) =
        CASE intakeRun[r].job = "ARTICLE_FETCH" -> article
          [] intakeRun[r].job = "PODCAST_TRANSCRIPT" -> podcast
          [] intakeRun[r].job = "YOUTUBE_METADATA" -> video
          [] OTHER -> IF provider = 0 THEN order ELSE poll
  BY Zenon DEF Answers
<1>2. /\ intakeRun[r].job \in {"PODCAST_TRANSCRIPT", "YOUTUBE_TRANSCRIPT", "ARTICLE_FETCH",
                               "YOUTUBE_METADATA"}
      /\ RunShape(intakeRun[r])
  BY IntakeParts DEF RunRecord, Transcript
<1>3. /\ \A x \in article : x[1] \in {"text", "error"} /\ x[2] = 0
      /\ \A x \in video : x[1] \in {"live", "ended", "tooLong", "error"} /\ x[2] = 0
      /\ \A x \in order : /\ x[1] \in {"text", "empty", "unavailable", "pending", "error"}
                          /\ x[2] \in {0, 1} /\ (x[1] = "pending" => x[2] = 1)
      /\ \A x \in poll : /\ x[1] \in {"text", "empty", "refused", "pending", "error"}
                         /\ x[2] \in {0, 1} /\ (x[1] = "pending" => x[2] = 0)
  OBVIOUS
<1>4. intakeRun[r].job = "PODCAST_TRANSCRIPT" =>
         \A x \in podcast : x[1] \in {"text", "error"} /\ x[2] = 1
  BY <1>2 DEF RunShape, Expected
<1> HIDE DEF article, podcast, video, order, poll
<1>5. CASE intakeRun[r].job = "ARTICLE_FETCH"
  BY <1>1, <1>3, <1>5
<1>6. CASE intakeRun[r].job = "PODCAST_TRANSCRIPT"
  BY <1>1, <1>4, <1>6 DEF Transcript
<1>7. CASE intakeRun[r].job = "YOUTUBE_METADATA"
  BY <1>1, <1>3, <1>7
<1>8. CASE intakeRun[r].job = "YOUTUBE_TRANSCRIPT"
  BY <1>1, <1>3, <1>8 DEF Transcript
<1> QED
  BY <1>2, <1>5, <1>6, <1>7, <1>8

LEMMA CallStep ==
  ASSUME IntakeIInv, NEW w \in IntakeWorker, CallProvider(w)
  PROVE  IntakeIInv'
<1> DEFINE r == intakeJob[w].run
<1>1. PICK a \in Answers(r, intakeJob[w].provider) :
        /\ intakeJob' = [intakeJob EXCEPT ![w].step = IF a[1] = "error" THEN "fail" ELSE "answered",
                                          ![w].answer = a[1], ![w].cost = a[2],
                                          ![w].next = IF a[1] = "pending" /\ intakeJob[w].provider = 0
                                                      THEN r ELSE intakeJob[w].provider]
        /\ charged' = [charged EXCEPT ![r] = @ + a[2]]
  BY DEF CallProvider
<1>2. intakeJob[w].step = "call" /\ UNCHANGED <<intake, shown, revision, intakeRun, disturbed>>
  BY DEF CallProvider
<1>3. /\ r \in Runs /\ intakeRun[r] \in RunRecord /\ intakeJob[w] \in WorkRecord
      /\ RunShape(intakeRun[r]) /\ WorkShape(intakeRun[r], intakeJob[w]) /\ charged[r] \in Nat
      /\ intakeJob[w] # IdleWorker
  BY <1>2, WorkerHas
<1>4. /\ a[1] \in {"text", "error", "live", "ended", "tooLong", "empty", "unavailable",
                   "pending", "refused"}
      /\ a[2] \in {0, 1}
      /\ a[2] # 0 => intakeRun[r].job \in Transcript
      /\ a[1] = "pending" => /\ intakeRun[r].job = "YOUTUBE_TRANSCRIPT"
                             /\ a[2] = IF intakeJob[w].provider = 0 THEN 1 ELSE 0
  BY <1>3, AnswerShapes DEF WorkShape, WorkRecord
<1> DEFINE next == IF a[1] = "pending" /\ intakeJob[w].provider = 0 THEN r ELSE intakeJob[w].provider
           j == [intakeJob[w] EXCEPT !.step = IF a[1] = "error" THEN "fail" ELSE "answered",
                                     !.answer = a[1], !.cost = a[2], !.next = next]
<1>5. intakeJob' = [intakeJob EXCEPT ![w] = j]
  BY <1>1, <1>3, IntakeParts DEF WorkRecord
<1>6. /\ next \in Nat /\ (next # 0 => intakeRun[r].job = "YOUTUBE_TRANSCRIPT")
      /\ a[1] = "pending" => next # 0
  BY <1>3, <1>4, IntakeParts DEF WorkRecord, WorkShape, Runs
<1> HIDE DEF next
<1>7. /\ j \in WorkRecord /\ j.run = r /\ j.cost = a[2] /\ j.units = intakeJob[w].units
      /\ j.provider = intakeJob[w].provider /\ j.next = next /\ j.answer = a[1]
      /\ j.step = IF a[1] = "error" THEN "fail" ELSE "answered"
  BY <1>3, <1>4, <1>6 DEF WorkRecord
<1> HIDE DEF j
<1>8. WorkShape(intakeRun[r], j) /\ j # IdleWorker
  BY <1>2, <1>3, <1>4, <1>6, <1>7, IdleIsIdle DEF WorkShape
<1>9. /\ charged' \in Seq(Nat) /\ Len(charged') = Len(charged) /\ charged'[r] = charged[r] + a[2]
      /\ \A q \in Runs : q # r => charged'[q] = charged[q]
  <2>1. charged \in Seq(Nat) /\ Len(charged) = Len(intakeRun) /\ charged[r] + a[2] \in Nat
    BY <1>3, <1>4, IntakeParts
  <2> QED
    BY <1>1, <1>3, <2>1, ExceptSeq DEF Runs
<1>10. HeldBooks(intakeRun[r], intakeJob[w], charged[r]) => HeldBooks(intakeRun[r], j, charged'[r])
  <2> SUFFICES ASSUME HeldBooks(intakeRun[r], intakeJob[w], charged[r])
               PROVE  HeldBooks(intakeRun[r], j, charged'[r])
    OBVIOUS
  <2>1. intakeJob[w].cost = 0 /\ charged'[r] = intakeRun[r].units + j.cost
    BY <1>2, <1>3, <1>4, <1>7, <1>9 DEF HeldBooks, WorkShape, RunRecord
  <2> QED
    BY <1>2, <1>7, <2>1 DEF HeldBooks
<1>11. RunsMove /\ ReceiptMoves /\ Runs' = Runs
  BY <1>2, RunsStay, ReceiptStays
<1> HIDE DEF r
<1>12. Len(charged') = Len(intakeRun') /\ \A q \in Runs' \ Runs : charged'[q] = 0
  BY <1>2, <1>9, <1>11, IntakeParts
<1>13. r = intakeJob[w].run /\ intakeRun' = intakeRun /\ disturbed' = disturbed
  BY <1>2 DEF r
<1>14. WorkerMove(w, r, j)
  <2>1. \A q \in Runs : q # r => intakeRun'[q] = intakeRun[q] /\ charged'[q] = charged[q]
    BY <1>9, <1>13
  <2> QED
    BY <1>3, <1>5, <1>7, <1>8, <1>9, <1>10, <1>12, <1>13, <2>1 DEF WorkerMove, BooksGoOn
<1> QED
  BY <1>7, <1>11, <1>14, WorkerMoves

LEMMA ParkStep ==
  ASSUME IntakeIInv, NEW w \in IntakeWorker, ParkRun(w)
  PROVE  IntakeIInv'
<1> DEFINE r == intakeJob[w].run
           j == intakeJob[w]
           y == [intakeRun[r] EXCEPT !.status = "PENDING", !.provider = j.next, !.outbox = "open",
                     !.units = intakeRun[r].units + j.cost,
                     !.budget = IF j.provider = 0 THEN Committed(intakeRun[r].budget)
                                ELSE intakeRun[r].budget,
                     !.reserved = IF j.provider = 0 THEN j.cost ELSE intakeRun[r].reserved]
           f == [j EXCEPT !.step = "fail"]
<1>1. /\ j.step = "answered" /\ j.answer = "pending"
      /\ UNCHANGED <<intake, shown, revision, charged, disturbed>>
  BY DEF ParkRun
<1>2. /\ r \in Runs /\ intakeRun[r] \in RunRecord /\ j \in WorkRecord
      /\ RunShape(intakeRun[r]) /\ WorkShape(intakeRun[r], j) /\ charged[r] \in Nat
  BY <1>1, WorkerHas
<1>3. /\ j.next # 0 /\ intakeRun[r].job = "YOUTUBE_TRANSCRIPT"
      /\ j.cost = IF j.provider = 0 THEN 1 ELSE 0
  BY <1>1, <1>2 DEF WorkShape
<1>4. CASE intakeRun[r].status # "RUNNING" /\ intakeJob' = [intakeJob EXCEPT ![w] = IdleWorker]
           /\ intakeRun' = intakeRun
  <2>1. WorkerChange(w, r, intakeRun[r], IdleWorker)
    BY <1>1, <1>2, <1>4, RunItself, SameAsItself DEF WorkerChange, HeldBooks
  <2> QED
    BY <1>2, <2>1, IdleIsIdle, WorkerChanges
<1>5. CASE /\ intakeRun[r].status = "RUNNING"
           /\ intakeJob' = [intakeJob EXCEPT ![w].step = "fail"] /\ intakeRun' = intakeRun
  <2>1. intakeJob' = [intakeJob EXCEPT ![w] = f]
    BY <1>2, <1>5, IntakeParts DEF WorkRecord
  <2>2. /\ f \in WorkRecord /\ f.run = r /\ f # IdleWorker /\ f.cost = j.cost /\ f.units = j.units
        /\ f.provider = j.provider /\ f.next = j.next /\ f.answer = j.answer /\ f.step = "fail"
    BY <1>2, IdleIsIdle DEF WorkRecord
  <2> HIDE DEF f
  <2>3. WorkShape(intakeRun[r], f)
    BY <1>1, <1>2, <2>2 DEF WorkShape
  <2>4. HeldBooks(intakeRun[r], j, charged[r]) => HeldBooks(intakeRun[r], f, charged[r])
    BY <1>1, <2>2 DEF HeldBooks
  <2>5. WorkerChange(w, r, intakeRun[r], f)
    BY <1>1, <1>2, <1>5, <2>1, <2>2, <2>3, <2>4, RunItself, SameAsItself
       DEF WorkerChange, BooksGoOn
  <2> QED
    BY <1>2, <2>2, <2>5, WorkerChanges
<1>6. CASE /\ intakeRun[r].status = "RUNNING" /\ intakeRun[r].provider = j.provider
           /\ intakeJob' = [intakeJob EXCEPT ![w] = IdleWorker]
           /\ intakeRun' = [intakeRun EXCEPT ![r].status = "PENDING", ![r].provider = j.next,
                                 ![r].outbox = "open", ![r].units = @ + j.cost,
                                 ![r].budget = IF j.provider = 0 THEN Committed(@) ELSE @,
                                 ![r].reserved = IF j.provider = 0 THEN j.cost ELSE @]
  <2>1. intakeRun' = [intakeRun EXCEPT ![r] = y]
    BY <1>2, <1>6, IntakeParts DEF RunRecord
  <2>2. /\ y \in RunRecord /\ y.status = "PENDING" /\ y.provider = j.next /\ y.job = intakeRun[r].job
        /\ y.stage = intakeRun[r].stage /\ y.item = intakeRun[r].item
        /\ y.target = intakeRun[r].target /\ y.units = intakeRun[r].units + j.cost
        /\ y.budget = (IF j.provider = 0 THEN Committed(intakeRun[r].budget) ELSE intakeRun[r].budget)
        /\ y.reserved = (IF j.provider = 0 THEN j.cost ELSE intakeRun[r].reserved)
    <3> DEFINE b == IF j.provider = 0 THEN Committed(intakeRun[r].budget) ELSE intakeRun[r].budget
               u == intakeRun[r].units + j.cost
               v == IF j.provider = 0 THEN j.cost ELSE intakeRun[r].reserved
    <3>1. /\ b \in {"none", "RESERVED", "COMMITTED", "RELEASED"} /\ u \in Nat /\ v \in Nat
          /\ j.next \in Nat
      BY <1>2 DEF RunRecord, WorkRecord, Committed
    <3> HIDE DEF b, u, v
    <3>2. y = [intakeRun[r] EXCEPT !.status = "PENDING", !.provider = j.next, !.outbox = "open",
                     !.units = u, !.budget = b, !.reserved = v]
      BY DEF b, u, v
    <3> HIDE DEF y, j, r
    <3>3. /\ y \in RunRecord /\ y.status = "PENDING" /\ y.provider = j.next
          /\ y.job = intakeRun[r].job /\ y.stage = intakeRun[r].stage
          /\ y.item = intakeRun[r].item /\ y.target = intakeRun[r].target /\ y.units = u
          /\ y.budget = b /\ y.reserved = v
      BY <1>2, <3>1, <3>2 DEF RunRecord, IntakeStatus
    <3> QED
      BY <3>3 DEF b, u, v
  <2> HIDE DEF y
  <2>3. SameRun(y, intakeRun[r])
    BY <1>2, <1>3, <1>6, <2>2 DEF SameRun, Open
  <2>4. HeldBooks(intakeRun[r], j, charged[r]) =>
          y.status # "RUNNING" /\ BooksOf(y) /\ charged[r] = y.units
    <3> SUFFICES ASSUME HeldBooks(intakeRun[r], j, charged[r])
                 PROVE  BooksOf(y) /\ charged[r] = y.units
      BY <2>2
    <3>1. BooksOf(intakeRun[r]) /\ charged[r] = intakeRun[r].units + j.cost
      BY DEF HeldBooks
    <3>2. CASE j.provider = 0
      <4>1. intakeRun[r].budget = "RESERVED" /\ intakeRun[r].units = 0
        BY <1>1, <1>3, <1>6, <3>1, <3>2 DEF HeldBooks, BooksOf, Transcript
      <4>2. y.budget = "COMMITTED" /\ y.reserved = 1 /\ y.units = 1
        BY <1>3, <2>2, <3>2, <4>1 DEF Committed
      <4> QED
        BY <1>3, <2>2, <3>1, <3>2, <4>1, <4>2 DEF BooksOf
    <3>3. CASE j.provider # 0
      <4>1. /\ intakeRun[r].budget = "COMMITTED" /\ intakeRun[r].units >= 1
            /\ intakeRun[r].reserved = intakeRun[r].units /\ j.cost = 0 /\ intakeRun[r].units \in Nat
        BY <1>2, <1>3, <1>6, <3>1, <3>3 DEF BooksOf, RunRecord
      <4> QED
        BY <1>3, <2>2, <3>1, <3>3, <4>1 DEF BooksOf
    <3> QED
      BY <3>2, <3>3
  <2>5. WorkerChange(w, r, y, IdleWorker)
    BY <1>1, <1>6, <2>1, <2>3, <2>4 DEF WorkerChange, BooksGoOn
  <2> QED
    BY <2>2, <2>5, IdleIsIdle, WorkerChanges
<1> QED
  BY <1>4, <1>5, <1>6 DEF ParkRun

LEMMA FailedRowOf ==
  ASSUME NEW r, NEW j \in WorkRecord, intakeRun[r] \in RunRecord,
         RunShape(intakeRun[r]), WorkShape(intakeRun[r], j)
  PROVE  LET y == FailedRow(r, j)
             x == intakeRun[r]
         IN  /\ y \in RunRecord /\ y.status = "FAILED" /\ y.job = x.job /\ y.stage = x.stage
             /\ y.item = x.item /\ y.target = x.target
             /\ \/ /\ x.job = "PODCAST_TRANSCRIPT" /\ j.cost > 0 /\ y.units = j.cost
                   /\ y.budget = Committed(x.budget) /\ y.reserved = x.reserved
                   /\ y.provider = x.provider
                \/ /\ x.job = "YOUTUBE_TRANSCRIPT" /\ j.cost > 0 /\ y.units = x.units + j.cost
                   /\ y.budget = Committed(x.budget) /\ y.reserved = x.units + j.cost
                   /\ y.provider = j.next
                \/ /\ j.cost = 0 /\ y.units = x.units /\ y.budget = Released(x.budget)
                   /\ y.reserved = x.reserved /\ y.provider = x.provider
<1> DEFINE x == intakeRun[r]
           row == [x EXCEPT !.status = "FAILED", !.outbox = "delivered"]
<1>1. /\ row \in RunRecord /\ row.status = "FAILED" /\ row.job = x.job /\ row.stage = x.stage
      /\ row.item = x.item /\ row.target = x.target /\ row.units = x.units
      /\ row.budget = x.budget /\ row.reserved = x.reserved /\ row.provider = x.provider
  BY DEF RunRecord, IntakeStatus
<1>2. FailedRow(r, j) =
        CASE row.job = "PODCAST_TRANSCRIPT" /\ j.cost > 0 ->
               [row EXCEPT !.units = j.cost, !.budget = Committed(row.budget)]
          [] row.job = "YOUTUBE_TRANSCRIPT" /\ j.cost > 0 ->
               [row EXCEPT !.units = row.units + j.cost, !.provider = j.next,
                           !.budget = Committed(row.budget), !.reserved = intakeRun[r].units + j.cost]
          [] OTHER -> [row EXCEPT !.budget = Released(row.budget)]
  BY DEF FailedRow
<1> HIDE DEF row
<1>3. /\ Committed(x.budget) \in {"none", "RESERVED", "COMMITTED", "RELEASED"}
      /\ Released(x.budget) \in {"none", "RESERVED", "COMMITTED", "RELEASED"}
      /\ x.units \in Nat /\ j.cost \in {0, 1} /\ j.cost \in Nat /\ j.next \in Nat
      /\ x.units + j.cost \in Nat
  BY DEF RunRecord, WorkRecord, Committed, Released
<1>4. CASE x.job = "PODCAST_TRANSCRIPT" /\ j.cost > 0
  <2> DEFINE b == Committed(x.budget)
  <2>1. FailedRow(r, j) = [row EXCEPT !.units = j.cost, !.budget = b]
    BY <1>1, <1>2, <1>4
  <2>2. b \in {"none", "RESERVED", "COMMITTED", "RELEASED"}
    BY <1>3
  <2> HIDE DEF b
  <2> DEFINE y == FailedRow(r, j)
  <2> HIDE DEF y
  <2>3. /\ y \in RunRecord /\ y.status = "FAILED" /\ y.job = row.job /\ y.stage = row.stage
        /\ y.item = row.item /\ y.target = row.target /\ y.units = j.cost /\ y.budget = b
        /\ y.reserved = row.reserved /\ y.provider = row.provider
    BY ZenonT(40), <1>1, <1>3, <2>1, <2>2 DEF RunRecord, y
  <2> QED
    BY <1>1, <1>4, <2>3 DEF b, y
<1>5. CASE x.job = "YOUTUBE_TRANSCRIPT" /\ j.cost > 0
  <2> DEFINE b == Committed(x.budget)
             u == x.units + j.cost
  <2>1. FailedRow(r, j) =
          [row EXCEPT !.units = u, !.provider = j.next, !.budget = b, !.reserved = u]
    BY <1>1, <1>2, <1>5
  <2>2. b \in {"none", "RESERVED", "COMMITTED", "RELEASED"} /\ u \in Nat
    BY <1>3
  <2> HIDE DEF b, u
  <2> DEFINE y == FailedRow(r, j)
  <2> HIDE DEF y
  <2>3. /\ y \in RunRecord /\ y.status = "FAILED" /\ y.job = row.job /\ y.stage = row.stage
        /\ y.item = row.item /\ y.target = row.target /\ y.units = u /\ y.budget = b
        /\ y.reserved = u /\ y.provider = j.next
    BY ZenonT(40), <1>1, <1>3, <2>1, <2>2 DEF RunRecord, y
  <2> QED
    BY <1>1, <1>5, <2>3 DEF b, u, y
<1>6. CASE j.cost = 0
  <2>1. FailedRow(r, j) = [row EXCEPT !.budget = Released(row.budget)]
    BY <1>1, <1>2, <1>6
  <2> QED
    BY <1>1, <1>3, <1>6, <2>1 DEF RunRecord
<1>7. j.cost # 0 => x.job \in Transcript /\ j.cost > 0
  BY <1>3 DEF WorkShape
<1> QED
  BY <1>4, <1>5, <1>6, <1>7 DEF Transcript

LEMMA FailStep ==
  ASSUME IntakeIInv, NEW w \in IntakeWorker, FailRun(w)
  PROVE  IntakeIInv'
<1> DEFINE r == intakeJob[w].run
           j == intakeJob[w]
           fails == IsActive(r) /\ EvidenceFits(r, j)
           y == FailedRow(r, j)
           x == IF fails THEN y ELSE intakeRun[r]
<1>1. /\ j.step = "fail" /\ intakeJob' = [intakeJob EXCEPT ![w] = IdleWorker]
      /\ intakeRun' = IF fails THEN [intakeRun EXCEPT ![r] = y] ELSE intakeRun
      /\ UNCHANGED <<intake, shown, revision, charged, disturbed>>
  BY DEF FailRun
<1>2. /\ r \in Runs /\ intakeRun[r] \in RunRecord /\ j \in WorkRecord
      /\ RunShape(intakeRun[r]) /\ WorkShape(intakeRun[r], j) /\ charged[r] \in Nat
  BY <1>1, WorkerHas
<1>3. /\ y \in RunRecord /\ y.status = "FAILED" /\ y.job = intakeRun[r].job
      /\ y.stage = intakeRun[r].stage /\ y.item = intakeRun[r].item /\ y.target = intakeRun[r].target
      /\ \/ /\ intakeRun[r].job = "PODCAST_TRANSCRIPT" /\ j.cost > 0 /\ y.units = j.cost
            /\ y.budget = Committed(intakeRun[r].budget) /\ y.reserved = intakeRun[r].reserved
            /\ y.provider = intakeRun[r].provider
         \/ /\ intakeRun[r].job = "YOUTUBE_TRANSCRIPT" /\ j.cost > 0
            /\ y.units = intakeRun[r].units + j.cost
            /\ y.budget = Committed(intakeRun[r].budget)
            /\ y.reserved = intakeRun[r].units + j.cost /\ y.provider = j.next
         \/ /\ j.cost = 0 /\ y.units = intakeRun[r].units
            /\ y.budget = Released(intakeRun[r].budget)
            /\ y.reserved = intakeRun[r].reserved /\ y.provider = intakeRun[r].provider
  BY <1>2, FailedRowOf
<1> HIDE DEF y
<1>4. x \in RunRecord /\ SameRun(x, intakeRun[r])
  <2>1. CASE fails
    BY <1>2, <1>3, <2>1 DEF SameRun, Open, IsActive, RunShape, WorkShape
  <2>2. CASE ~fails
    BY <1>2, <2>2, SameAsItself
  <2> QED
    BY <2>1, <2>2
<1>5. intakeRun' = [intakeRun EXCEPT ![r] = x]
  BY <1>1, <1>2, RunItself
<1>6. HeldBooks(intakeRun[r], j, charged[r]) =>
        x.status # "RUNNING" /\ BooksOf(x) /\ charged[r] = x.units
  <2> SUFFICES ASSUME HeldBooks(intakeRun[r], j, charged[r])
               PROVE  x.status # "RUNNING" /\ BooksOf(x) /\ charged[r] = x.units
    OBVIOUS
  <2>1. /\ BooksOf(intakeRun[r]) /\ charged[r] = intakeRun[r].units + j.cost
        /\ intakeRun[r].status = "RUNNING" /\ intakeRun[r].provider = j.provider
        /\ intakeRun[r].job \in Transcript /\ intakeRun[r].provider = 0 =>
              intakeRun[r].budget = "RESERVED"
        /\ intakeRun[r].units \in Nat /\ j.cost \in {0, 1} /\ intakeRun[r].reserved \in Nat
    BY <1>1, <1>2 DEF HeldBooks, RunRecord, WorkRecord
  <2>2. fails
    <3>1. EvidenceFits(r, j)
      <4> SUFFICES ASSUME intakeRun[r].job \in Transcript, j.cost > 0
                   PROVE  IF intakeRun[r].job = "PODCAST_TRANSCRIPT"
                          THEN intakeRun[r].budget = "RESERVED" ELSE Held(r) # 0
        BY <2>1 DEF EvidenceFits, Transcript
      <4>1. CASE intakeRun[r].provider = 0
        BY <2>1, <4>1 DEF BooksOf, Held
      <4>2. CASE intakeRun[r].provider # 0
        BY <1>2, <2>1, <4>2 DEF BooksOf, Held, RunShape
      <4> QED
        BY <4>1, <4>2
    <3> QED
      BY <2>1, <3>1 DEF IsActive
  <2>3. x = y /\ x.status = "FAILED"
    BY <1>3, <2>2
  <2>4. CASE j.cost = 0
    <3>1. /\ y.units = intakeRun[r].units /\ y.budget = Released(intakeRun[r].budget)
          /\ y.reserved = intakeRun[r].reserved /\ y.provider = intakeRun[r].provider
      BY <1>3, <2>4
    <3> QED
      BY <1>3, <2>1, <2>3, <2>4, <3>1 DEF BooksOf, Released
  <2>5. CASE intakeRun[r].job = "PODCAST_TRANSCRIPT" /\ j.cost > 0
    <3>1. /\ y.units = j.cost /\ y.budget = Committed(intakeRun[r].budget)
          /\ y.reserved = intakeRun[r].reserved /\ y.provider = intakeRun[r].provider
      BY <1>3, <2>5
    <3>2. intakeRun[r].provider = 0
      BY <1>2, <2>5 DEF RunShape
    <3>3. intakeRun[r].budget = "RESERVED" /\ intakeRun[r].units = 0 /\ intakeRun[r].reserved = 1
      BY <2>1, <2>5, <3>2 DEF Transcript, BooksOf
    <3>4. y.budget = "COMMITTED" /\ y.units = 1 /\ y.reserved = 1 /\ charged[r] = 1
      BY <2>1, <2>5, <3>1, <3>3 DEF Committed
    <3> QED
      BY <1>3, <2>3, <3>1, <3>2, <3>4 DEF BooksOf
  <2>6. CASE intakeRun[r].job = "YOUTUBE_TRANSCRIPT" /\ j.cost > 0
    <3>1. /\ y.units = intakeRun[r].units + j.cost /\ y.budget = Committed(intakeRun[r].budget)
          /\ y.reserved = intakeRun[r].units + j.cost
      BY <1>3, <2>6
    <3>2. intakeRun[r].budget \in {"RESERVED", "COMMITTED"}
      BY <2>1, <2>6 DEF Transcript, BooksOf
    <3>3. y.budget = "COMMITTED" /\ y.units >= 1
      BY <2>1, <2>6, <3>1, <3>2 DEF Committed
    <3> QED
      BY <1>3, <2>1, <2>3, <2>6, <3>1, <3>3 DEF BooksOf
  <2> QED
    BY <1>3, <2>1, <2>4, <2>5, <2>6
<1> HIDE DEF x, fails
<1>7. WorkerChange(w, r, x, IdleWorker)
  BY <1>1, <1>4, <1>5, <1>6 DEF WorkerChange, BooksGoOn
<1> QED
  BY <1>4, <1>7, IdleIsIdle, WorkerChanges

LEMMA ItemEnriched ==
  ASSUME NEW versions, NEW item \in ItemOf(versions),
         NEW answer \in {"text", "live", "ended", "tooLong", "empty", "unavailable", "refused"}
  PROVE  Enriched(item, answer) \in ItemOf(versions) /\ Enriched(item, answer).version = item.version
BY DEF Enriched, ItemOf, ItemText

\* A worker's result ends its run and opens another.
LEMMA OneRunChangedOneAdded ==
  ASSUME IntakeIInv, NEW r \in Runs, NEW x \in RunRecord, SameRun(x, intakeRun[r]),
         NEW y \in RunRecord, FreshRun(y),
         intakeRun' = Append([intakeRun EXCEPT ![r] = x], y)
  PROVE  /\ RunsMove /\ Len(intakeRun') = Len(intakeRun) + 1 /\ intakeRun'[r] = x
         /\ \A q \in Runs : q # r => intakeRun'[q] = intakeRun[q]
<1> DEFINE s == [intakeRun EXCEPT ![r] = x]
<1>1. intakeRun \in Seq(RunRecord) /\ Runs = 1..Len(intakeRun) /\ Len(intakeRun) \in Nat
  BY IntakeParts DEF Runs
<1>2. /\ s \in Seq(RunRecord) /\ Len(s) = Len(intakeRun)
      /\ \A q \in Runs : s[q] = IF q = r THEN x ELSE intakeRun[q]
  BY <1>1, ExceptSeq
<1> HIDE DEF s
<1>3. /\ intakeRun' \in Seq(RunRecord) /\ Len(intakeRun') = Len(intakeRun) + 1
      /\ \A q \in Runs : intakeRun'[q] = s[q]
      /\ intakeRun'[Len(intakeRun) + 1] = y
  BY <1>1, <1>2 DEF s
<1>4. \A q \in Runs : intakeRun'[q] = IF q = r THEN x ELSE intakeRun[q]
  BY <1>2, <1>3
<1>5. \A q \in Runs : SameRun(intakeRun'[q], intakeRun[q])
  BY <1>4, IntakeParts, SameAsItself
<1>6. Runs' \ Runs = {Len(intakeRun) + 1}
  BY <1>1, <1>3 DEF Runs
<1> QED
  BY <1>1, <1>3, <1>4, <1>5, <1>6 DEF RunsMove

LEMMA PersistStep ==
  ASSUME IntakeIInv, NEW w \in IntakeWorker, PersistResult(w)
  PROVE  IntakeIInv'
<1> DEFINE j == intakeJob[w]
           r == j.run
           item == Enriched(intakeRun[r].item, j.answer)
           writes == j.answer # "unavailable" /\ item # Current
           f == [j EXCEPT !.step = "fail"]
           total == j.units + j.cost
           ended == {"COMPLETED", "CHECKED_NO_CHANGE", "CONTENT_DEFERRED"}
           y(s) == [intakeRun[r] EXCEPT !.status = s, !.outbox = "delivered", !.units = total,
                       !.budget = Committed(intakeRun[r].budget),
                       !.reserved = IF intakeRun[r].budget \in {"RESERVED", "COMMITTED"} THEN total
                                    ELSE intakeRun[r].reserved]
           terminal(s) == [intakeRun EXCEPT ![r].status = s, ![r].outbox = "delivered",
                              ![r].units = total, ![r].budget = Committed(@),
                              ![r].reserved = IF intakeRun[r].budget \in {"RESERVED", "COMMITTED"}
                                              THEN total ELSE @]
           next == NewRun("YOUTUBE_TRANSCRIPT", "NATIVE_FIRST", item, Len(revision) + 1)
<1>1. /\ j.step = "answered" /\ j.answer # "pending"
      /\ UNCHANGED <<intake, shown, disturbed>>
  BY DEF PersistResult
<1>2. /\ r \in Runs /\ intakeRun[r] \in RunRecord /\ j \in WorkRecord
      /\ RunShape(intakeRun[r]) /\ WorkShape(intakeRun[r], j) /\ charged[r] \in Nat
      /\ j # IdleWorker
  BY <1>1, WorkerHas
<1>3. \/ /\ intakeJob' = [intakeJob EXCEPT ![w].step = "fail"]
         /\ UNCHANGED <<revision, intakeRun, charged>>
      \/ /\ intakeRun[r].status = "RUNNING" /\ TargetIsCurrent(r)
         /\ revision' = IF writes THEN Append(revision, item) ELSE revision
         /\ intakeJob' = [intakeJob EXCEPT ![w] = IdleWorker]
         /\ \/ /\ \E s \in ended : intakeRun' = terminal(s)
               /\ charged' = charged
            \/ /\ writes /\ intakeRun' = Append(terminal("COMPLETED"), next)
               /\ charged' = Append(charged, 0)
  BY DEF PersistResult
<1>4. CASE /\ intakeJob' = [intakeJob EXCEPT ![w].step = "fail"]
           /\ UNCHANGED <<revision, intakeRun, charged>>
  <2>1. intakeJob' = [intakeJob EXCEPT ![w] = f]
    BY <1>2, <1>4, IntakeParts DEF WorkRecord
  <2>2. /\ f \in WorkRecord /\ f.run = r /\ f # IdleWorker /\ f.cost = j.cost /\ f.units = j.units
        /\ f.provider = j.provider /\ f.next = j.next /\ f.answer = j.answer /\ f.step = "fail"
    BY <1>2, IdleIsIdle DEF WorkRecord
  <2> HIDE DEF f
  <2>3. WorkShape(intakeRun[r], f)
    BY <1>1, <1>2, <2>2 DEF WorkShape
  <2>4. HeldBooks(intakeRun[r], j, charged[r]) => HeldBooks(intakeRun[r], f, charged[r])
    BY <1>1, <2>2 DEF HeldBooks
  <2>5. WorkerChange(w, r, intakeRun[r], f)
    BY <1>1, <1>2, <1>4, <2>1, <2>2, <2>3, <2>4, RunItself, SameAsItself
       DEF WorkerChange, BooksGoOn
  <2> QED
    BY <1>2, <2>2, <2>5, WorkerChanges
<1>5. CASE /\ intakeRun[r].status = "RUNNING" /\ TargetIsCurrent(r)
           /\ revision' = (IF writes THEN Append(revision, item) ELSE revision)
           /\ intakeJob' = [intakeJob EXCEPT ![w] = IdleWorker]
           /\ \/ /\ \E s \in ended : intakeRun' = terminal(s)
                 /\ charged' = charged
              \/ /\ writes /\ intakeRun' = Append(terminal("COMPLETED"), next)
                 /\ charged' = Append(charged, 0)
  <2>1. /\ item \in ItemOf(intake.versions) /\ item.version = intakeRun[r].item.version
    BY <1>1, <1>2, ItemEnriched DEF RunRecord, WorkRecord, WorkShape
  <2>2. /\ revision # <<>> /\ item.version = shown /\ Len(revision) \in Nat
        /\ revision \in Seq(ItemOf(intake.versions)) /\ Current = revision[Len(revision)]
    <3>1. /\ intakeRun[r].target \in 1..Len(revision) /\ Len(revision) \in Nat
          /\ intakeRun[r].item.version = revision[intakeRun[r].target].version
          /\ revision \in Seq(ItemOf(intake.versions)) /\ NewestDiscoveryKept
      BY <1>2, IntakeParts
    <3>2. intakeRun[r].target = Len(revision)
      BY <1>5 DEF TargetIsCurrent
    <3> HIDE DEF item, r
    <3> QED
      BY <2>1, <3>1, <3>2 DEF NewestDiscoveryKept, Current
  <2> HIDE DEF item
  <2>3. ReceiptMoves /\ (writes => revision' = Append(revision, item) /\ Len(revision') = Len(revision) + 1
                                   /\ revision'[Len(revision) + 1] = item)
    <3>1. CASE writes
      <4>1. /\ revision' \in Seq(ItemOf(intake.versions)) /\ Len(revision') = Len(revision) + 1
            /\ \A i \in 1..Len(revision) : revision'[i] = revision[i]
            /\ revision'[Len(revision) + 1] = item /\ revision' = Append(revision, item)
        <5>1. revision' = Append(revision, item)
          BY <1>5, <3>1
        <5> HIDE DEF writes
        <5> QED
          BY <2>1, <2>2, <5>1
      <4> QED
        BY <1>1, <2>2, <4>1, IntakeParts DEF ReceiptMoves, NewestDiscoveryKept, Current
    <3>2. CASE ~writes
      <4>1. revision' = revision
        BY <1>5, <3>2
      <4> QED
        BY <1>1, <3>2, <4>1, ReceiptStays
    <3> QED
      BY <3>1, <3>2
  <2> HIDE DEF writes
  <2>4. ASSUME NEW s \in ended
        PROVE  /\ y(s) \in RunRecord /\ SameRun(y(s), intakeRun[r]) /\ y(s).status # "RUNNING"
               /\ terminal(s) = [intakeRun EXCEPT ![r] = y(s)]
               /\ HeldBooks(intakeRun[r], j, charged[r]) => BooksOf(y(s)) /\ charged[r] = y(s).units
    <3> DEFINE b == Committed(intakeRun[r].budget)
               v == IF intakeRun[r].budget \in {"RESERVED", "COMMITTED"} THEN total
                    ELSE intakeRun[r].reserved
               x == [intakeRun[r] EXCEPT !.status = s, !.outbox = "delivered", !.units = total,
                        !.budget = b, !.reserved = v]
    <3>1. terminal(s) = [intakeRun EXCEPT ![r] = y(s)] /\ x = y(s)
      BY ZenonT(40), <1>2, IntakeParts DEF RunRecord
    <3>2. /\ b \in {"none", "RESERVED", "COMMITTED", "RELEASED"} /\ total \in Nat /\ v \in Nat
          /\ s \in IntakeStatus /\ s \notin {"PENDING", "RUNNING", "FAILED"}
      BY <1>2 DEF RunRecord, WorkRecord, Committed, IntakeStatus
    <3> HIDE DEF b, v, total, terminal, y, ended
    <3>3. /\ x \in RunRecord /\ x.status = s /\ x.job = intakeRun[r].job
          /\ x.stage = intakeRun[r].stage /\ x.item = intakeRun[r].item
          /\ x.target = intakeRun[r].target /\ x.units = total /\ x.budget = b /\ x.reserved = v
          /\ x.provider = intakeRun[r].provider
      BY <1>2, <3>2 DEF RunRecord
    <3> HIDE DEF x
    <3>4. SameRun(x, intakeRun[r])
      BY <1>2, <3>2, <3>3 DEF SameRun, Open, RunShape
    <3>5. HeldBooks(intakeRun[r], j, charged[r]) => BooksOf(x) /\ charged[r] = x.units
      <4> SUFFICES ASSUME HeldBooks(intakeRun[r], j, charged[r])
                   PROVE  BooksOf(x) /\ charged[r] = x.units
        OBVIOUS
      <4>1. /\ BooksOf(intakeRun[r]) /\ charged[r] = total /\ total = intakeRun[r].units + j.cost
            /\ intakeRun[r].units \in Nat /\ j.cost \in Nat
        BY <1>2 DEF HeldBooks, RunRecord, WorkRecord, total
      <4>2. b # "RESERVED" /\ (b = "COMMITTED" => v = total)
            /\ (intakeRun[r].budget = "COMMITTED" => b = "COMMITTED")
        BY DEF b, v, Committed
      <4> QED
        BY <3>2, <3>3, <4>1, <4>2 DEF BooksOf
    <3> QED
      BY <3>1, <3>2, <3>3, <3>4, <3>5
  <2> DEFINE Booked ==
               /\ \A q \in Runs : q # r => charged'[q] = charged[q]
               /\ \A q \in Runs' \ Runs : charged'[q] = 0
               /\ charged'[r] = charged[r] /\ charged' \in Seq(Nat) /\ Len(charged') = Len(intakeRun')
               /\ RunsMove /\ \A q \in Runs : q # r => intakeRun'[q] = intakeRun[q]
               /\ \E s \in ended : intakeRun'[r] = y(s)
  <2>5. Booked
    <3>1. ASSUME NEW s \in ended, intakeRun' = terminal(s), charged' = charged
          PROVE  Booked
      <4> DEFINE x == y(s)
      <4>1. /\ x \in RunRecord /\ SameRun(x, intakeRun[r]) /\ intakeRun' = [intakeRun EXCEPT ![r] = x]
        BY <2>4, <3>1
      <4> HIDE DEF x
      <4>2. /\ RunsMove /\ Runs' = Runs /\ Len(intakeRun') = Len(intakeRun) /\ intakeRun'[r] = x
            /\ \A q \in Runs : q # r => intakeRun'[q] = intakeRun[q]
        BY <1>2, <4>1, OneRunChanged
      <4> HIDE DEF y, terminal, ended
      <4> QED
        BY <1>2, <3>1, <4>2, ChargeStays DEF x
    <3>2. ASSUME writes, intakeRun' = Append(terminal("COMPLETED"), next),
                 charged' = Append(charged, 0)
          PROVE  Booked
      <4> DEFINE x == y("COMPLETED")
      <4>1. /\ x \in RunRecord /\ SameRun(x, intakeRun[r])
            /\ intakeRun' = Append([intakeRun EXCEPT ![r] = x], next)
        BY <2>4, <3>2
      <4> HIDE DEF x
      <4>2. /\ next \in RunRecord /\ FreshRun(next)
        <5>1. Len(revision) + 1 \in Nat
          BY <2>2
        <5>2. /\ next \in RunRecord /\ next.target = Len(revision) + 1 /\ next.item = item
              /\ next.status = "PENDING" /\ next.budget = "none" /\ next.provider = 0 /\ next.units = 0
              /\ next.job = "PODCAST_TRANSCRIPT" => next.stage = "none"
          BY <2>1, <5>1, NewRunRecord DEF Transcript
        <5> HIDE DEF next
        <5> QED
          BY <2>2, <2>3, <3>2, <5>2 DEF FreshRun
      <4> HIDE DEF next
      <4>3. /\ RunsMove /\ Len(intakeRun') = Len(intakeRun) + 1 /\ intakeRun'[r] = x
            /\ \A q \in Runs : q # r => intakeRun'[q] = intakeRun[q]
        BY <1>2, <4>1, <4>2, OneRunChangedOneAdded
      <4>4. "COMPLETED" \in ended
        OBVIOUS
      <4> HIDE DEF y, terminal, ended
      <4> QED
        BY <1>2, <3>2, <4>3, <4>4, ChargeAdded DEF x
    <3> QED
      BY ZenonT(40), <1>5, <3>1, <3>2
  <2>6. PICK s \in ended : intakeRun'[r] = y(s)
    BY <2>5
  <2> DEFINE x == y(s)
  <2>7. /\ x.status # "RUNNING" /\ intakeRun'[r] = x
        /\ HeldBooks(intakeRun[r], j, charged[r]) => BooksOf(x) /\ charged[r] = x.units
    BY <2>4, <2>6
  <2> HIDE DEF x, y, terminal, ended, next
  <2>8. WorkerMove(w, r, IdleWorker)
    BY <1>1, <1>2, <1>5, <2>5, <2>7 DEF WorkerMove, BooksGoOn
  <2> QED
    BY <2>3, <2>5, <2>8, IdleIsIdle, WorkerMoves
<1> HIDE DEF y, terminal, next, item, writes, f, ended
<1> QED
  BY <1>3, <1>4, <1>5

LEMMA IntakeStandsStill == ASSUME IntakeIInv, UNCHANGED intakeVars PROVE IntakeIInv'
<1> USE DEF intakeVars
<1>1. IntakeTypes'
  BY DEF IntakeIInv, IntakeTypes, Runs, RunRecord
<1>2. Shapes' /\ VersionsMatch' /\ OneOpen'
  BY DEF IntakeIInv, Shapes, VersionsMatch, NewestDiscoveryKept, Current, OneOpen, Runs
<1>3. \A r \in Runs' \ disturbed' : Accounted(r)'
  BY DEF IntakeIInv, Runs, Accounted
<1> QED
  BY <1>1, <1>2, <1>3 DEF IntakeIInv

LEMMA IntakeStarts == IntakeInit => IntakeIInv
<1> SUFFICES ASSUME IntakeInit PROVE IntakeIInv
  OBVIOUS
<1>1. /\ revision = <<>> /\ intakeRun = <<>> /\ charged = <<>> /\ shown = 0 /\ disturbed = {}
      /\ intakeJob = [w \in IntakeWorker |-> IdleWorker] /\ intake \in IntakeCase
  BY DEF IntakeInit
<1>2. Runs = {}
  BY <1>1 DEF Runs
<1>3. intake.versions \in Nat
  BY <1>1, IntakeAssumption
<1>4. IntakeTypes
  BY <1>1, <1>2, <1>3, IdleIsIdle DEF IntakeTypes
<1>5. Shapes /\ VersionsMatch /\ OneOpen
  BY <1>1, <1>2 DEF Shapes, VersionsMatch, NewestDiscoveryKept, OneOpen
<1> QED
  BY <1>2, <1>4, <1>5 DEF IntakeIInv

\* What the invariant of the runs checks follows from the inductive one.
LEMMA IntakeConcludes == IntakeIInv => IntakeInv
<1> SUFFICES ASSUME IntakeIInv PROVE IntakeInv
  OBVIOUS
<1>1. IntakeTypeOK
  <2>1. \A i \in 1..Len(revision) : /\ revision[i].version \in 1..intake.versions
                                    /\ revision[i].text \in {"PENDING", "PROVIDED", "DEFERRED", "FAILED"}
    BY IntakeParts DEF ItemOf, ItemText
  <2>2. \A r \in Runs : /\ intakeRun[r].target \in 1..Len(revision)
                        /\ intakeRun[r].budget \in {"none", "RESERVED", "COMMITTED", "RELEASED"}
                        /\ intakeRun[r].recoveries \in 0..2
    BY IntakeParts DEF RunRecord
  <2>3. DOMAIN charged = Runs /\ disturbed \subseteq Runs /\ shown \in 0..intake.versions
    BY IntakeParts DEF Runs
  <2> QED
    BY <2>1, <2>2, <2>3 DEF IntakeTypeOK
<1>2. UnitsAccounted
  <2> SUFFICES ASSUME NEW r \in Runs \ disturbed
               PROVE  LET held == {w \in IntakeWorker : intakeJob[w].run = r}
                          cost == IF held = {} THEN 0 ELSE intakeJob[CHOOSE w \in held : TRUE].cost
                      IN  /\ charged[r] = intakeRun[r].units + cost
                          /\ ~IsActive(r) => intakeRun[r].budget # "RESERVED"
                          /\ intakeRun[r].budget = "COMMITTED" =>
                                intakeRun[r].reserved = intakeRun[r].units
    BY DEF UnitsAccounted
  <2> DEFINE held == {w \in IntakeWorker : intakeJob[w].run = r}
             cost == IF held = {} THEN 0 ELSE intakeJob[CHOOSE w \in held : TRUE].cost
  <2>1. Accounted(r) /\ intakeRun[r].units \in Nat
    BY IntakeParts DEF IntakeIInv, RunRecord
  <2>2. BooksOf(intakeRun[r])
    BY <2>1 DEF Accounted, HeldBooks
  <2>3. charged[r] = intakeRun[r].units + cost
    <3>1. CASE held = {}
      BY <2>1, <3>1 DEF Accounted
    <3>2. CASE held # {}
      <4>1. PICK w \in IntakeWorker : /\ \A v \in IntakeWorker : intakeJob[v].run = r <=> v = w
                                      /\ HeldBooks(intakeRun[r], intakeJob[w], charged[r])
        BY <2>1, <3>2 DEF Accounted
      <4>2. held = {w}
        BY <4>1
      <4>3. (CHOOSE v \in held : TRUE) = w
        BY <4>2
      <4>4. cost = intakeJob[w].cost
        BY <3>2, <4>3
      <4> QED
        BY <4>1, <4>4 DEF HeldBooks
    <3> QED
      BY <3>1, <3>2
  <2> QED
    BY <2>2, <2>3 DEF BooksOf, IsActive
<1>3. OneProviderJob
  <2> SUFFICES ASSUME NEW r \in Runs, NEW q \in Runs, r # q,
                      intakeRun[r].target = intakeRun[q].target, intakeRun[r].provider # 0,
                      intakeRun[r].status \in {"PENDING", "RUNNING", "FAILED"}
               PROVE  ~IsActive(q) /\ q \notin FailedProviderRuns
    BY DEF OneProviderJob
  <2>1. Open(intakeRun[r])
    BY IntakeParts DEF Open, RunShape
  <2>2. ~Open(intakeRun[q])
    BY <2>1 DEF IntakeIInv, OneOpen
  <2> QED
    BY <2>2 DEF Open, IsActive, FailedProviderRuns, OfJob
<1> QED
  BY <1>1, <1>2, <1>3, IntakeParts DEF IntakeInv

\* However late an article's or a video's text arrives, however often a feed
\* revises the item, a lease runs out, a worker dies or an answer is lost: the
\* receipt shows the newest version (persistAcquisitionResult), every unit a
\* provider charged is in the books of its run (failFormalRun,
\* parkFormalRunForProviderPoll), and no second transcript is ordered while the
\* first may still be asked for (planTriggeredContentWork).
THEOREM IntakeInvHolds == IntakeSpec => []IntakeInv
<1>1. IntakeIInv /\ [IntakeNext]_intakeVars => IntakeIInv'
  <2> SUFFICES ASSUME IntakeIInv, [IntakeNext]_intakeVars PROVE IntakeIInv'
    OBVIOUS
  <2>1. ASSUME NEW v \in 1..intake.versions, PersistPoll(v) PROVE IntakeIInv'
    BY <2>1, PollStep
  <2>2. CASE RecoverProviderPoll
    BY <2>2, RecoverStep
  <2>3. CASE PlanTriggeredWork
    BY <2>3, PlanStep
  <2>4. ASSUME NEW r \in Runs, ReclaimStaleRun(r) PROVE IntakeIInv'
    BY <2>4, ReclaimStep
  <2>5. ASSUME NEW r \in Runs, DispatchJob(r) PROVE IntakeIInv'
    BY <2>5, DispatchStep
  <2>6. ASSUME NEW w \in IntakeWorker, NEW r \in Runs, BeginRun(w, r) PROVE IntakeIInv'
    BY <2>6, BeginStep
  <2>7. ASSUME NEW w \in IntakeWorker, IntakeWorkerStep(w), \A r \in Runs : ~BeginRun(w, r)
        PROVE  IntakeIInv'
    <3>1. CASE ReserveBudget(w)
      BY <3>1, ReserveStep
    <3>2. CASE DeferRun(w)
      BY <3>2, DeferStep
    <3>3. CASE CallProvider(w)
      BY <3>3, CallStep
    <3>4. CASE ParkRun(w)
      BY <3>4, ParkStep
    <3>5. CASE PersistResult(w)
      BY <3>5, PersistStep
    <3>6. CASE FailRun(w)
      BY <3>6, FailStep
    <3>7. CASE IntakeWorkerDies(w)
      BY <3>7, DeathStep
    <3> QED
      BY <2>7, <3>1, <3>2, <3>3, <3>4, <3>5, <3>6, <3>7 DEF IntakeWorkerStep
  <2>8. CASE UNCHANGED intakeVars
    BY <2>8, IntakeStandsStill
  <2> QED
    BY <2>1, <2>2, <2>3, <2>4, <2>5, <2>6, <2>7, <2>8 DEF IntakeNext
<1> QED
  BY <1>1, IntakeStarts, IntakeConcludes, PTL DEF IntakeSpec
=============================================================================
