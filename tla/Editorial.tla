----------------------------- MODULE Editorial -----------------------------
(***************************************************************************)
(* The editorial workflow in front of the week publication.  Editors group *)
(* source receipts into candidates, accept and merge candidates, draft     *)
(* stories, attach evidence to them and mark them ready, and collect ready *)
(* stories in week editions.  An edition that becomes READY is frozen: the *)
(* publisher (WeekPublication) works from the frozen snapshot alone.       *)
(*                                                                         *)
(* A command is one transaction.  Where it reads rows without locking them *)
(* and writes on the strength of that read, the read and the write are two *)
(* steps.  Wording, sections, positions and locales are left out.          *)
(***************************************************************************)
EXTENDS FiniteSets

CONSTANTS
    Candidate, Story, Edition,
    AcqRun,     \* acquisition runs
    Receipt,    \* source receipts
    RunOf,      \* the run of each receipt
    Public      \* receipts whose rights policy allows publication

VARIABLES
    cand,       \* content.candidate_clusters: status and receipts
    story,      \* content.stories: status and evidence
    edition,    \* content.week_editions with their source runs, items and snapshot
    verified,   \* runs that are complete, trace-verified and advanced
    drafting,   \* createDraftStory between its two steps: pairs story, candidate
    adding      \* addWeekEditionItem between its two steps: pairs edition, story

editorialVars == <<cand, story, edition, verified, drafting, adding>>

NoCandidate == [status |-> "absent", receipts |-> {}]
NoStory == [status |-> "absent", evidence |-> {}]
NoEdition == [status |-> "absent", runs |-> {}, items |-> {}, frozen |-> {}, reading |-> {}]

EditionRecord ==
    [status : {"absent", "draft", "freezing", "ready"}, runs : SUBSET AcqRun,
     items : SUBSET Story, frozen : SUBSET (Story \X Receipt), reading : SUBSET Story]

EditorialTypeOK ==
    /\ cand \in [Candidate -> [status : {"absent", "new", "accepted", "merged"},
                               receipts : SUBSET Receipt]]
    /\ story \in [Story -> [status : {"absent", "draft", "ready"}, evidence : SUBSET Receipt]]
    /\ edition \in [Edition -> EditionRecord]
    /\ verified \subseteq AcqRun
    /\ drafting \subseteq Story \X Candidate
    /\ adding \subseteq Edition \X Story

EditorialInit ==
    /\ cand = [c \in Candidate |-> NoCandidate]
    /\ story = [s \in Story |-> NoStory]
    /\ edition = [e \in Edition |-> NoEdition]
    /\ verified = {}
    /\ drafting = {}
    /\ adding = {}

(***************************************************************************)
(* Candidates.                                                             *)
(***************************************************************************)

\* The receipts of a candidate are all of one run.
createCandidateFromReceipts(c, receipts) ==
    /\ cand[c].status = "absent"
    /\ receipts # {} /\ \E a \in AcqRun : \A r \in receipts : RunOf[r] = a
    /\ cand' = [cand EXCEPT ![c] = [status |-> "new", receipts |-> receipts]]
    /\ UNCHANGED <<story, edition, verified, drafting, adding>>

acceptCandidate(c) ==
    /\ cand[c].status \in {"new", "accepted"}
    /\ cand' = [cand EXCEPT ![c].status = "accepted"]
    /\ UNCHANGED <<story, edition, verified, drafting, adding>>

\* What a merge leaves in the target.
MergedReceipts(target, sources) ==
    UNION {cand[c].receipts : c \in sources \cup {target}}

\* Every participant is locked, in the order of IDs, before its status is read.
mergeCandidates(target, sources) ==
    /\ sources # {} /\ target \notin sources
    /\ \A c \in sources \cup {target} : cand[c].status \in {"new", "accepted"}
    /\ cand' = [c \in Candidate |->
                  IF c = target THEN [status |-> "accepted", receipts |-> MergedReceipts(target, sources)]
                  ELSE IF c \in sources THEN [cand[c] EXCEPT !.status = "merged"]
                  ELSE cand[c]]
    /\ UNCHANGED <<story, edition, verified, drafting, adding>>

(***************************************************************************)
(* Stories.                                                                *)
(***************************************************************************)

\* createDraftStory reads the candidate's status without a lock ...
DraftReads(s, c) ==
    /\ story[s].status = "absent" /\ s \notin {d[1] : d \in drafting}
    /\ cand[c].status = "accepted"
    /\ drafting' = drafting \cup {<<s, c>>}
    /\ UNCHANGED <<cand, story, edition, verified, adding>>

\* ... and inserts the story with its localizations.
createDraftStory(s) ==
    \E d \in drafting :
        /\ d[1] = s
        /\ story' = [story EXCEPT ![s].status = "draft"]
        /\ drafting' = drafting \ {d}
        /\ UNCHANGED <<cand, edition, verified, adding>>

\* Evidence may be attached at any time, to a story that is ready too.
attachStoryEvidence(s, receipts) ==
    /\ story[s].status # "absent"
    /\ receipts # {}
    /\ story' = [story EXCEPT ![s].evidence = @ \cup receipts]
    /\ UNCHANGED <<cand, edition, verified, drafting, adding>>

markStoryReady(s) ==
    /\ story[s].status # "absent"
    /\ story[s].evidence # {} /\ story[s].evidence \subseteq Public
    /\ story' = [story EXCEPT ![s].status = "ready"]
    /\ UNCHANGED <<cand, edition, verified, drafting, adding>>

(***************************************************************************)
(* Week editions.                                                          *)
(***************************************************************************)
createWeekEdition(e, runs) ==
    /\ edition[e].status = "absent"
    /\ runs # {}
    /\ edition' = [edition EXCEPT ![e] = [NoEdition EXCEPT !.status = "draft", !.runs = runs]]
    /\ UNCHANGED <<cand, story, verified, drafting, adding>>

\* addWeekEditionItem reads the edition and the story without a lock, whatever
\* the edition's status ...
AddReads(e, s) ==
    /\ edition[e].status # "absent" /\ story[s].status = "ready"
    /\ <<e, s>> \notin adding
    /\ adding' = adding \cup {<<e, s>>}
    /\ UNCHANGED <<cand, story, edition, verified, drafting>>

\* ... and inserts the item; its foreign key waits for a freezing transaction.
addWeekEditionItem(e, s) ==
    /\ <<e, s>> \in adding /\ edition[e].status # "freezing"
    /\ edition' = [edition EXCEPT ![e] = [@ EXCEPT !.items = edition[e].items \cup {s}]]
    /\ adding' = adding \ {<<e, s>>}
    /\ UNCHANGED <<cand, story, verified, drafting>>

\* markWeekEditionReady: the edition and its runs are locked and checked, the
\* items and the states of their stories are read ...
FreezeReads(e) ==
    /\ edition[e].status = "draft"
    /\ edition[e].runs \subseteq verified
    /\ \A s \in edition[e].items : story[s].status = "ready"
    /\ edition' = [edition EXCEPT ![e] =
                     [@ EXCEPT !.status = "freezing", !.reading = edition[e].items]]
    /\ UNCHANGED <<cand, story, verified, drafting, adding>>

\* Is the evidence read for the snapshot publishable?
RightsWereChecked(e, s) ==
    story[s].evidence # {} /\ \A r \in story[s].evidence : RunOf[r] \in edition[e].runs
EvidenceCleared(e, s) ==
    /\ story[s].evidence # {}
    /\ \A r \in story[s].evidence : RunOf[r] \in edition[e].runs /\ r \in Public

\* ... then the evidence, which is checked again and frozen with the items.
markWeekEditionReady(e) ==
    /\ edition[e].status = "freezing"
    /\ \A s \in edition[e].reading : EvidenceCleared(e, s)
    /\ edition' = [edition EXCEPT ![e] =
          [@ EXCEPT !.status = "ready", !.reading = {},
             !.frozen = {f \in edition[e].reading \X Receipt : f[2] \in story[f[1]].evidence}]]
    /\ UNCHANGED <<cand, story, verified, drafting, adding>>

\* The check fails and the transaction is rolled back.
FreezeRefused(e) ==
    /\ edition[e].status = "freezing"
    /\ \E s \in edition[e].reading : ~EvidenceCleared(e, s)
    /\ edition' = [edition EXCEPT ![e] = [@ EXCEPT !.status = "draft", !.reading = {}]]
    /\ UNCHANGED <<cand, story, verified, drafting, adding>>

\* An acquisition run ends, traced and with its checkpoint advanced.
RunVerified(a) ==
    /\ a \notin verified
    /\ verified' = verified \cup {a}
    /\ UNCHANGED <<cand, story, edition, drafting, adding>>

EditorialNext ==
    \/ \E c \in Candidate : \/ \E R \in SUBSET Receipt : createCandidateFromReceipts(c, R)
                            \/ acceptCandidate(c)
                            \/ \E S \in SUBSET Candidate : mergeCandidates(c, S)
    \/ \E s \in Story : \/ \E c \in Candidate : DraftReads(s, c)
                        \/ createDraftStory(s) \/ markStoryReady(s)
                        \/ \E R \in SUBSET Receipt : attachStoryEvidence(s, R)
    \/ \E e \in Edition : \/ \E A \in SUBSET AcqRun : createWeekEdition(e, A)
                          \/ \E s \in Story : AddReads(e, s) \/ addWeekEditionItem(e, s)
                          \/ FreezeReads(e) \/ markWeekEditionReady(e) \/ FreezeRefused(e)
    \/ \E a \in AcqRun : RunVerified(a)

EditorialSpec == EditorialInit /\ [][EditorialNext]_editorialVars

(***************************************************************************)
(* Properties.                                                             *)
(***************************************************************************)

\* Whatever is attached to stories after they were marked ready, and whenever
\* items are added, a frozen edition holds only evidence with public rights,
\* from verified runs of that edition (markWeekEditionReady's second check).
FrozenIsCleared ==
    \A e \in Edition : \A f \in edition[e].frozen :
        f[2] \in Public /\ RunOf[f[2]] \in edition[e].runs \cap verified

\* Merging loses no receipt: what any candidate has held, a candidate that was
\* not merged away holds, whatever merges overlap (mergeCandidates' locks).
MergeKeepsReceipts ==
    \A c \in Candidate : \A r \in cand[c].receipts :
        \E d \in Candidate : cand[d].status # "merged" /\ r \in cand[d].receipts

\* The editorial invariant: types, cleared evidence, no receipt lost.
EditorialInv == EditorialTypeOK /\ FrozenIsCleared /\ MergeKeepsReceipts
=============================================================================
