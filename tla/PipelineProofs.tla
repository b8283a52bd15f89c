----------------------------- MODULE PipelineProofs -----------------------------
(***************************************************************************)
(* Proofs about the pipelines of jobs that end in one publication.  My FPL *)
(* snapshots: the refresh barrier in front of a capture, for every forest  *)
(* of refresh jobs and any number of phases; and the publication, for any  *)
(* number of captures, dispatchers and revisions.  The Understat lanes:    *)
(* discovery, details and finalizer beside the failure listener, for any   *)
(* runs, resources, commands, attempts and faults.                         *)
(***************************************************************************)
EXTENDS MyFplRefresh, MyFplSnapshot, Understat, FiniteSetTheorems, TLAPS

(***************************************************************************)
(* The refresh barrier.                                                    *)
(***************************************************************************)

\* What a job knows of its children: once it is done it has tracked all of
\* them, and a child between its queue and its set belongs to a running job
\* that has not counted it.
JobOf(j) ==
    /\ kids[j] \subseteq Children(j)
    /\ job[j] = "done" => kids[j] = Children(j)
    /\ j \in beingAdded =>
         IF ParentOf[j] = NoParent
         THEN coord.step = "enqueue" /\ PhaseOf[j] = coord.phase /\ j \notin tracked
         ELSE job[ParentOf[j]] = "queued" /\ j \notin kids[ParentOf[j]]

\* What the phase of the coordinator says of a job: earlier phases are done,
\* later ones untouched, and the children of the present one are in the set.
PhaseOfJob(j) ==
    /\ PhaseOf[j] < coord.phase \/ coord.step = "capture" => job[j] = "done"
    /\ PhaseOf[j] > coord.phase => job[j] = "none" /\ kids[j] = {} /\ j \notin beingAdded
    /\ PhaseOf[j] = coord.phase /\ coord.step # "capture" => kids[j] \subseteq tracked
    /\ j \in tracked => PhaseOf[j] = coord.phase
    /\ j \in coord.completed => job[j] = "done"

RootsTracked ==
    coord.step \in {"list", "wait", "reread"} => Roots(coord.phase) \subseteq tracked

\* The inductive invariant behind RefreshInv.
RefreshIInv ==
    /\ RefreshTypeOK
    /\ \A j \in RefreshJob : JobOf(j) /\ PhaseOfJob(j)
    /\ RootsTracked

\* Phases is the last phase.
LEMMA LastPhase ==
  /\ Phases \in Nat \ {0}
  /\ \A j \in RefreshJob : PhaseOf[j] \in 1..Phases
<1> DEFINE Nums == {PhaseOf[j] : j \in RefreshJob}
<1>1. PICK last \in RefreshJob : \A j \in RefreshJob : PhaseOf[j] <= PhaseOf[last]
  BY RefreshAssumption
<1>2. \E n \in Nums : \A j \in RefreshJob : PhaseOf[j] <= n
  BY <1>1
<1>3. Phases \in Nums /\ \A j \in RefreshJob : PhaseOf[j] <= Phases
  BY <1>2 DEF Phases
<1>4. \A j \in RefreshJob : PhaseOf[j] \in Nat \ {0}
  BY RefreshAssumption
<1> QED
  BY <1>3, <1>4

\* The set that settles a phase holds all its jobs: it has the roots and, with
\* every done job, its children.
LEMMA SettledPhase ==
  ASSUME RefreshIInv, coord.step = "reread", tracked \subseteq coord.completed
  PROVE  /\ \A j \in RefreshJob : PhaseOf[j] <= coord.phase => job[j] = "done"
         /\ beingAdded = {}
<1> USE DEF RefreshIInv
<1> DEFINE S == {j \in RefreshJob : PhaseOf[j] = coord.phase => j \in tracked}
<1>1. ASSUME NEW j \in tracked PROVE job[j] = "done" /\ kids[j] = Children(j)
  BY <1>1 DEF RefreshTypeOK, JobOf, PhaseOfJob
<1>2. ASSUME NEW j \in RefreshJob, ParentOf[j] \in S \cup {NoParent}, PhaseOf[j] = coord.phase
      PROVE  j \in tracked
  <2>1. CASE ParentOf[j] = NoParent
    BY <1>2, <2>1 DEF RootsTracked, Roots
  <2>2. CASE ParentOf[j] # NoParent
    <3>1. /\ ParentOf[j] \in RefreshJob /\ PhaseOf[ParentOf[j]] = coord.phase
          /\ ParentOf[j] \in tracked
      BY <1>2, <2>2, RefreshAssumption
    <3>2. j \in kids[ParentOf[j]]
      BY <1>1, <3>1 DEF Children
    <3> QED
      BY <3>1, <3>2 DEF PhaseOfJob
  <2> QED
    BY <2>1, <2>2
<1>3. S = RefreshJob
  <2>1. \A j \in RefreshJob : ParentOf[j] \in S \cup {NoParent} => j \in S
    BY <1>2
  <2>2. S \in SUBSET RefreshJob
    OBVIOUS
  <2> HIDE DEF S
  <2> QED
    BY <2>1, <2>2, RefreshAssumption
<1>4. ASSUME NEW j \in RefreshJob, PhaseOf[j] <= coord.phase PROVE job[j] = "done"
  <2>1. CASE PhaseOf[j] = coord.phase
    BY <1>1, <1>3, <2>1
  <2>2. CASE PhaseOf[j] # coord.phase
    <3>1. PhaseOf[j] < coord.phase
      BY <1>4, <2>2, RefreshAssumption, LastPhase DEF RefreshTypeOK
    <3> QED
      BY <3>1 DEF PhaseOfJob
  <2> QED
    BY <2>1, <2>2
<1>5. ASSUME NEW j \in beingAdded PROVE FALSE
  <2>1. j \in RefreshJob /\ JobOf(j) /\ PhaseOfJob(j)
    BY <1>5 DEF RefreshTypeOK
  <2>2. ParentOf[j] # NoParent /\ ParentOf[j] \in RefreshJob
        /\ PhaseOf[ParentOf[j]] = PhaseOf[j] /\ job[ParentOf[j]] = "queued"
    BY <1>5, <2>1, RefreshAssumption DEF JobOf
  <2>3. PhaseOf[j] \in Nat /\ coord.phase \in Nat /\ ~(PhaseOf[j] > coord.phase)
    BY <1>5, <2>1, RefreshAssumption, LastPhase DEF RefreshTypeOK, PhaseOfJob
  <2> QED
    BY <1>4, <2>2, <2>3
<1> QED
  BY <1>4, <1>5

\* Every step keeps the types.
LEMMA RefreshTypeNext == RefreshTypeOK /\ [RefreshNext]_refreshVars => RefreshTypeOK'
<1> SUFFICES ASSUME RefreshTypeOK, [RefreshNext]_refreshVars PROVE RefreshTypeOK'
  OBVIOUS
<1> USE RefreshAssumption, LastPhase DEF RefreshTypeOK
<1>1. ASSUME NEW j \in RefreshJob, trackMyFplRefreshJob(j) PROVE RefreshTypeOK'
  BY <1>1 DEF trackMyFplRefreshJob
<1>2. ASSUME NEW j \in RefreshJob, EnqueueRoot(j) PROVE RefreshTypeOK'
  BY <1>2 DEF EnqueueRoot, QueueAdd
<1>3. ASSUME NEW j \in RefreshJob, NEW c \in RefreshJob, EnqueueChild(j, c) PROVE RefreshTypeOK'
  BY <1>3 DEF EnqueueChild, QueueAdd
<1>4. ASSUME NEW j \in RefreshJob, CompleteJob(j) PROVE RefreshTypeOK'
  BY <1>4 DEF CompleteJob
<1>5. ASSUME NEW j \in RefreshJob, RefreshWorkerDies(j) PROVE RefreshTypeOK'
  BY <1>5 DEF RefreshWorkerDies, RefreshFault
<1>6. ASSUME NEW j \in RefreshJob, ObserveJob(j) PROVE RefreshTypeOK'
  BY <1>6 DEF ObserveJob
<1>7. CASE PhaseEnqueued \/ listMyFplRefreshJobs \/ AllReferencesCompleted
  <2>1. CASE PhaseEnqueued
    BY <2>1 DEF PhaseEnqueued
  <2>2. CASE listMyFplRefreshJobs
    BY <2>2 DEF listMyFplRefreshJobs
  <2>3. CASE AllReferencesCompleted
    BY <2>3 DEF AllReferencesCompleted
  <2> QED
    BY <1>7, <2>1, <2>2, <2>3
<1>8. CASE waitForMyFplRefreshJobs
  <2>1. CASE SettledBy(tracked)
    <3>1. coord.phase \in 1..Phases /\ (coord.phase # Phases => coord.phase + 1 \in 1..Phases)
          /\ Phases \in 1..Phases
      OBVIOUS
    <3>2. CASE coord.phase = Phases
      <4>1. coord' = [phase |-> Phases, step |-> "capture", refs |-> {}, completed |-> {}]
        BY <1>8, <2>1, <3>2 DEF waitForMyFplRefreshJobs, CapturePhase
      <4> QED
        BY <1>8, <2>1, <3>1, <4>1 DEF waitForMyFplRefreshJobs
    <3>3. CASE coord.phase # Phases
      <4>1. coord' = [phase |-> coord.phase + 1, step |-> "enqueue", refs |-> {}, completed |-> {}]
        BY <1>8, <2>1, <3>3 DEF waitForMyFplRefreshJobs, FirstPhase
      <4> QED
        BY <1>8, <2>1, <3>1, <3>3, <4>1 DEF waitForMyFplRefreshJobs
    <3> QED
      BY <3>2, <3>3
  <2>2. CASE ~SettledBy(tracked)
    BY <1>8, <2>2 DEF waitForMyFplRefreshJobs
  <2> QED
    BY <2>1, <2>2
<1>9. CASE RefreshAttemptFails
  BY <1>9 DEF RefreshAttemptFails, RefreshFault, FirstPhase
<1>10. CASE UNCHANGED refreshVars
  BY <1>10 DEF refreshVars
<1> QED
  BY <1>1, <1>2, <1>3, <1>4, <1>5, <1>6, <1>7, <1>8, <1>9, <1>10 DEF RefreshNext

\* Every step keeps jobs and phases in order.
LEMMA RefreshStep == RefreshIInv /\ [RefreshNext]_refreshVars => RefreshIInv'
<1> SUFFICES ASSUME RefreshIInv, [RefreshNext]_refreshVars PROVE RefreshIInv'
  OBVIOUS
<1> USE DEF RefreshIInv
<1>0. RefreshTypeOK'
  BY RefreshTypeNext
<1>a. /\ coord.phase \in Nat
      /\ \A j \in RefreshJob : /\ PhaseOf[j] \in Nat
                               /\ ParentOf[j] # NoParent =>
                                    ParentOf[j] \in RefreshJob /\ PhaseOf[ParentOf[j]] = PhaseOf[j]
  BY RefreshAssumption, LastPhase DEF RefreshTypeOK
<1>1. ASSUME NEW j \in RefreshJob, trackMyFplRefreshJob(j) PROVE RefreshIInv'
  <2>1. /\ j \in beingAdded /\ beingAdded' = beingAdded \ {j} /\ tracked' = tracked \cup {j}
        /\ UNCHANGED <<job, coord, refreshFaults>>
    BY <1>1 DEF trackMyFplRefreshJob
  <2>2. \A i \in RefreshJob :
          kids'[i] = IF ParentOf[j] # NoParent /\ i = ParentOf[j] THEN kids[i] \cup {j} ELSE kids[i]
    BY <1>1 DEF RefreshTypeOK, trackMyFplRefreshJob
  <2>3. PhaseOf[j] = coord.phase
    <3>1. CASE ParentOf[j] = NoParent
      BY <2>1, <3>1 DEF JobOf
    <3>2. CASE ParentOf[j] # NoParent
      <4>1. job[ParentOf[j]] = "queued"
        BY <2>1, <3>2 DEF JobOf
      <4> QED
        BY <1>a, <3>2, <4>1 DEF PhaseOfJob
    <3> QED
      BY <3>1, <3>2
  <2>4. ASSUME NEW i \in RefreshJob PROVE JobOf(i)'
    <3>1. kids'[i] \subseteq Children(i) /\ kids[i] \subseteq kids'[i]
      <4>1. kids[i] \subseteq Children(i)
        BY DEF JobOf
      <4>2. i = ParentOf[j] => j \in Children(i)
        BY DEF Children
      <4> QED
        BY <2>2, <4>1, <4>2
    <3>2. job'[i] = "done" => kids'[i] = Children(i)
      BY <2>1, <3>1 DEF JobOf
    <3>3. ASSUME i \in beingAdded'
          PROVE  IF ParentOf[i] = NoParent
                 THEN coord'.step = "enqueue" /\ PhaseOf[i] = coord'.phase /\ i \notin tracked'
                 ELSE job'[ParentOf[i]] = "queued" /\ i \notin kids'[ParentOf[i]]
      BY <1>a, <2>1, <2>2, <3>3 DEF JobOf
    <3> QED
      BY <3>1, <3>2, <3>3 DEF JobOf, Children
  <2>5. ASSUME NEW i \in RefreshJob PROVE PhaseOfJob(i)'
    <3>1. PhaseOf[i] > coord.phase => kids'[i] = {}
      BY <1>a, <2>2, <2>3 DEF PhaseOfJob
    <3> QED
      BY <1>a, <2>1, <2>2, <2>3, <3>1 DEF PhaseOfJob
  <2>6. RootsTracked'
    BY <2>1 DEF RootsTracked, Roots
  <2> QED
    BY <1>0, <2>4, <2>5, <2>6
\* Adding a job to its queue changes nothing else.
<1>2. ASSUME NEW j \in RefreshJob, QueueAdd(j), UNCHANGED <<kids, tracked, coord>>,
             PhaseOf[j] = coord.phase, coord.step # "capture",
             IF ParentOf[j] = NoParent
             THEN coord.step = "enqueue" /\ j \notin tracked
             ELSE job[ParentOf[j]] = "queued" /\ j \notin kids[ParentOf[j]]
      PROVE  RefreshIInv'
  <2>1. /\ beingAdded' = beingAdded \cup {j}
        /\ \A i \in RefreshJob : job'[i] = job[i] \/ (i = j /\ job[i] = "none" /\ job'[i] = "queued")
    BY <1>2 DEF RefreshTypeOK, QueueAdd
  <2>2. ASSUME NEW i \in RefreshJob PROVE JobOf(i)'
    <3>1. CASE i \in beingAdded'
      BY <1>a, <1>2, <2>1, <3>1 DEF JobOf, Children
    <3>2. CASE i \notin beingAdded'
      BY <1>2, <2>1, <3>2 DEF JobOf, Children
    <3> QED
      BY <3>1, <3>2
  <2>3. ASSUME NEW i \in RefreshJob PROVE PhaseOfJob(i)'
    BY <1>a, <1>2, <2>1 DEF PhaseOfJob
  <2>4. RootsTracked'
    BY <1>2 DEF RootsTracked, Roots
  <2> QED
    BY <1>0, <2>2, <2>3, <2>4
<1>3. ASSUME NEW j \in RefreshJob, EnqueueRoot(j) PROVE RefreshIInv'
  BY <1>2, <1>3 DEF EnqueueRoot, Roots
<1>4. ASSUME NEW j \in RefreshJob, NEW c \in RefreshJob, EnqueueChild(j, c) PROVE RefreshIInv'
  <2>1. ParentOf[c] = j /\ j # NoParent /\ job[j] = "queued"
    BY <1>4, RefreshAssumption DEF EnqueueChild, Children
  <2>2. PhaseOf[c] = coord.phase /\ coord.step # "capture"
    BY <1>a, <2>1 DEF PhaseOfJob
  <2> QED
    BY <1>2, <1>4, <2>1, <2>2 DEF EnqueueChild, Children
<1>5. ASSUME NEW j \in RefreshJob, CompleteJob(j) PROVE RefreshIInv'
  <2>1. /\ job[j] = "queued" /\ kids[j] = Children(j) /\ job'[j] = "done"
        /\ \A i \in RefreshJob \ {j} : job'[i] = job[i]
        /\ UNCHANGED <<kids, beingAdded, tracked, coord>>
    BY <1>5 DEF RefreshTypeOK, CompleteJob, MayResolve
  <2>2. ASSUME NEW i \in RefreshJob PROVE JobOf(i)'
    <3>1. i \in beingAdded => ParentOf[i] # j
      BY <2>1, RefreshAssumption DEF JobOf, Children
    <3> QED
      BY <1>a, <2>1, <3>1 DEF JobOf, Children
  <2>3. ASSUME NEW i \in RefreshJob PROVE PhaseOfJob(i)'
    BY <2>1 DEF PhaseOfJob
  <2>4. RootsTracked'
    BY <2>1 DEF RootsTracked, Roots
  <2> QED
    BY <1>0, <2>2, <2>3, <2>4
<1>6. ASSUME NEW j \in RefreshJob, RefreshWorkerDies(j) PROVE RefreshIInv'
  <2>1. /\ job[j] = "queued" /\ job'[j] \in {"queued", "failed"}
        /\ \A i \in RefreshJob \ {j} : job'[i] = job[i] /\ kids'[i] = kids[i]
        /\ kids'[j] = {} /\ beingAdded' = beingAdded \ Children(j)
        /\ UNCHANGED <<tracked, coord>>
    BY <1>6 DEF RefreshTypeOK, RefreshWorkerDies
  <2>2. ASSUME NEW i \in RefreshJob PROVE JobOf(i)'
    <3>1. i \in beingAdded' => i \in beingAdded /\ ParentOf[i] # j
      BY <2>1 DEF Children
    <3> QED
      BY <1>a, <2>1, <3>1 DEF JobOf, Children
  <2>3. ASSUME NEW i \in RefreshJob PROVE PhaseOfJob(i)'
    BY <2>1 DEF PhaseOfJob
  <2>4. RootsTracked'
    BY <2>1 DEF RootsTracked, Roots
  <2> QED
    BY <1>0, <2>2, <2>3, <2>4
\* The coordinator's own steps within a phase.
<1>7. ASSUME UNCHANGED <<job, kids, beingAdded, tracked>>, coord'.phase = coord.phase,
             coord.step # "capture", coord'.step # "capture",
             coord.step = "enqueue" =>
                \/ coord'.step = "enqueue"
                \/ Roots(coord.phase) \subseteq tracked,
             coord'.step = "enqueue" => coord.step = "enqueue",
             \A i \in coord'.completed : job[i] = "done"
      PROVE  RefreshIInv'
  <2>1. ASSUME NEW i \in RefreshJob PROVE JobOf(i)'
    <3>1. CASE ParentOf[i] = NoParent
      BY <1>7, <3>1 DEF JobOf, Children, Roots
    <3>2. CASE ParentOf[i] # NoParent
      BY <1>7, <3>2 DEF JobOf, Children
    <3> QED
      BY <3>1, <3>2
  <2>2. ASSUME NEW i \in RefreshJob PROVE PhaseOfJob(i)'
    BY <1>7 DEF PhaseOfJob
  <2>3. RootsTracked'
    BY <1>7 DEF RootsTracked, Roots, RefreshTypeOK
  <2> QED
    BY <1>0, <2>1, <2>2, <2>3
<1>8. ASSUME NEW j \in RefreshJob, ObserveJob(j) PROVE RefreshIInv'
  <2>1. /\ coord'.phase = coord.phase /\ coord.step = "wait" /\ coord'.step = "wait"
        /\ coord'.completed = coord.completed \cup {j} /\ job[j] = "done"
        /\ UNCHANGED <<job, kids, beingAdded, tracked>>
    BY <1>8 DEF RefreshTypeOK, ObserveJob
  <2>2. \A i \in coord'.completed : job[i] = "done"
    BY <2>1 DEF RefreshTypeOK, PhaseOfJob
  <2> QED
    BY <1>7, <2>1, <2>2
<1>9. CASE PhaseEnqueued \/ listMyFplRefreshJobs \/ AllReferencesCompleted
  <2>1. /\ coord'.phase = coord.phase /\ coord'.completed = coord.completed
        /\ coord.step # "capture" /\ coord'.step \in {"list", "wait", "reread"}
        /\ coord.step = "enqueue" => Roots(coord.phase) \subseteq tracked
        /\ UNCHANGED <<job, kids, beingAdded, tracked>>
    BY <1>9 DEF RefreshTypeOK, PhaseEnqueued, listMyFplRefreshJobs, AllReferencesCompleted
  <2>2. \A i \in coord'.completed : job[i] = "done"
    BY <2>1 DEF RefreshTypeOK, PhaseOfJob
  <2> QED
    BY <1>7, <2>1, <2>2
<1>10. CASE waitForMyFplRefreshJobs /\ SettledBy(tracked)
  <2>1. /\ \A j \in RefreshJob : PhaseOf[j] <= coord.phase => job[j] = "done"
        /\ beingAdded = {}
    BY <1>10, SettledPhase DEF waitForMyFplRefreshJobs, SettledBy
  <2>2. /\ tracked' = {} /\ coord'.completed = {}
        /\ UNCHANGED <<job, kids, beingAdded>>
        /\ \/ coord.phase = Phases /\ coord'.phase = Phases /\ coord'.step = "capture"
           \/ coord'.phase = coord.phase + 1 /\ coord'.step = "enqueue"
    BY <1>10 DEF waitForMyFplRefreshJobs, FirstPhase, CapturePhase
  <2>3. ASSUME NEW i \in RefreshJob PROVE JobOf(i)'
    BY <2>1, <2>2 DEF JobOf, Children
  <2>4. ASSUME NEW i \in RefreshJob PROVE PhaseOfJob(i)'
    <3>1. CASE coord'.step = "capture"
      <4>1. PhaseOf[i] <= coord.phase /\ coord'.phase = coord.phase
        BY <1>a, <2>2, <3>1, LastPhase
      <4> QED
        BY <1>a, <2>1, <2>2, <3>1, <4>1 DEF PhaseOfJob
    <3>2. CASE coord'.step = "enqueue"
      <4>1. coord'.phase = coord.phase + 1
        BY <2>2, <3>2
      <4>2. PhaseOf[i] < coord'.phase => job'[i] = "done"
        BY <1>a, <2>1, <2>2, <4>1
      <4>3. PhaseOf[i] >= coord'.phase => job'[i] = "none" /\ kids'[i] = {}
        BY <1>a, <2>2, <4>1 DEF PhaseOfJob
      <4> QED
        BY <1>a, <2>1, <2>2, <3>2, <4>1, <4>2, <4>3 DEF PhaseOfJob
    <3> QED
      BY <2>2, <3>1, <3>2
  <2>5. RootsTracked'
    BY <2>2 DEF RootsTracked
  <2> QED
    BY <1>0, <2>3, <2>4, <2>5
<1>11. CASE waitForMyFplRefreshJobs /\ ~SettledBy(tracked)
  <2>1. /\ coord'.phase = coord.phase /\ coord'.completed = coord.completed
        /\ coord.step = "reread" /\ coord'.step = "list"
        /\ UNCHANGED <<job, kids, beingAdded, tracked>>
    BY <1>11 DEF RefreshTypeOK, waitForMyFplRefreshJobs
  <2>2. \A i \in coord'.completed : job[i] = "done"
    BY <2>1 DEF RefreshTypeOK, PhaseOfJob
  <2> QED
    BY <1>7, <2>1, <2>2
<1>12. CASE RefreshAttemptFails
  <2>1. /\ coord' = FirstPhase /\ beingAdded' = {} /\ tracked' = {}
        /\ \A i \in RefreshJob : job'[i] = "none" /\ kids'[i] = {}
    BY <1>12 DEF RefreshAttemptFails
  <2>2. \A i \in RefreshJob : PhaseOf[i] >= 1
    BY LastPhase
  <2> QED
    BY <1>0, <1>a, <2>1, <2>2 DEF JobOf, PhaseOfJob, RootsTracked, FirstPhase
<1>13. CASE UNCHANGED refreshVars
  BY <1>0, <1>13 DEF refreshVars, JobOf, PhaseOfJob, RootsTracked, Children, Roots
<1> QED
  BY <1>1, <1>3, <1>4, <1>5, <1>6, <1>8, <1>9, <1>10, <1>11, <1>12, <1>13 DEF RefreshNext

\* RefreshInv for every forest of refresh jobs: whenever a job is tracked, dies
\* or is retried, no later phase begins and no snapshot is captured before
\* every descendant of the earlier phases is done.
THEOREM RefreshInvHolds == RefreshSpec => []RefreshInv
<1>1. RefreshInit => RefreshIInv
  <2> SUFFICES ASSUME RefreshInit PROVE RefreshIInv
    OBVIOUS
  <2>1. RefreshTypeOK
    BY RefreshAssumption, LastPhase DEF RefreshInit, RefreshTypeOK, FirstPhase
  <2>2. \A i \in RefreshJob : PhaseOf[i] \in Nat /\ PhaseOf[i] >= 1
    BY LastPhase
  <2> QED
    BY <2>1, <2>2 DEF RefreshInit, RefreshIInv, JobOf, PhaseOfJob, RootsTracked, FirstPhase
<1>2. RefreshIInv => RefreshInv
  <2> SUFFICES ASSUME RefreshIInv, NEW i \in RefreshJob, NEW j \in RefreshJob,
                      PhaseOf[i] < PhaseOf[j], job[j] # "none"
               PROVE  job[i] = "done"
    BY DEF RefreshIInv, RefreshInv, PhasesInOrder, PhaseOfJob
  <2>1. PhaseOf[i] \in Nat /\ PhaseOf[j] \in Nat /\ coord.phase \in Nat
    BY LastPhase DEF RefreshIInv, RefreshTypeOK
  <2>2. PhaseOf[i] < coord.phase
    BY <2>1 DEF RefreshIInv, PhaseOfJob
  <2> QED
    BY <2>2 DEF RefreshIInv, PhaseOfJob
<1> QED
  BY <1>1, <1>2, RefreshStep, PTL DEF RefreshSpec

(***************************************************************************)
(* The publication of snapshots.                                           *)
(***************************************************************************)

\* The types of the transactions: a capture that is under way, a dispatcher
\* with a claim, and the steps of a deletion.
CaptureRecord ==
    [step: {"waiting", "holding", "inserted"}, req: Request, sawRev: 0..MaxSnapRevision,
     saw: {NoPublication} \cup Publication, sawTournament: BOOLEAN, rev: 0..MaxSnapRevision]
DispatchRecord == [step: {"claimed", "activated"}, rev: SnapRevision]
DeleterRecord ==
    [step: {"idle", "done"}] \cup [step: {"rowLocked", "advisory"}, found: BOOLEAN]
    \cup [step: {"invalidate"}, revs: SUBSET SnapRevision]
OutboxRecord == [status: {"PENDING", "PROCESSING", "DELIVERED", "SUPERSEDED"},
                 owner: SnapDispatcher \cup {"none"}]

SnapTypes ==
    /\ pub \in [SnapRevision -> {NoPublication} \cup Publication]
    /\ outbox \in [SnapRevision -> {NoOutbox} \cup OutboxRecord]
    /\ lastRev \in 0..MaxSnapRevision
    /\ manifest \in 0..MaxSnapRevision
    /\ tournament \in BOOLEAN
    /\ cap \in [Capturer -> {IdleCapture} \cup CaptureRecord]
    /\ disp \in [SnapDispatcher -> {IdleDispatch} \cup DispatchRecord]
    /\ deleter \in DeleterRecord
    /\ snapFaults \in 0..MaxSnapFaults

LEMMA SnapTypesSuffice == SnapTypes => SnapTypeOK
<1> SUFFICES ASSUME SnapTypes PROVE SnapTypeOK
  OBVIOUS
<1>1. \A c \in Capturer : cap[c].step \in {"idle", "waiting", "holding", "inserted"}
  BY DEF SnapTypes, CaptureRecord, IdleCapture
<1>2. \A d \in SnapDispatcher : disp[d].step \in {"idle", "claimed", "activated"}
  BY DEF SnapTypes, DispatchRecord, IdleDispatch
<1>3. deleter.step \in {"idle", "rowLocked", "advisory", "invalidate", "done"}
  BY DEF SnapTypes, DeleterRecord
<1> QED
  BY <1>1, <1>2, <1>3 DEF SnapTypes, SnapTypeOK, OutboxRecord

\* The day of a final capture is a day.
LEMMA RequestFields ==
  ASSUME NEW req \in Request
  PROVE  /\ req.kind \in {"PROVISIONAL", "FINAL"} /\ req.date \in SnapDate
         /\ req.key \in OverrideKey \cup {NoKey}
         /\ req.key # NoKey => req.kind = "FINAL"
<1>1. (CHOOSE d \in SnapDate : TRUE) \in SnapDate
  BY SnapAssumption
<1> QED
  BY <1>1 DEF Request

\* What the updates of a capture change.
LEMMA CaptureUpdates ==
  ASSUME NEW r \in CaptureRecord
  PROVE  /\ [r EXCEPT !.step = "holding"] \in CaptureRecord
         /\ \A n \in 0..MaxSnapRevision :
               [r EXCEPT !.step = "inserted", !.rev = n] \in CaptureRecord
BY DEF CaptureRecord

\* What a capture reads at its BEGIN.
LEMMA ReadsType ==
  ASSUME SnapTypes, NEW req \in Request
  PROVE  Reads(req) \in CaptureRecord
<1>1. ActiveRev \in 0..MaxSnapRevision /\ (ActiveRev # 0 => ActiveRev \in SnapRevision)
  <2>1. CASE ActiveRevs = {}
    BY <2>1, SnapAssumption DEF ActiveRev
  <2>2. CASE ActiveRevs # {}
    <3>1. ActiveRev \in ActiveRevs
      BY <2>2 DEF ActiveRev
    <3> QED
      BY <3>1, SnapAssumption DEF ActiveRevs, SnapRevision
  <2> QED
    BY <2>1, <2>2
<1>2. (IF ActiveRev = 0 THEN NoPublication ELSE pub[ActiveRev]) \in {NoPublication} \cup Publication
  BY <1>1 DEF SnapTypes
<1>3. tournament \in BOOLEAN /\ 0 \in 0..MaxSnapRevision
  BY SnapAssumption DEF SnapTypes
<1> QED
  BY <1>1, <1>2, <1>3, Zenon DEF Reads, CaptureRecord

\* The rows a commit writes.
LEMMA CommitTypes ==
  ASSUME SnapTypes, NEW c \in Capturer, cap[c] \in CaptureRecord
  PROVE  /\ Payload(c) \in Publication
         /\ \A r \in {NoPublication} \cup Publication :
               r.active => /\ r \in Publication
                           /\ [r EXCEPT !.active = FALSE] \in Publication
                           /\ ~[r EXCEPT !.active = FALSE].active
                           /\ [r EXCEPT !.active = FALSE].withTournament = r.withTournament
<1>1. cap[c].req \in Request /\ cap[c].sawTournament \in BOOLEAN
  BY DEF CaptureRecord
<1>2. Payload(c) \in Publication
  BY <1>1, RequestFields DEF Payload, Publication
<1>3. ~NoPublication.active
  BY DEF NoPublication
<1>4. ASSUME NEW r \in Publication
      PROVE  /\ [r EXCEPT !.active = FALSE] \in Publication
             /\ ~[r EXCEPT !.active = FALSE].active
             /\ [r EXCEPT !.active = FALSE].withTournament = r.withTournament
  BY DEF Publication
<1> QED
  BY <1>2, <1>3, <1>4

\* Every step keeps the types.
LEMMA SnapTypesNext == SnapTypes /\ [SnapNext]_snapVars => SnapTypes'
<1> SUFFICES ASSUME SnapTypes, [SnapNext]_snapVars PROVE SnapTypes'
  OBVIOUS
<1> USE SnapAssumption DEF SnapTypes
<1>1. ASSUME NEW c \in Capturer, NEW req \in Request, CaptureBegins(c, req) PROVE SnapTypes'
  BY <1>1, ReadsType DEF CaptureBegins
<1>2. ASSUME NEW c \in Capturer, CaptureLocked(c) PROVE SnapTypes'
  <2>1. cap[c] \in CaptureRecord
    BY <1>2 DEF CaptureLocked, IdleCapture
  <2> QED
    BY <1>2, <2>1, CaptureUpdates DEF CaptureLocked
<1>3. ASSUME NEW c \in Capturer, CaptureInserts(c) PROVE SnapTypes'
  <2>1. cap[c] \in CaptureRecord /\ lastRev + 1 \in 0..MaxSnapRevision
    BY <1>3 DEF CaptureInserts, IdleCapture
  <2>2. [cap[c] EXCEPT !.step = "inserted", !.rev = lastRev + 1] \in CaptureRecord
    BY <2>1, CaptureUpdates
  <2> QED
    BY <1>3, <2>1, <2>2 DEF CaptureInserts
<1>4. ASSUME NEW c \in Capturer, NEW old \in SUBSET SnapRevision, CaptureCommits(c, old)
      PROVE  SnapTypes'
  <2>1. cap[c] \in CaptureRecord
    BY <1>4 DEF CaptureCommits, IdleCapture
  <2>2. CASE SnapshotStale(c)
    BY <1>4, <2>2 DEF CaptureCommits
  <2>3. CASE ~SnapshotStale(c)
    <3>1. pub' \in [SnapRevision -> {NoPublication} \cup Publication]
      <4>1. pub' = [n \in SnapRevision |->
                 IF n \in old THEN NoPublication
                 ELSE IF n = cap[c].rev THEN Payload(c)
                 ELSE IF pub[n].active THEN [pub[n] EXCEPT !.active = FALSE] ELSE pub[n]]
        BY <1>4, <2>3 DEF CaptureCommits
      <4>2. ASSUME NEW n \in SnapRevision, pub[n].active
            PROVE  [pub[n] EXCEPT !.active = FALSE] \in Publication
        BY <2>1, <4>2, CommitTypes
      <4>3. Payload(c) \in Publication
        BY <2>1, CommitTypes
      <4> QED
        BY <4>1, <4>2, <4>3
    <3>2. [status |-> "PENDING", owner |-> "none"] \in OutboxRecord
      BY DEF OutboxRecord
    <3>3. outbox' \in [SnapRevision -> {NoOutbox} \cup OutboxRecord]
      BY <1>4, <2>3, <3>2 DEF CaptureCommits
    <3> QED
      BY <1>4, <3>1, <3>3 DEF CaptureCommits
  <2> QED
    BY <2>2, <2>3
<1>5. ASSUME NEW c \in Capturer, CaptureAborts(c) PROVE SnapTypes'
  BY <1>5 DEF CaptureAborts, SnapFault
<1>6. ASSUME NEW d \in SnapDispatcher PROVE
        /\ [status |-> "PROCESSING", owner |-> d] \in OutboxRecord
        /\ [status |-> "PENDING", owner |-> "none"] \in OutboxRecord
        /\ [status |-> "SUPERSEDED", owner |-> "none"] \in OutboxRecord
        /\ [status |-> "DELIVERED", owner |-> "none"] \in OutboxRecord
        /\ \A n \in SnapRevision : [step |-> "claimed", rev |-> n] \in DispatchRecord
        /\ \A r \in DispatchRecord : [r EXCEPT !.step = "activated"] \in DispatchRecord
        /\ disp[d].step # "idle" => disp[d] \in DispatchRecord /\ disp[d].rev \in SnapRevision
        /\ disp[d] # IdleDispatch => disp[d] \in DispatchRecord /\ disp[d].rev \in SnapRevision
  BY DEF OutboxRecord, DispatchRecord, IdleDispatch
<1>7. ASSUME NEW d \in SnapDispatcher, ClaimOutbox(d) PROVE SnapTypes'
  <2>1. Superseding \in [SnapRevision -> {NoOutbox} \cup OutboxRecord]
    BY <1>6 DEF Superseding
  <2>2. PICK n \in SnapRevision :
          /\ outbox' = [Superseding EXCEPT ![n] = [status |-> "PROCESSING", owner |-> d]]
          /\ disp' = [disp EXCEPT ![d] = [step |-> "claimed", rev |-> n]]
    BY <1>7 DEF ClaimOutbox, ActiveRevs
  <2>3. outbox' \in [SnapRevision -> {NoOutbox} \cup OutboxRecord]
    BY <1>6, <2>1, <2>2
  <2>4. disp' \in [SnapDispatcher -> {IdleDispatch} \cup DispatchRecord]
    BY <1>6, <2>2
  <2> QED
    BY <1>7, <2>3, <2>4 DEF ClaimOutbox
<1>8. ASSUME NEW d \in SnapDispatcher, DeliveryLocks(d) PROVE SnapTypes'
  <2>1. disp[d] \in DispatchRecord /\ disp[d].rev \in SnapRevision
    BY <1>6, <1>8 DEF DeliveryLocks
  <2>2. outbox' \in [SnapRevision -> {NoOutbox} \cup OutboxRecord]
    <3>1. \/ outbox' = outbox
          \/ outbox' = [outbox EXCEPT ![disp[d].rev] = [status |-> "SUPERSEDED", owner |-> "none"]]
      BY <1>8 DEF DeliveryLocks
    <3> QED
      BY <1>6, <2>1, <3>1
  <2>3. disp' \in [SnapDispatcher -> {IdleDispatch} \cup DispatchRecord]
    <3>1. \/ disp' = [disp EXCEPT ![d] = [disp[d] EXCEPT !.step = "activated"]]
          \/ disp' = [disp EXCEPT ![d] = IdleDispatch]
      BY <1>8 DEF DeliveryLocks
    <3>2. [disp[d] EXCEPT !.step = "activated"] \in DispatchRecord
      BY <1>6, <2>1
    <3> QED
      BY <3>1, <3>2
  <2>4. manifest' \in 0..MaxSnapRevision
    <3>1. manifest' = manifest \/ manifest' = disp[d].rev
      BY <1>8 DEF DeliveryLocks
    <3> QED
      BY <2>1, <3>1 DEF SnapRevision
  <2> QED
    BY <1>8, <2>2, <2>3, <2>4 DEF DeliveryLocks
<1>9. ASSUME NEW d \in SnapDispatcher, DeliveryCommits(d) PROVE SnapTypes'
  <2>1. \/ outbox' = outbox
        \/ outbox' = [outbox EXCEPT ![disp[d].rev] = [status |-> "DELIVERED", owner |-> "none"]]
    BY <1>9 DEF DeliveryCommits
  <2>2. outbox' \in [SnapRevision -> {NoOutbox} \cup OutboxRecord]
    BY <1>6, <2>1
  <2> QED
    BY <1>9, <2>2 DEF DeliveryCommits
<1>10. ASSUME NEW d \in SnapDispatcher, DeliveryFails(d) PROVE SnapTypes'
  <2>1. \/ outbox' = outbox
        \/ outbox' = [outbox EXCEPT ![disp[d].rev] = [status |-> "PENDING", owner |-> "none"]]
    BY <1>10 DEF DeliveryFails
  <2>2. outbox' \in [SnapRevision -> {NoOutbox} \cup OutboxRecord]
    BY <1>6, <2>1
  <2> QED
    BY <1>10, <2>2 DEF DeliveryFails, SnapFault
<1>11. ASSUME NEW n \in SnapRevision, SnapLeaseEnds(n) PROVE SnapTypes'
  <2>1. snapFaults' \in 0..MaxSnapFaults
    BY <1>11 DEF SnapLeaseEnds, SnapFault
  <2>2. [status |-> "PENDING", owner |-> "none"] \in OutboxRecord
    BY DEF OutboxRecord
  <2> QED
    BY <1>11, <2>1, <2>2 DEF SnapLeaseEnds
<1>12. CASE DeleteLocksRow
  <2>1. deleter' \in DeleterRecord
    BY <1>12, Zenon DEF DeleteLocksRow, DeleterRecord
  <2> QED
    BY <1>12, <2>1 DEF DeleteLocksRow
<1>13. CASE DeleteLocksEvent
  <2>1. deleter' \in DeleterRecord
    BY <1>13 DEF DeleteLocksEvent, DeleterRecord
  <2> QED
    BY <1>13, <2>1 DEF DeleteLocksEvent
<1>14. CASE deleteOwned
  <2>1. deleter' \in DeleterRecord
    BY <1>14 DEF deleteOwned, DeleterRecord, ActiveRevs
  <2> QED
    BY <1>14, <2>1 DEF deleteOwned
<1>15. CASE invalidateMyFplSnapshotRedisManifest
  <2>1. deleter' \in DeleterRecord
    BY <1>15 DEF invalidateMyFplSnapshotRedisManifest, DeleterRecord
  <2> QED
    BY <1>15, <2>1 DEF invalidateMyFplSnapshotRedisManifest
<1>16. CASE DeleteFails
  <2>1. deleter' \in DeleterRecord
    BY <1>16 DEF DeleteFails, DeleterRecord
  <2> QED
    BY <1>16, <2>1 DEF DeleteFails, SnapFault
<1>17. CASE UNCHANGED snapVars
  BY <1>17 DEF snapVars
<1> QED
  BY <1>1, <1>2, <1>3, <1>4, <1>5, <1>7, <1>8, <1>9, <1>10, <1>11, <1>12, <1>13, <1>14,
     <1>15, <1>16, <1>17 DEF SnapNext

\* What a capture knows.  The row it saw is unchanged as long as it is active;
\* its own revision is new, so no snapshot can have seen it; and the key-share
\* lock of its tournament rows keeps a deletion away.
CaptureOf(c) ==
    cap[c] # IdleCapture =>
      /\ cap[c].sawRev <= lastRev
      /\ cap[c].sawRev # 0 /\ pub[cap[c].sawRev].active => pub[cap[c].sawRev] = cap[c].saw
      /\ cap[c].step # "waiting" => ~IsNoop(cap[c].saw, cap[c].req)
      /\ cap[c].step = "inserted" =>
           /\ cap[c].rev \in 1..lastRev /\ ~Exists(cap[c].rev)
           /\ cap[c].sawTournament => tournament /\ RowLockFree

\* No two captures have one revision, and none has seen that of another.
RevisionsNew ==
    \A b, c \in Capturer :
        cap[b] # IdleCapture /\ cap[c] # IdleCapture /\ cap[c].step = "inserted" =>
          /\ cap[b].sawRev # cap[c].rev
          /\ b # c /\ cap[b].step = "inserted" => cap[b].rev # cap[c].rev

OneActive ==
    \A n, m \in SnapRevision : pub[n].active /\ pub[m].active => n = m

\* The inductive invariant behind SnapInv and SnapSteps.
SnapIInv ==
    /\ SnapTypes
    /\ OneActive
    /\ \A n \in SnapRevision : Exists(n) => n <= lastRev
    /\ NoSnapshotOfDeletedTournament
    /\ \A c \in Capturer : CaptureOf(c)
    /\ RevisionsNew

\* Publications are never active by themselves, and ActiveRev is the active one.
LEMMA ActiveIs ==
  ASSUME SnapTypes, OneActive
  PROVE  /\ \A n \in SnapRevision : pub[n].active => Exists(n) /\ pub[n] \in Publication /\ ActiveRev = n
         /\ ActiveRev # 0 => ActiveRev \in SnapRevision /\ pub[ActiveRev].active
<1>1. ASSUME NEW n \in SnapRevision, pub[n].active PROVE Exists(n) /\ pub[n] \in Publication
  BY <1>1 DEF SnapTypes, Exists, NoPublication
<1>2. ActiveRevs # {} => ActiveRev \in ActiveRevs
  BY DEF ActiveRev
<1>3. ActiveRevs = {} => ActiveRev = 0
  BY DEF ActiveRev
<1>4. \A n : n \in ActiveRevs <=> n \in SnapRevision /\ pub[n].active
  BY DEF ActiveRevs
<1>5. ASSUME NEW n \in SnapRevision, pub[n].active PROVE ActiveRev = n
  BY <1>2, <1>4, <1>5 DEF OneActive
<1> QED
  BY <1>1, <1>2, <1>3, <1>4, <1>5

\* Steps that leave the captures and the rows alone.
LEMMA SnapQuiet ==
  ASSUME SnapIInv, SnapTypes', UNCHANGED <<pub, lastRev, tournament, cap>>,
         \A c \in Capturer :
            cap[c] # IdleCapture /\ cap[c].step = "inserted" /\ cap[c].sawTournament => RowLockFree'
  PROVE  SnapIInv'
<1>1. ASSUME NEW c \in Capturer PROVE CaptureOf(c)'
  <2>1. CaptureOf(c)
    BY DEF SnapIInv
  <2> QED
    BY <2>1 DEF CaptureOf, IsNoop, Exists
<1>2. RevisionsNew' /\ OneActive' /\ NoSnapshotOfDeletedTournament'
  BY DEF SnapIInv, RevisionsNew, OneActive, NoSnapshotOfDeletedTournament, Containing, Exists
<1> QED
  BY <1>1, <1>2 DEF SnapIInv, Exists

\* Steps of one capture before its commit.
LEMMA SnapCapture ==
  ASSUME SnapIInv, SnapTypes', NEW c \in Capturer, UNCHANGED <<pub, tournament, deleter>>,
         lastRev <= lastRev', \A b \in Capturer \ {c} : cap'[b] = cap[b],
         CaptureOf(c)',
         cap'[c] # IdleCapture =>
           \A b \in Capturer :
             /\ b # c /\ cap[b] # IdleCapture /\ cap[b].step = "inserted" =>
                  cap'[c].sawRev # cap[b].rev
             /\ cap'[b] # IdleCapture /\ cap'[c].step = "inserted" =>
                  /\ cap'[b].sawRev # cap'[c].rev
                  /\ b # c /\ cap[b].step = "inserted" => cap[b].rev # cap'[c].rev
  PROVE  SnapIInv'
<1>0. lastRev \in Nat /\ lastRev' \in Nat
  BY SnapAssumption DEF SnapIInv, SnapTypes
<1>1. ASSUME NEW b \in Capturer \ {c} PROVE CaptureOf(b)'
  <2>1. CaptureOf(b) /\ cap'[b] = cap[b]
    BY DEF SnapIInv
  <2>2. CASE cap[b] = IdleCapture
    BY <2>1, <2>2 DEF CaptureOf
  <2>3. CASE cap[b] # IdleCapture
    <3>1. cap[b].sawRev \in Nat /\ cap[b].rev \in Nat
      BY <2>3, SnapAssumption DEF SnapIInv, SnapTypes, CaptureRecord
    <3>2. cap[b].sawRev <= lastRev'
      BY <1>0, <2>1, <2>3, <3>1 DEF CaptureOf
    <3>3. cap[b].step = "inserted" => cap[b].rev \in 1..lastRev'
      BY <1>0, <2>1, <2>3, <3>1 DEF CaptureOf
    <3> QED
      BY <2>1, <2>3, <3>2, <3>3 DEF CaptureOf, IsNoop, Exists, RowLockFree
  <2> QED
    BY <2>2, <2>3
<1>2. \A b \in Capturer : CaptureOf(b)'
  BY <1>1
<1>3. RevisionsNew'
  <2> SUFFICES ASSUME NEW a \in Capturer, NEW b \in Capturer,
                      cap'[a] # IdleCapture, cap'[b] # IdleCapture, cap'[b].step = "inserted"
               PROVE  /\ cap'[a].sawRev # cap'[b].rev
                      /\ a # b /\ cap'[a].step = "inserted" => cap'[a].rev # cap'[b].rev
    BY DEF RevisionsNew
  <2>1. CASE a # c /\ b # c
    BY <2>1 DEF SnapIInv, RevisionsNew
  <2>2. CASE b = c
    BY <2>2
  <2>3. CASE a = c /\ b # c
    BY <2>3
  <2> QED
    BY <2>1, <2>2, <2>3
<1>4. OneActive' /\ NoSnapshotOfDeletedTournament'
  BY DEF SnapIInv, OneActive, NoSnapshotOfDeletedTournament, Containing, Exists
<1>5. \A n \in SnapRevision : Exists(n)' => n <= lastRev'
  <2> SUFFICES ASSUME NEW n \in SnapRevision, Exists(n)' PROVE n <= lastRev'
    OBVIOUS
  <2>1. n <= lastRev /\ n \in Nat
    BY SnapAssumption DEF SnapIInv, Exists, SnapRevision
  <2> QED
    BY <1>0, <2>1
<1> QED
  BY <1>2, <1>3, <1>4, <1>5 DEF SnapIInv

\* What a commit makes of the rows: its own revision becomes the active one,
\* the one it saw is retired.
LEMMA CommitRows ==
  ASSUME SnapIInv, NEW c \in Capturer, NEW old \in SUBSET SnapRevision,
         CaptureCommits(c, old), ~SnapshotStale(c)
  PROVE  /\ cap[c] \in CaptureRecord /\ cap[c].rev \in SnapRevision
         /\ ~Exists(cap[c].rev) /\ cap[c].rev \notin old /\ pub'[cap[c].rev] = Payload(c)
         /\ \A n \in SnapRevision : pub'[n].active <=> n = cap[c].rev
         /\ \A n \in SnapRevision \ {cap[c].rev} :
               Exists(n)' => Exists(n) /\ pub'[n].withTournament = pub[n].withTournament
<1>1. cap[c] # IdleCapture /\ cap[c] \in CaptureRecord /\ cap[c].step = "inserted"
  BY DEF SnapIInv, SnapTypes, CaptureCommits, IdleCapture
<1>2. cap[c].rev \in 1..lastRev /\ ~Exists(cap[c].rev)
  BY <1>1 DEF SnapIInv, CaptureOf
<1>3. cap[c].rev \in SnapRevision
  BY <1>2, SnapAssumption DEF SnapIInv, SnapTypes, SnapRevision
<1>4. \A n \in old : Exists(n)
  BY DEF CaptureCommits
<1>5. \A n \in SnapRevision :
        pub'[n] = IF n \in old THEN NoPublication
                  ELSE IF n = cap[c].rev THEN Payload(c)
                  ELSE IF pub[n].active THEN [pub[n] EXCEPT !.active = FALSE] ELSE pub[n]
  BY DEF CaptureCommits
<1>6. pub'[cap[c].rev] = Payload(c) /\ Payload(c).active
  BY <1>2, <1>3, <1>4, <1>5 DEF Payload
<1>7. ASSUME NEW n \in SnapRevision \ {cap[c].rev}
      PROVE  /\ ~pub'[n].active
             /\ Exists(n)' => Exists(n) /\ pub'[n].withTournament = pub[n].withTournament
  <2>0. pub[n] \in {NoPublication} \cup Publication
    BY DEF SnapIInv, SnapTypes
  <2>1. CASE n \in old
    <3>1. pub'[n] = NoPublication
      BY <1>5, <2>1
    <3>2. ~NoPublication.active
      BY DEF NoPublication
    <3> QED
      BY <3>1, <3>2 DEF Exists
  <2>2. CASE n \notin old /\ pub[n].active
    <3>1. pub'[n] = [pub[n] EXCEPT !.active = FALSE]
      BY <1>5, <2>2
    <3>2. /\ pub[n] \in Publication /\ ~[pub[n] EXCEPT !.active = FALSE].active
          /\ [pub[n] EXCEPT !.active = FALSE].withTournament = pub[n].withTournament
      BY <1>1, <2>0, <2>2, CommitTypes DEF SnapIInv
    <3>3. pub[n] # NoPublication
      BY <2>2 DEF NoPublication
    <3> QED
      BY <3>1, <3>2, <3>3 DEF Exists
  <2>3. CASE n \notin old /\ ~pub[n].active
    BY <1>5, <2>3 DEF Exists
  <2> QED
    BY <2>1, <2>2, <2>3
<1> QED
  BY <1>1, <1>2, <1>3, <1>4, <1>6, <1>7

\* Every step keeps the invariant.
LEMMA SnapStep == SnapIInv /\ [SnapNext]_snapVars => SnapIInv'
<1> SUFFICES ASSUME SnapIInv, [SnapNext]_snapVars PROVE SnapIInv'
  OBVIOUS
<1>0. SnapTypes /\ SnapTypes'
  BY SnapTypesNext DEF SnapIInv
<1>a. lastRev \in Nat /\ lastRev' \in Nat /\ MaxSnapRevision \in Nat
  BY <1>0, SnapAssumption DEF SnapTypes
<1>1. ASSUME NEW c \in Capturer, NEW req \in Request, CaptureBegins(c, req) PROVE SnapIInv'
  <2>1. /\ UNCHANGED <<pub, tournament, deleter, lastRev>>
        /\ \A b \in Capturer \ {c} : cap'[b] = cap[b]
        /\ cap'[c] = Reads(req) /\ Reads(req) \in CaptureRecord
    BY <1>0, <1>1, ReadsType DEF CaptureBegins, SnapTypes
  <2>2. /\ cap'[c].step = "waiting" /\ cap'[c].sawRev = ActiveRev
        /\ cap'[c].saw = IF ActiveRev = 0 THEN NoPublication ELSE pub[ActiveRev]
    BY <2>1 DEF Reads
  <2>3. ActiveRev # 0 => ActiveRev \in SnapRevision /\ Exists(ActiveRev) /\ ActiveRev <= lastRev
    BY <1>0, ActiveIs DEF SnapIInv
  <2>4. CaptureOf(c)'
    BY <1>a, <2>1, <2>2, <2>3 DEF CaptureOf
  <2>5. ASSUME NEW b \in Capturer, cap[b] # IdleCapture, cap[b].step = "inserted"
        PROVE  ActiveRev # cap[b].rev
    <3>1. cap[b].rev \in 1..lastRev /\ ~Exists(cap[b].rev)
      BY <2>5 DEF SnapIInv, CaptureOf
    <3> QED
      BY <1>a, <2>3, <3>1
  <2> QED
    BY <1>0, <1>a, <2>1, <2>2, <2>4, <2>5, SnapCapture
<1>2. ASSUME NEW c \in Capturer, CaptureLocked(c) PROVE SnapIInv'
  <2>1. /\ UNCHANGED <<pub, tournament, deleter, lastRev>>
        /\ \A b \in Capturer \ {c} : cap'[b] = cap[b]
        /\ cap[c] \in CaptureRecord /\ cap[c] # IdleCapture
    BY <1>0, <1>2 DEF CaptureLocked, SnapTypes, IdleCapture
  <2>2. CASE IsNoop(cap[c].saw, cap[c].req)
    <3>1. cap'[c] = IdleCapture
      BY <1>0, <1>2, <2>2 DEF CaptureLocked, SnapTypes
    <3>2. CaptureOf(c)'
      BY <3>1 DEF CaptureOf
    <3> QED
      BY <1>0, <1>a, <2>1, <3>1, <3>2, SnapCapture
  <2>3. CASE ~IsNoop(cap[c].saw, cap[c].req)
    <3>1. cap'[c] = [cap[c] EXCEPT !.step = "holding"]
      BY <1>0, <1>2, <2>3 DEF CaptureLocked, SnapTypes
    <3>2. /\ cap'[c].step = "holding" /\ cap'[c].sawRev = cap[c].sawRev
          /\ cap'[c].saw = cap[c].saw /\ cap'[c].req = cap[c].req
      BY <2>1, <3>1 DEF CaptureRecord
    <3>3. CaptureOf(c)
      BY DEF SnapIInv
    <3>4. CaptureOf(c)'
      BY <2>1, <2>3, <3>2, <3>3 DEF CaptureOf, IsNoop
    <3>5. \A b \in Capturer : cap[b] # IdleCapture /\ cap[b].step = "inserted" =>
             cap'[c].sawRev # cap[b].rev
      BY <2>1, <3>2 DEF SnapIInv, RevisionsNew
    <3> QED
      BY <1>0, <1>a, <2>1, <3>2, <3>4, <3>5, SnapCapture
  <2> QED
    BY <2>2, <2>3
<1>3. ASSUME NEW c \in Capturer, CaptureInserts(c) PROVE SnapIInv'
  <2>1. /\ UNCHANGED <<pub, tournament, deleter>>
        /\ \A b \in Capturer \ {c} : cap'[b] = cap[b]
        /\ cap[c] \in CaptureRecord /\ cap[c] # IdleCapture /\ cap[c].step = "holding"
        /\ lastRev' = lastRev + 1 /\ (cap[c].sawTournament => RowLockFree)
    BY <1>0, <1>3 DEF CaptureInserts, SnapTypes, IdleCapture
  <2>2. CASE cap[c].sawTournament /\ ~tournament
    <3>1. cap'[c] = IdleCapture
      BY <1>0, <1>3, <2>2 DEF CaptureInserts, SnapTypes
    <3>2. CaptureOf(c)'
      BY <3>1 DEF CaptureOf
    <3> QED
      BY <1>0, <1>a, <2>1, <3>1, <3>2, SnapCapture
  <2>3. CASE ~(cap[c].sawTournament /\ ~tournament)
    <3>1. cap'[c] = [cap[c] EXCEPT !.step = "inserted", !.rev = lastRev + 1]
      BY <1>0, <1>3, <2>3, Zenon DEF CaptureInserts, SnapTypes
    <3>2. /\ cap'[c].step = "inserted" /\ cap'[c].sawRev = cap[c].sawRev
          /\ cap'[c].saw = cap[c].saw /\ cap'[c].req = cap[c].req
          /\ cap'[c].sawTournament = cap[c].sawTournament /\ cap'[c].rev = lastRev + 1
      BY <2>1, <3>1 DEF CaptureRecord
    <3>3. CaptureOf(c) /\ \A b \in Capturer : CaptureOf(b)
      BY DEF SnapIInv
    <3>4. lastRev + 1 \in 1..lastRev' /\ ~Exists(lastRev + 1) /\ lastRev + 1 \in SnapRevision
      BY <1>0, <1>a, <2>1 DEF SnapIInv, SnapTypes, SnapRevision
    <3>5. \A b \in Capturer : cap[b] # IdleCapture =>
             /\ cap[b].sawRev # lastRev + 1 /\ cap[b].sawRev <= lastRev /\ cap[b].sawRev \in Nat
             /\ cap[b].step = "inserted" => cap[b].rev # lastRev + 1
      BY <1>0, <1>a, <3>3 DEF SnapTypes, CaptureRecord, CaptureOf
    <3>6. cap'[c].sawRev <= lastRev'
      BY <1>a, <2>1, <3>2, <3>5
    <3>7. CaptureOf(c)'
      BY <2>1, <2>3, <3>2, <3>3, <3>4, <3>6 DEF CaptureOf, IsNoop, Exists, RowLockFree
    <3>8. \A b \in Capturer : cap[b] # IdleCapture /\ cap[b].step = "inserted" =>
             cap'[c].sawRev # cap[b].rev
      BY <2>1, <3>2 DEF SnapIInv, RevisionsNew
    <3>9. lastRev <= lastRev'
      BY <1>a, <2>1
    <3> QED
      BY <1>0, <2>1, <3>2, <3>5, <3>7, <3>8, <3>9, SnapCapture
  <2> QED
    BY <2>2, <2>3
<1>4. ASSUME NEW c \in Capturer, NEW old \in SUBSET SnapRevision, CaptureCommits(c, old)
      PROVE  SnapIInv'
  <2>1. /\ UNCHANGED <<tournament, deleter, lastRev>>
        /\ \A b \in Capturer \ {c} : cap'[b] = cap[b]
        /\ cap'[c] = IdleCapture /\ cap[c] # IdleCapture /\ cap[c].step = "inserted"
    BY <1>0, <1>4 DEF CaptureCommits, SnapTypes, IdleCapture
  <2>2. CASE SnapshotStale(c)
    <3>1. UNCHANGED pub
      BY <1>4, <2>2 DEF CaptureCommits
    <3>2. CaptureOf(c)'
      BY <2>1 DEF CaptureOf
    <3> QED
      BY <1>0, <1>a, <2>1, <3>1, <3>2, SnapCapture
  <2>3. CASE ~SnapshotStale(c)
    <3> DEFINE rev == cap[c].rev
    <3>1. /\ cap[c] \in CaptureRecord /\ rev \in SnapRevision /\ rev \notin old
          /\ pub'[rev] = Payload(c)
          /\ \A n \in SnapRevision : pub'[n].active <=> n = rev
          /\ \A n \in SnapRevision \ {rev} :
                Exists(n)' => Exists(n) /\ pub'[n].withTournament = pub[n].withTournament
      BY <1>4, <2>3, CommitRows
    <3>2. rev \in 1..lastRev /\ (cap[c].sawTournament => tournament)
      BY <2>1 DEF SnapIInv, CaptureOf
    <3>3. OneActive'
      BY <3>1 DEF OneActive
    <3>4. \A n \in SnapRevision : Exists(n)' => n <= lastRev'
      BY <1>a, <2>1, <3>1, <3>2 DEF SnapIInv
    <3>5. NoSnapshotOfDeletedTournament'
      <4>1. pub'[rev].withTournament = cap[c].sawTournament
        BY <3>1 DEF Payload
      <4>2. ASSUME ~tournament, NEW n \in SnapRevision, Exists(n)', pub'[n].withTournament
            PROVE  FALSE
        <5>1. n # rev
          BY <3>2, <4>1, <4>2
        <5>2. Exists(n) /\ pub[n].withTournament
          BY <3>1, <4>2, <5>1
        <5> QED
          BY <4>2, <5>2 DEF SnapIInv, NoSnapshotOfDeletedTournament, Containing
      <4> QED
        BY <2>1, <4>2 DEF NoSnapshotOfDeletedTournament, Containing
    <3>6. ASSUME NEW b \in Capturer PROVE CaptureOf(b)'
      <4>1. CASE b = c
        BY <2>1, <4>1 DEF CaptureOf
      <4>2. CASE b # c /\ cap[b] # IdleCapture
        <5>1. CaptureOf(b) /\ cap'[b] = cap[b] /\ cap[b].sawRev # rev
              /\ (cap[b].step = "inserted" => cap[b].rev # rev)
          BY <2>1, <4>2 DEF SnapIInv, RevisionsNew
        <5>2. cap[b].sawRev \in 0..MaxSnapRevision
          BY <1>0, <4>2 DEF SnapTypes, CaptureRecord
        <5>3. cap[b].sawRev # 0 => ~pub'[cap[b].sawRev].active
          BY <1>a, <3>1, <5>1, <5>2 DEF SnapRevision
        <5>4. cap[b].step = "inserted" => cap[b].rev \in SnapRevision \ {rev} /\ ~Exists(cap[b].rev)
          BY <1>0, <1>a, <4>2, <5>1 DEF CaptureOf, SnapTypes, SnapRevision
        <5>5. cap[b].step = "inserted" => ~Exists(cap[b].rev)'
          BY <3>1, <5>1, <5>4 DEF Exists
        <5> QED
          BY <2>1, <4>2, <5>1, <5>3, <5>5 DEF CaptureOf, IsNoop, RowLockFree
      <4>3. CASE b # c /\ cap[b] = IdleCapture
        BY <2>1, <4>3 DEF CaptureOf
      <4> QED
        BY <4>1, <4>2, <4>3
    <3>7. RevisionsNew'
      BY <2>1 DEF SnapIInv, RevisionsNew
    <3> QED
      BY <1>0, <3>3, <3>4, <3>5, <3>6, <3>7 DEF SnapIInv
  <2> QED
    BY <2>2, <2>3
<1>5. ASSUME NEW c \in Capturer, CaptureAborts(c) PROVE SnapIInv'
  <2>1. /\ UNCHANGED <<pub, tournament, deleter, lastRev>>
        /\ \A b \in Capturer \ {c} : cap'[b] = cap[b]
        /\ cap'[c] = IdleCapture
    BY <1>0, <1>5 DEF CaptureAborts, SnapTypes
  <2>2. CaptureOf(c)'
    BY <2>1 DEF CaptureOf
  <2> QED
    BY <1>0, <1>a, <2>1, <2>2, SnapCapture
\* Deliveries touch neither the rows nor the locks of a deletion.
<1>6. ASSUME UNCHANGED <<pub, lastRev, tournament, cap, deleter>> PROVE SnapIInv'
  BY <1>0, <1>6, SnapQuiet DEF SnapIInv, CaptureOf, RowLockFree
<1>7. ASSUME NEW d \in SnapDispatcher,
             ClaimOutbox(d) \/ DeliveryLocks(d) \/ DeliveryCommits(d) \/ DeliveryFails(d)
      PROVE  SnapIInv'
  <2>1. UNCHANGED <<pub, lastRev, tournament, cap, deleter>>
    BY <1>7, Zenon DEF ClaimOutbox, DeliveryLocks, DeliveryCommits, DeliveryFails
  <2> QED
    BY <1>6, <2>1
<1>8. ASSUME NEW n \in SnapRevision, SnapLeaseEnds(n) PROVE SnapIInv'
  BY <1>6, <1>8 DEF SnapLeaseEnds
<1>9. CASE DeleteLocksRow
  BY <1>0, <1>9, SnapQuiet DEF DeleteLocksRow
<1>10. ASSUME deleter.step \in {"rowLocked", "advisory"}
       PROVE  \A c \in Capturer : cap[c] # IdleCapture /\ cap[c].step = "inserted" => ~cap[c].sawTournament
  BY <1>10 DEF SnapIInv, CaptureOf, RowLockFree
<1>11. CASE DeleteLocksEvent
  BY <1>0, <1>10, <1>11, SnapQuiet DEF DeleteLocksEvent
<1>12. CASE deleteOwned
  <2>1. /\ UNCHANGED <<lastRev, cap>> /\ tournament' = FALSE
        /\ \A n \in SnapRevision : pub'[n] = IF n \in Containing THEN NoPublication ELSE pub[n]
        /\ \A c \in Capturer : cap[c] # IdleCapture /\ cap[c].step = "inserted" => ~cap[c].sawTournament
    BY <1>10, <1>12 DEF deleteOwned
  <2>2. ~NoPublication.active
    BY DEF NoPublication
  <2>3. \A n \in SnapRevision : pub'[n].active => pub[n].active /\ pub'[n] = pub[n]
    BY <2>1, <2>2
  <2>4. \A n \in SnapRevision : Exists(n)' => Exists(n) /\ ~pub'[n].withTournament
    BY <2>1 DEF Exists, Containing
  <2>5. OneActive' /\ NoSnapshotOfDeletedTournament' /\ RevisionsNew'
    <3>1. OneActive'
      BY <2>3 DEF SnapIInv, OneActive
    <3>2. NoSnapshotOfDeletedTournament'
      BY <2>4 DEF NoSnapshotOfDeletedTournament, Containing
    <3>3. RevisionsNew'
      BY <2>1 DEF SnapIInv, RevisionsNew
    <3> QED
      BY <3>1, <3>2, <3>3
  <2>6. ASSUME NEW c \in Capturer PROVE CaptureOf(c)'
    <3>1. CASE cap[c] # IdleCapture
      <4>1. CaptureOf(c) /\ cap[c] \in CaptureRecord
        BY <1>0, <3>1 DEF SnapIInv, SnapTypes
      <4>2. cap[c].sawRev # 0 /\ pub'[cap[c].sawRev].active =>
               pub'[cap[c].sawRev] = cap[c].saw
        <5>1. cap[c].sawRev # 0 => cap[c].sawRev \in SnapRevision
          BY <1>a, <4>1 DEF CaptureRecord, SnapRevision
        <5> QED
          BY <2>3, <3>1, <4>1, <5>1 DEF CaptureOf
      <4>3. cap[c].step = "inserted" => ~Exists(cap[c].rev)'
        <5>1. cap[c].step = "inserted" => cap[c].rev \in SnapRevision /\ ~Exists(cap[c].rev)
          BY <1>0, <1>a, <3>1, <4>1 DEF CaptureOf, SnapTypes, SnapRevision
        <5> QED
          BY <2>1, <2>4, <5>1 DEF Exists
      <4> QED
        BY <2>1, <3>1, <4>1, <4>2, <4>3 DEF CaptureOf, IsNoop
    <3>2. CASE cap[c] = IdleCapture
      BY <2>1, <3>2 DEF CaptureOf
    <3> QED
      BY <3>1, <3>2
  <2>7. \A n \in SnapRevision : Exists(n)' => n <= lastRev'
    BY <2>1, <2>4 DEF SnapIInv
  <2> QED
    BY <1>0, <2>5, <2>6, <2>7 DEF SnapIInv
<1>13. CASE invalidateMyFplSnapshotRedisManifest
  <2>1. RowLockFree' /\ UNCHANGED <<pub, lastRev, tournament, cap>>
    BY <1>13 DEF invalidateMyFplSnapshotRedisManifest, RowLockFree
  <2> QED
    BY <1>0, <2>1, SnapQuiet
<1>14. CASE DeleteFails
  <2>1. RowLockFree' /\ UNCHANGED <<pub, lastRev, tournament, cap>>
    BY <1>14 DEF DeleteFails, RowLockFree
  <2> QED
    BY <1>0, <2>1, SnapQuiet
<1>15. CASE UNCHANGED snapVars
  BY <1>6, <1>15 DEF snapVars
<1> QED
  BY <1>1, <1>2, <1>3, <1>4, <1>5, <1>7, <1>8, <1>9, <1>11, <1>12, <1>13, <1>14, <1>15
     DEF SnapNext

LEMMA SnapInitially == SnapInit => SnapIInv
<1> SUFFICES ASSUME SnapInit PROVE SnapIInv
  OBVIOUS
<1>1. SnapTypes
  BY SnapAssumption DEF SnapInit, SnapTypes, DeleterRecord
<1>2. \A n \in SnapRevision : ~Exists(n) /\ ~pub[n].active
  BY DEF SnapInit, Exists, NoPublication
<1>3. \A c \in Capturer : cap[c] = IdleCapture
  BY DEF SnapInit
<1> QED
  BY <1>1, <1>2, <1>3
     DEF SnapIInv, OneActive, NoSnapshotOfDeletedTournament, Containing, CaptureOf, RevisionsNew

\* SnapInv for any number of captures and dispatchers: no snapshot shows a
\* deleted tournament, although captures read it before they wait for the lock
\* and a deletion takes its two locks in the opposite order.
THEOREM SnapInvHolds == SnapSpec => []SnapInv
<1>1. SnapIInv => SnapInv
  BY SnapTypesSuffice DEF SnapIInv, SnapInv
<1> QED
  BY <1>1, SnapInitially, SnapStep, PTL DEF SnapSpec

\* A step that activates another publication is a commit whose capture saw the
\* one it replaces.
LEMMA FinalKept ==
  ASSUME SnapIInv, [SnapNext]_snapVars,
         NEW n \in SnapRevision, NEW m \in SnapRevision,
         pub[n].active, pub'[m].active, n # m
  PROVE  ~pub'[n].active /\ (pub[n].kind = "FINAL" => pub'[m].kind = "FINAL")
<1>0. SnapTypes /\ OneActive /\ ~pub[m].active
  BY DEF SnapIInv, OneActive
<1>1. PICK c \in Capturer, old \in SUBSET SnapRevision :
        CaptureCommits(c, old) /\ ~SnapshotStale(c)
  <2>1. UNCHANGED pub \/ deleteOwned
        \/ \E c \in Capturer, old \in SUBSET SnapRevision : CaptureCommits(c, old) /\ ~SnapshotStale(c)
    BY DEF SnapNext, snapVars, CaptureBegins, CaptureLocked, CaptureInserts, CaptureCommits,
           CaptureAborts, ClaimOutbox, DeliveryLocks, DeliveryCommits, DeliveryFails, SnapLeaseEnds,
           DeleteLocksRow, DeleteLocksEvent, invalidateMyFplSnapshotRedisManifest, DeleteFails
  <2>2. ~NoPublication.active
    BY DEF NoPublication
  <2>3. deleteOwned => ~pub'[m].active
    BY <1>0, <2>2 DEF deleteOwned
  <2> QED
    BY <1>0, <2>1, <2>3
<1>2. m = cap[c].rev /\ pub'[m] = Payload(c) /\ ~pub'[n].active /\ cap[c] \in CaptureRecord
  BY <1>1, CommitRows
<1>3. ActiveRev = n /\ cap[c].sawRev = n /\ pub[n] # NoPublication
  BY <1>0, <1>1, ActiveIs DEF SnapshotStale, Exists
<1>4. cap[c] # IdleCapture /\ cap[c].step = "inserted"
  BY <1>1 DEF CaptureCommits, IdleCapture
<1>5. cap[c].saw = pub[n] /\ ~IsNoop(cap[c].saw, cap[c].req)
  BY <1>3, <1>4, SnapAssumption DEF SnapIInv, CaptureOf, SnapRevision
<1>6. pub[n].kind = "FINAL" => cap[c].req.key # NoKey
  BY <1>3, <1>5 DEF IsNoop
<1>7. cap[c].req \in Request /\ (cap[c].req.key # NoKey => cap[c].req.kind = "FINAL")
  BY <1>2, RequestFields DEF CaptureRecord
<1> QED
  BY <1>2, <1>6, <1>7 DEF Payload

\* Only the script moves the manifest forward, to a revision that is active.
LEMMA Promoted ==
  ASSUME SnapIInv, [SnapNext]_snapVars, manifest' # manifest, manifest' # 0
  PROVE  manifest < manifest' /\ pub[manifest'].active /\ pub'[manifest'].active
<1>1. PICK d \in SnapDispatcher : DeliveryLocks(d)
  <2>1. UNCHANGED manifest \/ invalidateMyFplSnapshotRedisManifest
        \/ \E d \in SnapDispatcher : DeliveryLocks(d)
    BY Zenon DEF SnapNext, snapVars, CaptureBegins, CaptureLocked, CaptureInserts, CaptureCommits,
           CaptureAborts, ClaimOutbox, DeliveryCommits, DeliveryFails, SnapLeaseEnds,
           DeleteLocksRow, DeleteLocksEvent, deleteOwned, DeleteFails
  <2>2. invalidateMyFplSnapshotRedisManifest => manifest' = 0 \/ manifest' = manifest
    BY DEF invalidateMyFplSnapshotRedisManifest
  <2> QED
    BY <2>1, <2>2
<1>2. manifest' = disp[d].rev /\ manifest <= disp[d].rev /\ OwnsActive(d) /\ UNCHANGED pub
  BY <1>1 DEF DeliveryLocks
<1>3. manifest \in Nat /\ manifest' \in Nat
  BY SnapTypesNext, SnapAssumption DEF SnapIInv, SnapTypes
<1> QED
  BY <1>2, <1>3 DEF OwnsActive

\* FinalNeverDowngraded and PromotedWhenActive, for captures with snapshots as
\* old as they may be.
THEOREM SnapStepsHold == SnapSpec => SnapSteps
<1>1. SnapIInv /\ [SnapNext]_snapVars =>
        [\A n, m \in SnapRevision :
           pub[n].active /\ pub'[m].active /\ n # m =>
              ~pub'[n].active /\ (pub[n].kind = "FINAL" => pub'[m].kind = "FINAL")]_snapVars
  BY FinalKept
<1>2. SnapIInv /\ [SnapNext]_snapVars =>
        [manifest' # manifest /\ manifest' # 0 =>
           manifest < manifest' /\ pub[manifest'].active /\ pub'[manifest'].active]_snapVars
  BY Promoted
<1> QED
  BY <1>1, <1>2, SnapInitially, SnapStep, PTL
     DEF SnapSpec, SnapSteps, FinalNeverDowngraded, PromotedWhenActive

(***************************************************************************)
(* The Understat lanes.                                                    *)
(***************************************************************************)

ItemStatus == {"none", "pending", "failed", "completed"}
Counted == {"running", "failed", "ready_to_publish"}
RowsRecord == UNION {[S -> ItemStatus] : S \in SUBSET Resource}
TxRecord == [job : UJob, rows : RowsRecord, payload : Versions,
             status : Counted \cup {"completed"}, adds : SUBSET UJob]
BookRecord == [job : UJob, at : {"find", "failItem", "failRun", "count", "write"},
               status : Counted \cup {"none"}]

LaneOf(r) == request[r].lane
Ended(s) == s \notin ActiveRun \cup {"none"}
SettledItems(items) == \A x \in Resource : items[x] \in {"none", "completed"}

\* What the canonical rows of a lane need of a run that may still publish: a
\* resource it does not fetch has the league row that is stored, and a detail
\* it has fetched is not older than the league it read.
InForce(items, payload, rows, l) ==
    \A x \in OfLane(l) :
      /\ items[x] = "none" => payload.league[x] = rows.league[x]
      /\ items[x] = "completed" => payload.detail[x] >= payload.league[x]

UnderstatShapes ==
    /\ tx # NoTx => tx \in TxRecord
    /\ bookkeeping \subseteq BookRecord

JobsCounted ==
    \A j \in UJob : /\ ujob[j] \in {"waiting", "active"} => utries[j] < UnderstatAttempts
                    /\ ujob[j] = "none" => utries[j] = 0
                    /\ ujob[j] # "none" => request[j[1]] # NoRequest

\* One run of a lane is active, and only a run that was requested.
OneActiveRun ==
    /\ \A r \in UnderstatRun : request[r] = NoRequest => runStatus[r] = "none"
    /\ \A r, p \in UnderstatRun :
         runStatus[r] \in ActiveRun /\ runStatus[p] \in ActiveRun /\ LaneOf(r) = LaneOf(p) => r = p

PublishedEnded == \A r \in publishedRuns : Ended(runStatus[r]) /\ SettledItems(item[r])

LeagueRead == \A r \in UnderstatRun : \A x \in Resource : staged[r].league[x] <= source[x]

ActiveInForce ==
    \A r \in UnderstatRun : runStatus[r] \in ActiveRun =>
        InForce(item[r], staged[r], facts[LaneOf(r)], LaneOf(r))

\* What the open transaction t of run r may still do.  The finalizer holds the
\* only active run of its lane when it opens; no other run becomes active
\* before it commits, although the listener may end its own meanwhile.
TxOf(t, r) ==
    /\ request[r] # NoRequest
    /\ \A j \in t.adds : j[1] = r
    /\ runStatus[r] = "none" => FindActiveRun(r) = {}
    /\ \A x \in DOMAIN t.rows : t.rows[x] = "completed" \/ runStatus[r] = "none"
    /\ \A x \in Resource : t.payload.league[x] <= source[x]
    /\ ~ Ended(runStatus[r]) \/ t.job = Finalize(r) =>
         InForce(WithRows(item[r], t.rows), t.payload, facts[LaneOf(r)], LaneOf(r))
    /\ IF t.job = Finalize(r)
       THEN /\ FindActiveRun(r) = {} /\ SettledItems(item[r]) /\ runStatus[r] # "none"
            /\ t.rows = NoRows /\ t.payload = staged[r] /\ t.status = "completed"
       ELSE t.status \in Counted

Notes ==
    \A b \in bookkeeping : /\ b.at = "failItem" => b.job[2] = "detail"
                           /\ b.at \in {"count", "write"} => runStatus[b.job[1]] # "none"
                           /\ b.at = "write" => b.status \in Counted

\* The inductive invariant behind UnderstatInv.
UnderstatIInv ==
    /\ UnderstatTypeOK /\ UnderstatShapes /\ JobsCounted /\ OneActiveRun /\ PublishedEnded
    /\ LeagueRead /\ ActiveInForce /\ Notes /\ DetailsFollowLeague
    /\ tx # NoTx => TxOf(tx, tx.job[1])

\* The jobs of a run, told apart by their second component.
LEMMA JobsOfRun ==
  ASSUME NEW j \in UJob
  PROVE  /\ j[1] \in UnderstatRun
         /\ j[2] \in {"discover", "finalize", "detail"}
         /\ j[2] = "discover" => j = Discover(j[1])
         /\ j[2] = "finalize" => j = Finalize(j[1])
         /\ j[2] = "detail" => j[3] \in Resource /\ j = Detail(j[1], j[3])
<1>1. PICK r \in UnderstatRun :
        j \in {Discover(r), Finalize(r)} \cup {Detail(r, x) : x \in Resource}
  BY DEF UJob
<1>2. CASE j = Discover(r)
  BY <1>2 DEF Discover
<1>3. CASE j = Finalize(r)
  BY <1>3 DEF Finalize
<1>4. CASE \E x \in Resource : j = Detail(r, x)
  BY <1>4 DEF Detail
<1> QED
  BY <1>1, <1>2, <1>3, <1>4

LEMMA JobNames ==
  ASSUME NEW r \in UnderstatRun
  PROVE  /\ Discover(r) \in UJob /\ Discover(r)[1] = r /\ Discover(r)[2] = "discover"
         /\ Finalize(r) \in UJob /\ Finalize(r)[1] = r /\ Finalize(r)[2] = "finalize"
         /\ \A x \in Resource : /\ Detail(r, x) \in UJob /\ Detail(r, x)[1] = r
                                /\ Detail(r, x)[2] = "detail" /\ Detail(r, x)[3] = x
<1>1. /\ Discover(r)[1] = r /\ Discover(r)[2] = "discover"
      /\ Finalize(r)[1] = r /\ Finalize(r)[2] = "finalize"
      /\ \A x \in Resource : /\ Detail(r, x)[1] = r /\ Detail(r, x)[2] = "detail"
                             /\ Detail(r, x)[3] = x
  BY DEF Discover, Finalize, Detail
<1> QED
  BY <1>1 DEF UJob

\* Jobs that are added wait; the others keep their state.
LEMMA AddFacts ==
  ASSUME NEW adds \in SUBSET UJob,
         ujob \in [UJob -> {"none", "waiting", "active", "completed", "failed"}]
  PROVE  /\ Add(adds, ujob) \in [UJob -> {"none", "waiting", "active", "completed", "failed"}]
         /\ \A k \in UJob : \/ Add(adds, ujob)[k] = ujob[k]
                            \/ k \in adds /\ ujob[k] = "none" /\ Add(adds, ujob)[k] = "waiting"
BY DEF Add

\* What becomes of the queue when one job changes and others are added.
LEMMA JobsNext ==
  ASSUME UnderstatTypeOK, JobsCounted, UNCHANGED request,
         NEW j \in UJob, NEW adds \in SUBSET UJob, NEW s \in {"waiting", "active", "completed", "failed"},
         request[j[1]] # NoRequest, \A k \in adds : request[k[1]] # NoRequest,
         ujob' = [Add(adds, ujob) EXCEPT ![j] = s],
         \/ utries' = utries /\ (s \in {"waiting", "active"} => utries[j] < UnderstatAttempts)
         \/ /\ utries' = [utries EXCEPT ![j] = @ + 1] /\ utries[j] < UnderstatAttempts
            /\ s \in {"waiting", "active"} => utries[j] + 1 < UnderstatAttempts
  PROVE  /\ ujob' \in [UJob -> {"none", "waiting", "active", "completed", "failed"}]
         /\ utries' \in [UJob -> 0 .. UnderstatAttempts]
         /\ JobsCounted'
<1> DEFINE States == {"none", "waiting", "active", "completed", "failed"}
<1>1. /\ ujob \in [UJob -> States] /\ utries \in [UJob -> 0 .. UnderstatAttempts]
      /\ UnderstatAttempts \in Nat \ {0}
  BY UnderstatAssumption DEF UnderstatTypeOK
<1>2. /\ Add(adds, ujob) \in [UJob -> States]
      /\ \A k \in UJob : \/ Add(adds, ujob)[k] = ujob[k]
                         \/ k \in adds /\ ujob[k] = "none" /\ Add(adds, ujob)[k] = "waiting"
  BY <1>1, AddFacts
<1> DEFINE jobs == Add(adds, ujob)
<1> HIDE DEF jobs
<1>3. ujob' \in [UJob -> States] /\ ujob'[j] = s /\ \A k \in UJob \ {j} : ujob'[k] = jobs[k]
  BY <1>2 DEF jobs
<1>4. /\ utries' \in [UJob -> 0 .. UnderstatAttempts] /\ \A k \in UJob \ {j} : utries'[k] = utries[k]
      /\ s \in {"waiting", "active"} => utries'[j] < UnderstatAttempts
  BY <1>1
<1>5. ASSUME NEW k \in UJob
      PROVE  /\ ujob'[k] \in {"waiting", "active"} => utries'[k] < UnderstatAttempts
             /\ ujob'[k] = "none" => utries'[k] = 0
             /\ ujob'[k] # "none" => request'[k[1]] # NoRequest
  <2>1. CASE k = j
    BY <1>3, <1>4, <2>1
  <2>2. CASE k # j
    BY <1>1, <1>2, <1>3, <1>4, <2>2 DEF JobsCounted, jobs
  <2> QED
    BY <2>1, <2>2
<1> QED
  BY <1>3, <1>4, <1>5 DEF JobsCounted

\* The same when jobs are only added.
LEMMA JobsAdded ==
  ASSUME UnderstatTypeOK, JobsCounted, UNCHANGED <<request, utries>>,
         NEW adds \in SUBSET UJob, \A k \in adds : request[k[1]] # NoRequest,
         ujob' = Add(adds, ujob)
  PROVE  /\ ujob' \in [UJob -> {"none", "waiting", "active", "completed", "failed"}]
         /\ JobsCounted'
<1>1. /\ UnderstatAttempts \in Nat \ {0}
      /\ ujob \in [UJob -> {"none", "waiting", "active", "completed", "failed"}]
  BY UnderstatAssumption DEF UnderstatTypeOK
<1> QED
  BY <1>1, AddFacts DEF JobsCounted

\* A failed attempt: the job waits again or the listener is told of it.
LEMMA AttemptFailsFacts ==
  ASSUME UnderstatIInv, UNCHANGED <<request, runStatus>>,
         NEW j \in UJob, ujob[j] \in {"waiting", "active"},
         NEW adds \in SUBSET UJob, \A k \in adds : request[k[1]] # NoRequest,
         AttemptFails(j, Add(adds, ujob))
  PROVE  /\ ujob' \in [UJob -> {"none", "waiting", "active", "completed", "failed"}]
         /\ utries' \in [UJob -> 0 .. UnderstatAttempts]
         /\ JobsCounted' /\ Notes' /\ bookkeeping' \subseteq BookRecord
         /\ \A b \in bookkeeping' : b.job \in UJob
<1>1. /\ utries[j] < UnderstatAttempts /\ request[j[1]] # NoRequest
  BY DEF UnderstatIInv, JobsCounted
<1>2. PICK s \in {"waiting", "failed"} :
        /\ ujob' = [Add(adds, ujob) EXCEPT ![j] = s]
        /\ s = "waiting" => utries[j] + 1 < UnderstatAttempts
  BY DEF AttemptFails
<1>3. utries' = [utries EXCEPT ![j] = @ + 1]
  BY DEF AttemptFails
<1>4. /\ ujob' \in [UJob -> {"none", "waiting", "active", "completed", "failed"}]
      /\ utries' \in [UJob -> 0 .. UnderstatAttempts] /\ JobsCounted'
  BY <1>1, <1>2, <1>3, JobsNext DEF UnderstatIInv
<1>5. bookkeeping' \subseteq bookkeeping \cup {[job |-> j, at |-> "find", status |-> "none"]}
  BY DEF AttemptFails
<1>6. [job |-> j, at |-> "find", status |-> "none"] \in BookRecord
  BY DEF BookRecord
<1>7. bookkeeping' \subseteq BookRecord
  BY <1>5, <1>6 DEF UnderstatIInv, UnderstatShapes
<1>8. \A b \in bookkeeping' : b.job \in UJob
  BY <1>7 DEF BookRecord
<1>9. Notes'
  BY <1>5 DEF UnderstatIInv, Notes
<1> QED
  BY <1>4, <1>7, <1>8, <1>9

\* The parts that only the repository's tables decide.
LEMMA TablesRest ==
  ASSUME UnderstatIInv,
         UNCHANGED <<source, request, runStatus, item, staged, facts, publishedRuns>>
  PROVE  /\ OneActiveRun' /\ PublishedEnded' /\ LeagueRead' /\ ActiveInForce' /\ DetailsFollowLeague'
         /\ tx # NoTx /\ UNCHANGED tx => TxOf(tx, tx.job[1])'
<1>1. OneActiveRun'
  BY DEF UnderstatIInv, OneActiveRun, LaneOf
<1>2. PublishedEnded'
  BY DEF UnderstatIInv, PublishedEnded, SettledItems
<1>3. LeagueRead'
  BY DEF UnderstatIInv, LeagueRead
<1>4. ActiveInForce'
  BY DEF UnderstatIInv, ActiveInForce, InForce, LaneOf
<1>5. DetailsFollowLeague'
  BY DEF UnderstatIInv, DetailsFollowLeague
<1>6. ASSUME tx # NoTx, UNCHANGED tx PROVE TxOf(tx, tx.job[1])'
  <2>1. TxOf(tx, tx.job[1])
    BY <1>6 DEF UnderstatIInv
  <2> QED
    BY <1>6, <2>1 DEF TxOf, FindActiveRun, LaneOf, InForce, SettledItems
<1> QED
  BY <1>1, <1>2, <1>3, <1>4, <1>5, <1>6

\* The steps that only move jobs, with or without closing a transaction.
LEMMA QueueSteps ==
  ASSUME UnderstatIInv
  PROVE  /\ \A r \in UnderstatRun : FinalizeSettled(r) => UnderstatIInv'
         /\ \A j \in UJob : RefusedJob(j) => UnderstatIInv'
         /\ AbortTx => UnderstatIInv'
         /\ TxJobStalls => UnderstatIInv'
<1>0. UnderstatTypeOK /\ JobsCounted
  BY DEF UnderstatIInv
<1>1. ASSUME UNCHANGED <<source, request, runStatus, item, staged, facts, publishedRuns>>,
             tx' \in {tx, NoTx},
             ujob' \in [UJob -> {"none", "waiting", "active", "completed", "failed"}],
             utries' \in [UJob -> 0 .. UnderstatAttempts],
             JobsCounted', Notes', bookkeeping' \subseteq BookRecord,
             \A b \in bookkeeping' : b.job \in UJob,
             uFaults' \in 0 .. MaxUnderstatFaults
      PROVE  UnderstatIInv'
  <2>1. tx' # NoTx => tx' \in TxRecord
    BY <1>1 DEF UnderstatIInv, UnderstatShapes
  <2>2. tx' = NoTx \/ tx'.job \in UJob
    BY <1>1, <1>0 DEF UnderstatTypeOK
  <2>3. UnderstatTypeOK'
    BY <1>0, <1>1, <2>2 DEF UnderstatTypeOK
  <2>4. (tx # NoTx => TxOf(tx, tx.job[1]))'
    BY <1>1, TablesRest
  <2>5. OneActiveRun' /\ PublishedEnded' /\ LeagueRead' /\ ActiveInForce' /\ DetailsFollowLeague'
    BY <1>1, TablesRest
  <2>6. UnderstatShapes'
    BY <1>1, <2>1 DEF UnderstatShapes
  <2> QED
    BY <1>1, <2>3, <2>4, <2>5, <2>6 DEF UnderstatIInv
<1>2. ASSUME NEW r \in UnderstatRun, FinalizeSettled(r) PROVE UnderstatIInv'
  <2>1. Finalize(r) \in UJob /\ ujob[Finalize(r)] = "waiting"
    BY <1>2, JobNames DEF FinalizeSettled, MayStart
  <2>2. request[Finalize(r)[1]] # NoRequest
    BY <1>0, <2>1 DEF JobsCounted
  <2>3. ujob' = [Add({}, ujob) EXCEPT ![Finalize(r)] = "completed"]
    BY <1>0, <1>2 DEF FinalizeSettled, Add, UnderstatTypeOK
  <2>4. UNCHANGED <<request, utries>>
    BY <1>2 DEF FinalizeSettled
  <2>5. /\ ujob' \in [UJob -> {"none", "waiting", "active", "completed", "failed"}]
        /\ utries' \in [UJob -> 0 .. UnderstatAttempts] /\ JobsCounted'
    <3>1. /\ {} \in SUBSET UJob /\ \A k \in {} : request[k[1]] # NoRequest
          /\ "completed" \in {"waiting", "active", "completed", "failed"}
          /\ "completed" \notin {"waiting", "active"}
      OBVIOUS
    <3> QED
      BY <1>0, <2>1, <2>2, <2>3, <2>4, <3>1, JobsNext, Zenon
  <2>6. /\ Notes' /\ bookkeeping' \subseteq BookRecord /\ \A b \in bookkeeping' : b.job \in UJob
        /\ uFaults' \in 0 .. MaxUnderstatFaults
    BY <1>2 DEF FinalizeSettled, UnderstatIInv, Notes, UnderstatShapes, UnderstatTypeOK
  <2> QED
    BY <1>1, <1>2, <2>5, <2>6 DEF FinalizeSettled
<1>3. ASSUME NEW j \in UJob, RefusedJob(j) PROVE UnderstatIInv'
  <2>1. ujob = Add({}, ujob)
    BY <1>0 DEF Add, UnderstatTypeOK
  <2>2. /\ ujob[j] = "waiting" /\ AttemptFails(j, Add({}, ujob))
        /\ UNCHANGED <<source, request, runStatus, item, staged, facts, publishedRuns, tx, uFaults>>
    BY <1>3, <2>1 DEF RefusedJob, MayStart
  <2>3. /\ ujob' \in [UJob -> {"none", "waiting", "active", "completed", "failed"}]
        /\ utries' \in [UJob -> 0 .. UnderstatAttempts]
        /\ JobsCounted' /\ Notes' /\ bookkeeping' \subseteq BookRecord
        /\ \A b \in bookkeeping' : b.job \in UJob
    BY <2>2, AttemptFailsFacts
  <2>4. uFaults' \in 0 .. MaxUnderstatFaults
    BY <1>0, <2>2 DEF UnderstatTypeOK
  <2> QED
    BY <1>1, <2>2, <2>3, <2>4
<1>4. ASSUME AbortTx PROVE UnderstatIInv'
  <2>1. /\ tx # NoTx /\ tx' = NoTx /\ uFaults < MaxUnderstatFaults /\ uFaults' = uFaults + 1
        /\ UNCHANGED <<source, request, runStatus, item, staged, facts, publishedRuns>>
    BY <1>4 DEF AbortTx
  <2>2. tx.job \in UJob /\ tx.adds \in SUBSET UJob
    BY <2>1 DEF UnderstatIInv, UnderstatShapes, TxRecord
  <2>3. PICK adds \in SUBSET tx.adds :
          IF ujob[tx.job] = "active" THEN AttemptFails(tx.job, Add(adds, ujob))
          ELSE ujob' = Add(adds, ujob) /\ UNCHANGED <<utries, bookkeeping>>
    BY <1>4 DEF AbortTx
  <2>4. TxOf(tx, tx.job[1])
    BY <2>1 DEF UnderstatIInv
  <2>5. adds \in SUBSET UJob /\ \A k \in adds : request[k[1]] # NoRequest
    BY <2>2, <2>3, <2>4 DEF TxOf
  <2>6. uFaults' \in 0 .. MaxUnderstatFaults
    BY <1>0, <2>1, UnderstatAssumption DEF UnderstatTypeOK
  <2>7. CASE ujob[tx.job] = "active"
    <3>1. AttemptFails(tx.job, Add(adds, ujob))
      BY <2>3, <2>7
    <3>2. /\ ujob' \in [UJob -> {"none", "waiting", "active", "completed", "failed"}]
          /\ utries' \in [UJob -> 0 .. UnderstatAttempts]
          /\ JobsCounted' /\ Notes' /\ bookkeeping' \subseteq BookRecord
          /\ \A b \in bookkeeping' : b.job \in UJob
      BY <2>1, <2>2, <2>5, <2>7, <3>1, AttemptFailsFacts
    <3> QED
      BY <1>1, <2>1, <2>6, <3>2
  <2>8. CASE ujob[tx.job] # "active"
    <3>1. ujob' = Add(adds, ujob) /\ UNCHANGED <<utries, bookkeeping>>
      BY <2>3, <2>8
    <3>2. /\ ujob' \in [UJob -> {"none", "waiting", "active", "completed", "failed"}]
          /\ JobsCounted'
      BY <1>0, <2>1, <2>5, <3>1, JobsAdded
    <3>3. /\ Notes' /\ bookkeeping' \subseteq BookRecord /\ \A b \in bookkeeping' : b.job \in UJob
          /\ utries' \in [UJob -> 0 .. UnderstatAttempts]
      BY <2>1, <3>1 DEF UnderstatIInv, Notes, UnderstatShapes, UnderstatTypeOK
    <3> QED
      BY <1>1, <2>1, <2>6, <3>2, <3>3
  <2> QED
    BY <2>7, <2>8
<1>5. ASSUME TxJobStalls PROVE UnderstatIInv'
  <2>1. /\ tx # NoTx /\ uFaults < MaxUnderstatFaults /\ uFaults' = uFaults + 1
        /\ ujob[tx.job] = "active" /\ AttemptFails(tx.job, ujob)
        /\ UNCHANGED <<source, request, runStatus, item, staged, facts, publishedRuns, tx>>
    BY <1>5 DEF TxJobStalls
  <2>2. tx.job \in UJob
    BY <2>1 DEF UnderstatIInv, UnderstatShapes, TxRecord
  <2>3. ujob = Add({}, ujob)
    BY <1>0 DEF Add, UnderstatTypeOK
  <2>4. AttemptFails(tx.job, Add({}, ujob))
    BY <2>1, <2>3
  <2>5. /\ ujob' \in [UJob -> {"none", "waiting", "active", "completed", "failed"}]
        /\ utries' \in [UJob -> 0 .. UnderstatAttempts]
        /\ JobsCounted' /\ Notes' /\ bookkeeping' \subseteq BookRecord
        /\ \A b \in bookkeeping' : b.job \in UJob
    BY <2>1, <2>2, <2>4, AttemptFailsFacts
  <2>6. uFaults' \in 0 .. MaxUnderstatFaults
    BY <1>0, <2>1, UnderstatAssumption DEF UnderstatTypeOK
  <2> QED
    BY <1>1, <2>1, <2>5, <2>6
<1> QED
  BY <1>2, <1>3, <1>4, <1>5

\* The command and the provider.
LEMMA OutsideSteps ==
  ASSUME UnderstatIInv
  PROVE  /\ \A r \in UnderstatRun : RequestSync(r) => UnderstatIInv'
         /\ \A x \in Resource : SourceMoves(x) => UnderstatIInv'
<1>0. UnderstatTypeOK /\ JobsCounted
  BY DEF UnderstatIInv
<1>1. ASSUME NEW r \in UnderstatRun, RequestSync(r) PROVE UnderstatIInv'
  <2>1. PICK q \in URequest : request' = [request EXCEPT ![r] = q]
    BY <1>1 DEF RequestSync
  <2>2. /\ request[r] = NoRequest /\ ujob' = Add({Discover(r)}, ujob) /\ runStatus[r] = "none"
        /\ UNCHANGED <<source, runStatus, item, staged, facts, publishedRuns, utries, tx,
                       bookkeeping, uFaults>>
    BY <1>1 DEF RequestSync, UnderstatIInv, OneActiveRun
  <2>3. q # NoRequest /\ q.lane \in {"team", "player"}
    BY <2>1, UnderstatAssumption DEF NoRequest
  <2>4. /\ request' \in [UnderstatRun -> URequest \cup {NoRequest}] /\ request'[r] = q
        /\ \A p \in UnderstatRun \ {r} : request'[p] = request[p]
    BY <1>0, <2>1 DEF UnderstatTypeOK
  <2>5. Discover(r) \in UJob /\ Discover(r)[1] = r /\ UnderstatAttempts \in Nat \ {0}
    BY JobNames, UnderstatAssumption
  <2>6. /\ ujob' \in [UJob -> {"none", "waiting", "active", "completed", "failed"}]
        /\ \A k \in UJob : \/ ujob'[k] = ujob[k]
                           \/ k = Discover(r) /\ ujob[k] = "none" /\ ujob'[k] = "waiting"
    <3>1. {Discover(r)} \in SUBSET UJob /\ \A k : k \in {Discover(r)} <=> k = Discover(r)
      BY <2>5
    <3>2. ujob \in [UJob -> {"none", "waiting", "active", "completed", "failed"}]
      BY <1>0 DEF UnderstatTypeOK
    <3> HIDE DEF Add
    <3> QED
      BY <2>2, <3>1, <3>2, AddFacts, Zenon
  <2>7. JobsCounted'
    <3> SUFFICES ASSUME NEW k \in UJob
                 PROVE  /\ ujob'[k] \in {"waiting", "active"} => utries'[k] < UnderstatAttempts
                        /\ ujob'[k] = "none" => utries'[k] = 0
                        /\ ujob'[k] # "none" => request'[k[1]] # NoRequest
      BY DEF JobsCounted
    <3>1. k[1] \in UnderstatRun
      BY JobsOfRun
    <3>2. CASE ujob'[k] = ujob[k]
      BY <1>0, <2>2, <2>3, <2>4, <3>1, <3>2 DEF JobsCounted
    <3>3. CASE k = Discover(r) /\ ujob[k] = "none" /\ ujob'[k] = "waiting"
      BY <1>0, <2>2, <2>3, <2>4, <2>5, <3>3 DEF JobsCounted
    <3> QED
      BY <2>6, <3>2, <3>3
  <2>8. UnderstatTypeOK'
    BY <1>0, <2>2, <2>4, <2>6 DEF UnderstatTypeOK
  <2>9. UnderstatShapes' /\ Notes' /\ PublishedEnded' /\ LeagueRead' /\ DetailsFollowLeague'
    BY <2>2 DEF UnderstatIInv, UnderstatShapes, Notes, PublishedEnded, SettledItems, LeagueRead,
                DetailsFollowLeague
  <2>10. \A p \in UnderstatRun : runStatus[p] \in ActiveRun => p # r /\ request'[p] = request[p]
    BY <2>2, <2>4 DEF ActiveRun
  <2>11. OneActiveRun'
    BY <2>2, <2>3, <2>4, <2>10 DEF UnderstatIInv, OneActiveRun, LaneOf
  <2>12. ActiveInForce'
    BY <2>2, <2>10 DEF UnderstatIInv, ActiveInForce, InForce, LaneOf
  <2>13. ASSUME tx # NoTx PROVE TxOf(tx, tx.job[1])'
    <3>1. TxOf(tx, tx.job[1]) /\ tx.job \in UJob
      BY <2>13 DEF UnderstatIInv, UnderstatShapes, TxRecord
    <3>2. tx.job[1] \in UnderstatRun /\ tx.job[1] # r
      BY <2>2, <3>1, JobsOfRun DEF TxOf
    <3>3. request'[tx.job[1]] = request[tx.job[1]]
      BY <2>4, <3>2
    <3>4. FindActiveRun(tx.job[1])' = FindActiveRun(tx.job[1])
      BY <2>2, <2>10, <3>3 DEF FindActiveRun
    <3> QED
      BY <2>2, <3>1, <3>3, <3>4 DEF TxOf, LaneOf, InForce, SettledItems
  <2> QED
    BY <2>2, <2>7, <2>8, <2>9, <2>11, <2>12, <2>13 DEF UnderstatIInv
<1>2. ASSUME NEW x \in Resource, SourceMoves(x) PROVE UnderstatIInv'
  <2>1. /\ source[x] < MaxSourceVersion /\ source' = [source EXCEPT ![x] = @ + 1]
        /\ UNCHANGED <<request, runStatus, item, staged, facts, publishedRuns, ujob, utries, tx,
                       bookkeeping, uFaults>>
    BY <1>2 DEF SourceMoves
  <2>2. /\ source \in [Resource -> 1 .. MaxSourceVersion] /\ MaxSourceVersion \in Nat \ {0}
    BY <1>0, UnderstatAssumption DEF UnderstatTypeOK
  <2>3. source' \in [Resource -> 1 .. MaxSourceVersion] /\ \A y \in Resource : source[y] <= source'[y]
    BY <2>1, <2>2
  <2>4. UnderstatTypeOK'
    BY <1>0, <2>1, <2>3 DEF UnderstatTypeOK
  <2>5. /\ UnderstatShapes' /\ Notes' /\ PublishedEnded' /\ DetailsFollowLeague'
        /\ JobsCounted' /\ OneActiveRun' /\ ActiveInForce'
    BY <2>1 DEF UnderstatIInv, UnderstatShapes, Notes, PublishedEnded, SettledItems,
                DetailsFollowLeague, JobsCounted, OneActiveRun, ActiveInForce, InForce, LaneOf
  <2>6. \A n \in Nat : \A y \in Resource : n <= source[y] => n <= source'[y]
    BY <2>2, <2>3
  <2>7. LeagueRead'
    <3>1. \A r \in UnderstatRun : \A y \in Resource : staged[r].league[y] \in Nat
      BY <1>0, <2>2 DEF UnderstatTypeOK, Versions
    <3> QED
      BY <2>1, <2>6, <3>1 DEF UnderstatIInv, LeagueRead
  <2>8. ASSUME tx # NoTx PROVE TxOf(tx, tx.job[1])'
    <3>1. TxOf(tx, tx.job[1]) /\ tx.payload \in Versions
      BY <2>8 DEF UnderstatIInv, UnderstatShapes, TxRecord
    <3>2. \A y \in Resource : tx.payload.league[y] \in Nat
      BY <2>2, <3>1 DEF Versions
    <3>3. \A y \in Resource : tx.payload.league[y] <= source'[y]
      BY <2>6, <3>1, <3>2 DEF TxOf
    <3> QED
      BY <2>1, <3>1, <3>3 DEF TxOf, FindActiveRun, LaneOf, InForce, SettledItems
  <2> QED
    BY <2>1, <2>4, <2>5, <2>7, <2>8 DEF UnderstatIInv
<1> QED
  BY <1>1, <1>2

\* A transaction that opens with writes its run allows.
LEMMA OpensKeeps ==
  ASSUME UnderstatIInv, NEW j \in UJob, MayStart(j), NEW rows \in RowsRecord,
         NEW payload \in Versions, NEW status \in Counted \cup {"completed"},
         NEW adds \in SUBSET UJob, Opens(j, rows, payload, status, adds),
         TxOf([job |-> j, rows |-> rows, payload |-> payload, status |-> status, adds |-> adds], j[1])
  PROVE  UnderstatIInv'
<1> DEFINE t == [job |-> j, rows |-> rows, payload |-> payload, status |-> status, adds |-> adds]
<1>0. UnderstatTypeOK /\ JobsCounted
  BY DEF UnderstatIInv
<1>1. /\ tx' = t /\ ujob' = [ujob EXCEPT ![j] = "active"] /\ ujob[j] = "waiting"
      /\ UNCHANGED <<source, request, runStatus, item, staged, facts, publishedRuns, utries,
                     bookkeeping, uFaults>>
  BY DEF Opens, MayStart
<1>2. t \in TxRecord /\ t.job = j
  BY DEF TxRecord
<1>3. utries[j] < UnderstatAttempts /\ request[j[1]] # NoRequest
  BY <1>0, <1>1 DEF JobsCounted
<1>4. ujob' \in [UJob -> {"none", "waiting", "active", "completed", "failed"}] /\ JobsCounted'
  BY <1>0, <1>1, <1>3 DEF JobsCounted, UnderstatTypeOK
<1> HIDE DEF t
<1>5. UnderstatTypeOK'
  BY <1>0, <1>1, <1>2, <1>4 DEF UnderstatTypeOK
<1>6. UnderstatShapes' /\ Notes'
  BY <1>1, <1>2 DEF UnderstatIInv, UnderstatShapes, Notes
<1>7. OneActiveRun' /\ PublishedEnded' /\ LeagueRead' /\ ActiveInForce' /\ DetailsFollowLeague'
  BY <1>1, TablesRest
<1>8. TxOf(t, j[1])'
  <2>1. TxOf(t, j[1])
    BY DEF t
  <2> QED
    BY <1>1, <2>1 DEF TxOf, FindActiveRun, LaneOf, InForce, SettledItems, t
<1>9. TxOf(tx, tx.job[1])'
  BY <1>1, <1>2, <1>8, Zenon
<1> QED
  BY <1>4, <1>5, <1>6, <1>7, <1>9 DEF UnderstatIInv

LEMMA UnderstatLanes ==
  ASSUME UnderstatTypeOK, NEW r \in UnderstatRun, request[r] # NoRequest
  PROVE  /\ request[r] \in URequest /\ LaneOf(r) \in {"team", "player"}
         /\ request[r].explicit \subseteq UTeam /\ OfLane(LaneOf(r)) \subseteq Resource
BY UnderstatAssumption DEF UnderstatTypeOK, LaneOf, OfLane, Resource

LEMMA SourceNumbers ==
  ASSUME UnderstatTypeOK
  PROVE  /\ \A x \in Resource : source[x] \in Nat
         /\ \A v \in Versions : \A x \in Resource : v.league[x] \in Nat /\ v.detail[x] \in Nat
         /\ [league |-> [x \in Resource |-> source[x]], detail |-> Unstaged.detail] \in Versions
         /\ Unstaged \in Versions
BY UnderstatAssumption DEF UnderstatTypeOK, Versions, Unstaged

LEMMA NoRowsFacts ==
  /\ NoRows \in RowsRecord /\ DOMAIN NoRows = {}
  /\ \A items : items \in [Resource -> ItemStatus] => WithRows(items, NoRows) = items
<1>1. NoRows \in [{} -> ItemStatus] /\ {} \in SUBSET Resource /\ DOMAIN NoRows = {}
  BY DEF NoRows
<1>2. NoRows \in RowsRecord
  BY <1>1 DEF RowsRecord
<1> QED
  BY <1>1, <1>2 DEF WithRows

\* Every resource of the lane whose league row changed is a target.
LEMMA ChangedIsTarget ==
  ASSUME UnderstatTypeOK, NEW r \in UnderstatRun, request[r] # NoRequest,
         NEW corrected \in SUBSET UMatch
  PROVE  /\ Changed(LaneOf(r)) \subseteq Targets(r, corrected)
         /\ Targets(r, corrected) \subseteq Resource
<1> DEFINE q == request[r]
           prior == PriorUnsettled(r)
           existing == Existing(LaneOf(r))
<1>1. q.lane \in {"team", "player"} /\ LaneOf(r) = q.lane /\ q.explicit \subseteq UTeam
  BY UnderstatLanes DEF LaneOf
<1>2. prior \subseteq Resource
  BY DEF PriorUnsettled
<1> HIDE DEF prior, existing
<1>3. Targets(r, corrected) =
        MergeIds(q.lane, SelectTeams(q.lane, q, existing), IF q.explicit # {} THEN {} ELSE prior \cap UTeam)
        \cup (IF q.lane = "team" THEN {}
              ELSE SelectMatches(q, existing, corrected) \cup (prior \cap UMatch))
  BY DEF Targets, prior, existing, LaneOf
<1>4. Targets(r, corrected) \subseteq Resource
  BY <1>1, <1>2, <1>3 DEF MergeIds, SelectTeams, SelectMatches, Changed, OfLane, Resource
<1>5. Changed(q.lane) \cap UTeam \subseteq Targets(r, corrected)
  BY <1>3 DEF MergeIds
<1>6. q.lane = "team" => Changed(q.lane) \subseteq UTeam
  BY DEF Changed, OfLane
<1>7. q.lane = "player" => Changed(q.lane) \cap UMatch \subseteq Targets(r, corrected)
  BY <1>3 DEF SelectMatches
<1>8. Changed(q.lane) \subseteq UTeam \cup UMatch
  BY <1>1 DEF Changed, OfLane, Resource
<1> QED
  BY <1>1, <1>4, <1>5, <1>6, <1>7, <1>8

LEMMA DiscoverStep ==
  ASSUME UnderstatIInv, NEW r \in UnderstatRun, DiscoverLeague(r)
  PROVE  UnderstatIInv'
<1>0. UnderstatTypeOK /\ JobsCounted
  BY DEF UnderstatIInv
<1>1. PICK corrected \in SUBSET UMatch :
        LET targets == Targets(r, corrected)
            items == [x \in Resource |-> IF x \in targets THEN "pending" ELSE "none"]
            status == Refreshed(items)
        IN  Opens(Discover(r), items, [league |-> [x \in Resource |-> source[x]],
                                       detail |-> Unstaged.detail],
                  status, {Detail(r, x) : x \in targets} \cup Finalizes(r, status))
  BY DEF DiscoverLeague
<1> DEFINE targets == Targets(r, corrected)
           items == [x \in Resource |-> IF x \in targets THEN "pending" ELSE "none"]
           status == Refreshed(items)
           payload == [league |-> [x \in Resource |-> source[x]], detail |-> Unstaged.detail]
           adds == {Detail(r, x) : x \in targets} \cup Finalizes(r, status)
           t == [job |-> Discover(r), rows |-> items, payload |-> payload, status |-> status, adds |-> adds]
<1>2. Opens(Discover(r), items, payload, status, adds)
  BY <1>1
<1>3. /\ MayStart(Discover(r)) /\ runStatus[r] = "none" /\ FindActiveRun(r) = {}
      /\ Discover(r) \in UJob /\ Discover(r)[1] = r /\ Discover(r) # Finalize(r)
  BY JobNames DEF DiscoverLeague
<1>4. request[r] # NoRequest
  BY <1>0, <1>3 DEF JobsCounted, MayStart
<1>5. targets \subseteq Resource /\ Changed(LaneOf(r)) \subseteq targets
  BY <1>0, <1>4, ChangedIsTarget
<1> HIDE DEF targets
<1>6. items \in RowsRecord /\ DOMAIN items = Resource
  BY DEF RowsRecord, ItemStatus
<1>7. status \in Counted
  BY DEF Refreshed, Counted
<1>8. payload \in Versions /\ \A x \in Resource : payload.league[x] = source[x]
  BY <1>0, SourceNumbers
<1>9. adds \in SUBSET UJob /\ \A j \in adds : j[1] = r
  BY <1>5, JobNames DEF Finalizes
<1>10. InForce(WithRows(item[r], items), payload, facts[LaneOf(r)], LaneOf(r))
  <2> SUFFICES ASSUME NEW x \in OfLane(LaneOf(r))
               PROVE  LET all == WithRows(item[r], items)
                      IN  /\ all[x] = "none" => payload.league[x] = facts[LaneOf(r)].league[x]
                          /\ all[x] = "completed" => payload.detail[x] >= payload.league[x]
    BY DEF InForce
  <2>1. x \in Resource
    BY <1>0, <1>4, UnderstatLanes
  <2>2. WithRows(item[r], items)[x] = IF x \in targets THEN "pending" ELSE "none"
    BY <2>1 DEF WithRows
  <2>3. x \notin targets => source[x] = facts[LaneOf(r)].league[x]
    BY <1>5 DEF Changed
  <2> QED
    BY <1>8, <2>1, <2>2, <2>3
<1> HIDE DEF items, payload, adds, status
<1>11. \A x \in Resource : source[x] <= source[x]
  BY <1>0, SourceNumbers
<1>12. TxOf(t, r)
  BY <1>3, <1>4, <1>6, <1>7, <1>8, <1>9, <1>10, <1>11 DEF TxOf
<1> QED
  BY <1>2, <1>3, <1>6, <1>7, <1>8, <1>9, <1>12, OpensKeeps

LEMMA RediscoverStep ==
  ASSUME UnderstatIInv, NEW r \in UnderstatRun, RediscoverLeague(r)
  PROVE  UnderstatIInv'
<1>0. UnderstatTypeOK /\ JobsCounted
  BY DEF UnderstatIInv
<1> DEFINE status == Refreshed(item[r])
           adds == {Detail(r, x) : x \in {y \in Resource : item[r][y] = "pending"}} \cup Finalizes(r, status)
           t == [job |-> Discover(r), rows |-> NoRows, payload |-> staged[r], status |-> status, adds |-> adds]
<1>1. Opens(Discover(r), NoRows, staged[r], status, adds)
  BY DEF RediscoverLeague
<1>2. /\ MayStart(Discover(r)) /\ runStatus[r] # "none"
      /\ Discover(r) \in UJob /\ Discover(r)[1] = r /\ Discover(r) # Finalize(r)
  BY JobNames DEF RediscoverLeague
<1>3. request[r] # NoRequest
  BY <1>0, <1>2 DEF JobsCounted, MayStart
<1>4. status \in Counted
  BY DEF Refreshed, Counted
<1>5. staged[r] \in Versions /\ item[r] \in [Resource -> ItemStatus]
  BY <1>0 DEF UnderstatTypeOK, ItemStatus
<1>6. adds \in SUBSET UJob /\ \A j \in adds : j[1] = r
  BY JobNames DEF Finalizes
<1>7. \A x \in Resource : staged[r].league[x] <= source[x]
  BY DEF UnderstatIInv, LeagueRead
<1>8. WithRows(item[r], NoRows) = item[r] /\ NoRows \in RowsRecord /\ DOMAIN NoRows = {}
  BY <1>5, NoRowsFacts
<1>9. ~ Ended(runStatus[r]) => InForce(item[r], staged[r], facts[LaneOf(r)], LaneOf(r))
  BY <1>2 DEF UnderstatIInv, ActiveInForce, Ended
<1> HIDE DEF adds, status
<1>10. TxOf(t, r)
  BY <1>2, <1>3, <1>4, <1>6, <1>7, <1>8, <1>9 DEF TxOf
<1> QED
  BY <1>1, <1>2, <1>4, <1>5, <1>6, <1>8, <1>10, OpensKeeps

LEMMA FinalizeStep ==
  ASSUME UnderstatIInv, NEW r \in UnderstatRun, FinalizeRun(r)
  PROVE  UnderstatIInv'
<1>0. UnderstatTypeOK /\ JobsCounted
  BY DEF UnderstatIInv
<1> DEFINE t == [job |-> Finalize(r), rows |-> NoRows, payload |-> staged[r],
                 status |-> "completed", adds |-> {}]
<1>1. /\ Opens(Finalize(r), NoRows, staged[r], "completed", {})
      /\ MayStart(Finalize(r)) /\ runStatus[r] = "ready_to_publish" /\ SettledItems(item[r])
      /\ Finalize(r) \in UJob /\ Finalize(r)[1] = r
  BY JobNames DEF FinalizeRun, ReadyToFinalize, SettledItems
<1>2. request[r] # NoRequest
  BY <1>0, <1>1 DEF JobsCounted, MayStart
<1>3. staged[r] \in Versions /\ item[r] \in [Resource -> ItemStatus]
  BY <1>0 DEF UnderstatTypeOK, ItemStatus
<1>4. \A x \in Resource : staged[r].league[x] <= source[x]
  BY DEF UnderstatIInv, LeagueRead
<1>5. WithRows(item[r], NoRows) = item[r] /\ NoRows \in RowsRecord /\ DOMAIN NoRows = {}
  BY <1>3, NoRowsFacts
<1>6. InForce(item[r], staged[r], facts[LaneOf(r)], LaneOf(r))
  BY <1>1 DEF UnderstatIInv, ActiveInForce, ActiveRun
<1>7. FindActiveRun(r) = {}
  BY <1>1 DEF UnderstatIInv, OneActiveRun, FindActiveRun, LaneOf, ActiveRun
<1>8. TxOf(t, r)
  BY <1>1, <1>2, <1>4, <1>5, <1>6, <1>7 DEF TxOf
<1> QED
  BY <1>1, <1>3, <1>5, <1>8, OpensKeeps

LEMMA FetchStep ==
  ASSUME UnderstatIInv, NEW r \in UnderstatRun, NEW x \in Resource, FetchDetail(r, x)
  PROVE  UnderstatIInv'
<1>0. UnderstatTypeOK /\ JobsCounted
  BY DEF UnderstatIInv
<1> DEFINE mine == item[r][x] \in {"pending", "failed"} /\ runStatus[r] \in ActiveRun
           rows == IF mine THEN [y \in {x} |-> "completed"] ELSE NoRows
           payload == IF mine THEN [staged[r] EXCEPT !.detail[x] = source[x]] ELSE staged[r]
           status == Refreshed(WithRows(item[r], rows))
           adds == IF mine \/ item[r][x] = "completed" THEN Finalizes(r, status) ELSE {}
           t == [job |-> Detail(r, x), rows |-> rows, payload |-> payload, status |-> status, adds |-> adds]
<1>1. Opens(Detail(r, x), rows, payload, status, adds)
  BY DEF FetchDetail
<1>2. /\ MayStart(Detail(r, x)) /\ runStatus[r] # "none"
      /\ Detail(r, x) \in UJob /\ Detail(r, x)[1] = r /\ Detail(r, x) # Finalize(r)
  BY JobNames DEF FetchDetail
<1>3. request[r] # NoRequest
  BY <1>0, <1>2 DEF JobsCounted, MayStart
<1>4. status \in Counted
  BY DEF Refreshed, Counted
<1>5. staged[r] \in Versions /\ item[r] \in [Resource -> ItemStatus] /\ source[x] \in 0 .. MaxSourceVersion
  BY <1>0, UnderstatAssumption DEF UnderstatTypeOK, ItemStatus
<1>6. adds \in SUBSET UJob /\ \A j \in adds : j[1] = r
  BY JobNames DEF Finalizes
<1>7. rows \in RowsRecord /\ \A y \in DOMAIN rows : rows[y] = "completed"
  <2>1. {x} \in SUBSET Resource /\ [y \in {x} |-> "completed"] \in [{x} -> ItemStatus]
    BY DEF ItemStatus
  <2>2. [y \in {x} |-> "completed"] \in RowsRecord
    BY <2>1 DEF RowsRecord
  <2> QED
    BY <2>2, NoRowsFacts
<1>8. payload \in Versions /\ payload.league = staged[r].league
  BY <1>5 DEF Versions
<1>9. \A y \in Resource : staged[r].league[y] <= source[y]
  BY DEF UnderstatIInv, LeagueRead
<1>10. ASSUME ~ Ended(runStatus[r])
       PROVE  InForce(WithRows(item[r], rows), payload, facts[LaneOf(r)], LaneOf(r))
  <2>1. InForce(item[r], staged[r], facts[LaneOf(r)], LaneOf(r))
    BY <1>2, <1>10 DEF UnderstatIInv, ActiveInForce, Ended
  <2>2. CASE ~ mine
    BY <1>5, <2>1, <2>2, NoRowsFacts
  <2>3. CASE mine
    <3> SUFFICES ASSUME NEW y \in OfLane(LaneOf(r))
                 PROVE  LET all == WithRows(item[r], rows)
                        IN  /\ all[y] = "none" => payload.league[y] = facts[LaneOf(r)].league[y]
                            /\ all[y] = "completed" => payload.detail[y] >= payload.league[y]
      BY DEF InForce
    <3>1. y \in Resource
      BY <1>0, <1>3, UnderstatLanes
    <3>2. /\ staged[r].league[y] \in Nat /\ source[y] \in Nat
      BY <1>0, <1>5, <3>1, SourceNumbers
    <3>3. CASE y = x
      <4>1. WithRows(item[r], rows)[y] = "completed"
        BY <2>3, <3>1, <3>3 DEF WithRows
      <4>2. payload.detail[y] = source[y]
        BY <1>5, <2>3, <3>3 DEF Versions
      <4> QED
        BY <1>8, <1>9, <3>1, <3>2, <4>1, <4>2
    <3>4. CASE y # x
      <4>1. WithRows(item[r], rows)[y] = item[r][y]
        BY <2>3, <3>1, <3>4 DEF WithRows
      <4>2. payload.detail[y] = staged[r].detail[y]
        BY <1>5, <2>3, <3>4 DEF Versions
      <4> QED
        BY <1>8, <2>1, <4>1, <4>2 DEF InForce
    <3> QED
      BY <3>3, <3>4
  <2> QED
    BY <2>2, <2>3
<1> HIDE DEF adds, status, rows, payload
<1>11. TxOf(t, r)
  BY <1>2, <1>3, <1>4, <1>6, <1>7, <1>8, <1>9, <1>10 DEF TxOf
<1> QED
  BY <1>1, <1>2, <1>4, <1>6, <1>7, <1>8, <1>11, OpensKeeps

\* What the last statement of a transaction makes of the status of its run.
LEMMA StatusFacts ==
  ASSUME UnderstatTypeOK, NEW r \in UnderstatRun, NEW s
  PROVE  StatusIfActive(r, s) = IF Ended(runStatus[r]) THEN runStatus[r] ELSE s
BY DEF StatusIfActive, Ended

LEMMA WithRowsType ==
  ASSUME NEW items \in [Resource -> ItemStatus], NEW rows \in RowsRecord
  PROVE  WithRows(items, rows) \in [Resource -> ItemStatus]
BY DEF WithRows, RowsRecord

LEMMA WrittenFacts ==
  ASSUME UnderstatTypeOK, NEW r \in UnderstatRun, request[r] # NoRequest
  PROVE  /\ Written(r) \in Versions
         /\ \A x \in OfLane(LaneOf(r)) :
              /\ Written(r).league[x] = staged[r].league[x]
              /\ Written(r).detail[x] = IF item[r][x] = "completed" THEN staged[r].detail[x]
                                        ELSE facts[LaneOf(r)].detail[x]
<1>1. /\ LaneOf(r) \in {"team", "player"} /\ OfLane(LaneOf(r)) \subseteq Resource
      /\ staged[r] \in Versions /\ facts[LaneOf(r)] \in Versions
  BY UnderstatLanes DEF UnderstatTypeOK
<1>2. Replaced(r) \in [Resource -> 0 .. MaxSourceVersion]
  BY <1>1 DEF Replaced, LaneOf, Versions
<1>3. \A x \in Resource : Replaced(r)[x] = IF item[r][x] = "completed" THEN staged[r].detail[x]
                                          ELSE facts[LaneOf(r)].detail[x]
  BY DEF Replaced, LaneOf
<1>4. 0 \in 0 .. MaxSourceVersion /\ \A x \in Resource : LeagueRow(r, x) \in 0 .. MaxSourceVersion
  BY <1>1, UnderstatAssumption DEF LeagueRow, Versions
<1>5. CASE LaneOf(r) = "team"
  <2>1. Written(r) = TeamRows(r) /\ OfLane(LaneOf(r)) = UTeam /\ UTeam \subseteq Resource
    BY <1>5 DEF Written, LaneOf, OfLane, Resource
  <2> QED
    BY <1>2, <1>3, <1>4, <2>1 DEF TeamRows, Versions, LeagueRow
<1>6. CASE LaneOf(r) = "player"
  <2>1. Written(r) = PlayerRows(r) /\ OfLane(LaneOf(r)) = Resource
    BY <1>6 DEF Written, LaneOf, OfLane
  <2> QED
    BY <1>2, <1>3, <1>4, <2>1 DEF PlayerRows, Versions, LeagueRow
<1> QED
  BY <1>1, <1>5, <1>6

\* The commit: the queue.
LEMMA CommitJobs ==
  ASSUME UnderstatIInv, NEW acked \in BOOLEAN, CommitTx(acked)
  PROVE  /\ ujob' \in [UJob -> {"none", "waiting", "active", "completed", "failed"}]
         /\ JobsCounted'
<1>0. UnderstatTypeOK /\ JobsCounted
  BY DEF UnderstatIInv
<1>1. tx # NoTx /\ tx \in TxRecord /\ TxOf(tx, tx.job[1]) /\ UNCHANGED <<request, utries>>
  BY DEF CommitTx, UnderstatIInv, UnderstatShapes
<1>2. tx.job \in UJob /\ tx.adds \in SUBSET UJob
  BY <1>1 DEF TxRecord
<1>3. PICK adds \in SUBSET tx.adds :
        ujob' = IF Add(adds, ujob)[tx.job] = "active"
                THEN [Add(adds, ujob) EXCEPT ![tx.job] = IF acked THEN "completed" ELSE "waiting"]
                ELSE Add(adds, ujob)
  <2> DEFINE adds == IF tx.status = "ready_to_publish"
                        /\ runStatus[tx.job[1]] \notin ActiveRun \cup {"none"}
                     THEN tx.adds \ {Finalize(tx.job[1])} ELSE tx.adds
  <2>1. adds \in SUBSET tx.adds
    OBVIOUS
  <2>2. ujob' = IF Add(adds, ujob)[tx.job] = "active"
                THEN [Add(adds, ujob) EXCEPT ![tx.job] = IF acked THEN "completed" ELSE "waiting"]
                ELSE Add(adds, ujob)
    BY DEF CommitTx
  <2> HIDE DEF adds
  <2> QED
    BY <2>1, <2>2
<1>4. /\ adds \in SUBSET UJob /\ \A k \in adds : request[k[1]] # NoRequest
      /\ request[tx.job[1]] # NoRequest
  BY <1>1, <1>2, <1>3 DEF TxOf
<1>5. CASE Add(adds, ujob)[tx.job] # "active"
  <2>1. ujob' = Add(adds, ujob)
    BY <1>3, <1>5
  <2> QED
    BY <1>0, <1>1, <1>4, <2>1, JobsAdded
<1>6. CASE Add(adds, ujob)[tx.job] = "active"
  <2>1. PICK s \in {"waiting", "completed"} : ujob' = [Add(adds, ujob) EXCEPT ![tx.job] = s]
    BY <1>3, <1>6
  <2>2. ujob[tx.job] = "active"
    BY <1>0, <1>2, <1>4, <1>6, AddFacts DEF UnderstatTypeOK
  <2>3. utries[tx.job] < UnderstatAttempts
    BY <1>0, <1>2, <2>2 DEF JobsCounted
  <2>4. s \in {"waiting", "active", "completed", "failed"}
    BY <2>1
  <2> QED
    BY <1>0, <1>1, <1>2, <1>4, <2>1, <2>3, <2>4, JobsNext
<1> QED
  BY <1>5, <1>6

\* The commit: the tables.
LEMMA CommitTables ==
  ASSUME UnderstatIInv, NEW acked \in BOOLEAN, CommitTx(acked)
  PROVE  \E r, s :
           /\ r \in UnderstatRun /\ r = tx.job[1] /\ tx # NoTx /\ tx \in TxRecord /\ TxOf(tx, r)
           /\ s = IF Ended(runStatus[r]) THEN runStatus[r]
                  ELSE IF tx.job = Finalize(r) /\ ~ Complete(Written(r), LaneOf(r)) THEN "skipped"
                  ELSE tx.status
           /\ item' = [item EXCEPT ![r] = WithRows(item[r], tx.rows)]
           /\ staged' = [staged EXCEPT ![r] = tx.payload]
           /\ runStatus' = [runStatus EXCEPT ![r] = s]
           /\ \/ /\ tx.job = Finalize(r) /\ publishedRuns' = publishedRuns \cup {r}
                 /\ facts' = [facts EXCEPT ![LaneOf(r)] = Written(r)]
              \/ UNCHANGED <<facts, publishedRuns>>
           /\ tx' = NoTx /\ uFaults' \in 0 .. MaxUnderstatFaults
           /\ UNCHANGED <<source, request, utries, bookkeeping>>
<1>0. UnderstatTypeOK
  BY DEF UnderstatIInv
<1> DEFINE r == tx.job[1]
           whole == Complete(Written(r), LaneOf(r))
           s == IF Ended(runStatus[r]) THEN runStatus[r]
                ELSE IF tx.job = Finalize(r) /\ ~ whole THEN "skipped" ELSE tx.status
<1>1. tx # NoTx /\ tx \in TxRecord /\ TxOf(tx, r) /\ r \in UnderstatRun
  <2>1. tx # NoTx /\ tx \in TxRecord
    BY DEF CommitTx, UnderstatIInv, UnderstatShapes
  <2> QED
    BY <2>1, JobsOfRun DEF UnderstatIInv, TxRecord
<1>2. /\ item' = [item EXCEPT ![r] = WithRows(item[r], tx.rows)]
      /\ staged' = [staged EXCEPT ![r] = tx.payload]
      /\ tx' = NoTx /\ UNCHANGED <<source, request, utries, bookkeeping>>
  BY DEF CommitTx
<1>3. runStatus' = [runStatus EXCEPT ![r] =
        StatusIfActive(r, IF tx.job = Finalize(r) /\ ~ whole THEN "skipped" ELSE tx.status)]
  BY DEF CommitTx, LaneOf
<1>4. runStatus' = [runStatus EXCEPT ![r] = s]
  <2>1. StatusIfActive(r, IF tx.job = Finalize(r) /\ ~ whole THEN "skipped" ELSE tx.status) = s
    BY <1>0, <1>1, StatusFacts
  <2> QED
    BY <1>3, <2>1
<1>5. \/ /\ tx.job = Finalize(r) /\ publishedRuns' = publishedRuns \cup {r}
         /\ facts' = [facts EXCEPT ![LaneOf(r)] = Written(r)]
      \/ UNCHANGED <<facts, publishedRuns>>
  BY DEF CommitTx, LaneOf
<1>6. uFaults' \in 0 .. MaxUnderstatFaults
  BY <1>0, UnderstatAssumption DEF CommitTx, UnderstatTypeOK
<1> HIDE DEF r, s
<1>7. s = IF Ended(runStatus[r]) THEN runStatus[r]
          ELSE IF tx.job = Finalize(r) /\ ~ Complete(Written(r), LaneOf(r)) THEN "skipped"
          ELSE tx.status
  BY DEF s
<1>8. r = tx.job[1]
  BY DEF r
<1> QED
  BY <1>1, <1>2, <1>4, <1>5, <1>6, <1>7, <1>8

LEMMA CommitStep ==
  ASSUME UnderstatIInv, NEW acked \in BOOLEAN, CommitTx(acked)
  PROVE  UnderstatIInv'
<1>0. UnderstatTypeOK /\ JobsCounted /\ OneActiveRun /\ PublishedEnded /\ LeagueRead /\ ActiveInForce
      /\ Notes /\ DetailsFollowLeague /\ UnderstatShapes
  BY DEF UnderstatIInv
<1>1. PICK r, s :
        /\ r \in UnderstatRun /\ r = tx.job[1] /\ tx # NoTx /\ tx \in TxRecord /\ TxOf(tx, r)
        /\ s = IF Ended(runStatus[r]) THEN runStatus[r]
               ELSE IF tx.job = Finalize(r) /\ ~ Complete(Written(r), LaneOf(r)) THEN "skipped"
               ELSE tx.status
        /\ item' = [item EXCEPT ![r] = WithRows(item[r], tx.rows)]
        /\ staged' = [staged EXCEPT ![r] = tx.payload]
        /\ runStatus' = [runStatus EXCEPT ![r] = s]
        /\ \/ /\ tx.job = Finalize(r) /\ publishedRuns' = publishedRuns \cup {r}
              /\ facts' = [facts EXCEPT ![LaneOf(r)] = Written(r)]
           \/ UNCHANGED <<facts, publishedRuns>>
        /\ tx' = NoTx /\ uFaults' \in 0 .. MaxUnderstatFaults
        /\ UNCHANGED <<source, request, utries, bookkeeping>>
  BY CommitTables
<1> r \in UnderstatRun
  BY <1>1
<1> DEFINE items == WithRows(item[r], tx.rows)
           final == tx.job = Finalize(r)
<1>2. /\ tx.rows \in RowsRecord /\ tx.payload \in Versions /\ tx.status \in Counted \cup {"completed"}
      /\ request[r] # NoRequest
  BY <1>1 DEF TxRecord, TxOf
<1>3. /\ item[r] \in [Resource -> ItemStatus] /\ items \in [Resource -> ItemStatus]
  BY <1>0, <1>2, WithRowsType DEF UnderstatTypeOK, ItemStatus
<1> HIDE DEF items
<1>4. /\ item'[r] = items /\ staged'[r] = tx.payload /\ runStatus'[r] = s
      /\ \A p \in UnderstatRun \ {r} : /\ item'[p] = item[p] /\ staged'[p] = staged[p]
                                       /\ runStatus'[p] = runStatus[p]
  BY <1>0, <1>1 DEF UnderstatTypeOK, items
<1>5. s \in ActiveRun \cup {"failed", "completed", "skipped"}
  <2>1. runStatus[r] \in ActiveRun \cup {"none", "failed", "completed", "skipped"}
    BY <1>0 DEF UnderstatTypeOK
  <2>2. CASE Ended(runStatus[r])
    BY <1>1, <2>1, <2>2 DEF Ended, ActiveRun
  <2>3. CASE ~ Ended(runStatus[r])
    BY <1>1, <1>2, <2>3 DEF Counted, ActiveRun
  <2> QED
    BY <2>2, <2>3
<1>6. /\ Ended(runStatus[r]) => s = runStatus[r] /\ Ended(s)
      /\ final => Ended(s)
      /\ s \in ActiveRun => ~ Ended(runStatus[r]) /\ ~ final
      /\ s # "none"
  <2>1. final => tx.status = "completed"
    BY <1>1 DEF TxOf
  <2> QED
    BY <1>1, <1>5, <2>1 DEF Ended, ActiveRun
<1>7. /\ facts \in [{"team", "player"} -> Versions] /\ LaneOf(r) \in {"team", "player"}
      /\ Written(r) \in Versions
  BY <1>0, <1>2, UnderstatLanes, WrittenFacts DEF UnderstatTypeOK
<1>8. facts' \in [{"team", "player"} -> Versions] /\ publishedRuns' \subseteq UnderstatRun
  BY <1>0, <1>1, <1>7 DEF UnderstatTypeOK
<1>9. /\ ujob' \in [UJob -> {"none", "waiting", "active", "completed", "failed"}]
      /\ JobsCounted'
  BY CommitJobs
<1>10. /\ item' \in [UnderstatRun -> [Resource -> ItemStatus]] /\ staged' \in [UnderstatRun -> Versions]
       /\ runStatus' \in [UnderstatRun -> ActiveRun \cup {"none", "failed", "completed", "skipped"}]
  <2>1. item \in [UnderstatRun -> [Resource -> ItemStatus]]
    BY <1>0 DEF UnderstatTypeOK, ItemStatus
  <2>2. staged \in [UnderstatRun -> Versions]
    BY <1>0 DEF UnderstatTypeOK
  <2>3. runStatus \in [UnderstatRun -> ActiveRun \cup {"none", "failed", "completed", "skipped"}]
    BY <1>0 DEF UnderstatTypeOK
  <2>4. item' \in [UnderstatRun -> [Resource -> ItemStatus]]
    BY <1>1, <1>3, <2>1 DEF items
  <2>5. staged' \in [UnderstatRun -> Versions]
    BY <1>1, <1>2, <2>2
  <2>6. runStatus' \in [UnderstatRun -> ActiveRun \cup {"none", "failed", "completed", "skipped"}]
    BY <1>1, <1>5, <2>3
  <2> QED
    BY <2>4, <2>5, <2>6
<1>11. UnderstatTypeOK'
  BY <1>0, <1>1, <1>8, <1>9, <1>10 DEF UnderstatTypeOK, ItemStatus
<1>12. UnderstatShapes'
  BY <1>0, <1>1 DEF UnderstatShapes
<1>13. Notes'
  <2>1. \A b \in bookkeeping : b.job[1] \in UnderstatRun
    BY <1>0, JobsOfRun DEF UnderstatShapes, BookRecord
  <2> QED
    BY <1>0, <1>1, <1>4, <1>6, <2>1 DEF Notes
<1>14. LeagueRead'
  BY <1>0, <1>1, <1>4 DEF LeagueRead, TxOf
<1>15. FindActiveRun(r) = {} \/ runStatus[r] \in ActiveRun \/ Ended(runStatus[r])
  BY <1>0, <1>1 DEF TxOf, UnderstatTypeOK, Ended
<1>16. OneActiveRun'
  <2>1. \A p \in UnderstatRun : request'[p] = NoRequest => runStatus'[p] = "none"
    BY <1>0, <1>1, <1>2, <1>4 DEF OneActiveRun
  <2>2. ASSUME NEW p \in UnderstatRun \ {r}, runStatus[p] \in ActiveRun, s \in ActiveRun,
               LaneOf(p) = LaneOf(r)
        PROVE  FALSE
    <3>1. p \in FindActiveRun(r)
      BY <2>2 DEF FindActiveRun, LaneOf
    <3>2. runStatus[r] \in ActiveRun
      BY <1>6, <1>15, <2>2, <3>1
    <3> QED
      BY <1>0, <2>2, <3>2 DEF OneActiveRun
  <2>3. ASSUME NEW p \in UnderstatRun, NEW q \in UnderstatRun, runStatus'[p] \in ActiveRun,
               runStatus'[q] \in ActiveRun, LaneOf(p) = LaneOf(q)
        PROVE  p = q
    <3>1. CASE p # r /\ q # r
      BY <1>0, <1>4, <2>3, <3>1 DEF OneActiveRun
    <3>2. CASE p = r /\ q # r
      BY <1>4, <2>2, <2>3, <3>2
    <3>3. CASE p # r /\ q = r
      BY <1>4, <2>2, <2>3, <3>3
    <3> QED
      BY <3>1, <3>2, <3>3
  <2>4. \A p \in UnderstatRun : LaneOf(p)' = LaneOf(p)
    BY <1>1 DEF LaneOf
  <2> QED
    BY <2>1, <2>3, <2>4 DEF OneActiveRun
<1>17. PublishedEnded'
  <2>1. final => Ended(s) /\ SettledItems(items)
    <3> SUFFICES ASSUME final PROVE SettledItems(items)
      BY <1>6
    <3>1. tx.rows = NoRows /\ SettledItems(item[r])
      BY <1>1 DEF TxOf
    <3> QED
      BY <1>3, <3>1, NoRowsFacts DEF items
  <2>2. r \in publishedRuns => Ended(s) /\ SettledItems(items)
    <3> SUFFICES ASSUME r \in publishedRuns PROVE Ended(s) /\ SettledItems(items)
      OBVIOUS
    <3>1. Ended(runStatus[r]) /\ SettledItems(item[r]) /\ runStatus[r] # "none"
      BY <1>0 DEF PublishedEnded, Ended
    <3>2. \A x \in DOMAIN tx.rows : tx.rows[x] = "completed"
      BY <1>1, <3>1 DEF TxOf
    <3> QED
      BY <1>6, <3>1, <3>2 DEF SettledItems, items, WithRows
  <2>3. \A p \in publishedRuns' : p = r \/ (p \in publishedRuns /\ p \in UnderstatRun)
    BY <1>0, <1>1 DEF UnderstatTypeOK
  <2>4. r \in publishedRuns' => final \/ r \in publishedRuns
    BY <1>1
  <2> QED
    BY <1>0, <1>4, <2>1, <2>2, <2>3, <2>4 DEF PublishedEnded, SettledItems, Ended
<1>18. ActiveInForce'
  <2> SUFFICES ASSUME NEW p \in UnderstatRun, runStatus'[p] \in ActiveRun
               PROVE  InForce(item'[p], staged'[p], facts'[LaneOf(p)], LaneOf(p))
    BY <1>1 DEF ActiveInForce, LaneOf, InForce, OfLane, Resource
  <2>1. CASE p = r
    <3>1. UNCHANGED facts /\ ~ Ended(runStatus[r])
      BY <1>1, <1>4, <1>6, <2>1
    <3> QED
      BY <1>1, <1>4, <2>1, <3>1 DEF TxOf, items
  <2>2. CASE p # r
    <3>1. InForce(item[p], staged[p], facts[LaneOf(p)], LaneOf(p)) /\ runStatus[p] \in ActiveRun
      BY <1>0, <1>4, <2>2 DEF ActiveInForce
    <3>2. facts'[LaneOf(p)] = facts[LaneOf(p)]
      <4>1. CASE UNCHANGED facts
        BY <4>1
      <4>2. CASE final /\ facts' = [facts EXCEPT ![LaneOf(r)] = Written(r)]
        <5>1. FindActiveRun(r) = {}
          BY <1>1, <4>2 DEF TxOf
        <5>2. LaneOf(p) # LaneOf(r)
          BY <2>2, <3>1, <5>1 DEF FindActiveRun, LaneOf
        <5> QED
          BY <1>7, <4>2, <5>2
      <4> QED
        BY <1>1, <4>1, <4>2
    <3> QED
      BY <1>4, <2>2, <3>1, <3>2
  <2> QED
    BY <2>1, <2>2
<1>19. DetailsFollowLeague'
  <2>1. CASE UNCHANGED facts
    BY <1>0, <2>1 DEF DetailsFollowLeague
  <2>2. CASE final /\ facts' = [facts EXCEPT ![LaneOf(r)] = Written(r)]
    <3> SUFFICES ASSUME NEW l \in {"team", "player"}, NEW x \in OfLane(l)
                 PROVE  facts'[l].detail[x] >= facts'[l].league[x]
      BY DEF DetailsFollowLeague, OfLane, Resource
    <3>1. CASE l # LaneOf(r)
      <4>1. facts'[l] = facts[l]
        BY <1>7, <2>2, <3>1
      <4> QED
        BY <1>0, <4>1 DEF DetailsFollowLeague
    <3>2. CASE l = LaneOf(r)
      <4>1. facts'[l] = Written(r) /\ x \in Resource
        BY <1>0, <1>2, <1>7, <2>2, <3>2, UnderstatLanes
      <4>2. /\ Written(r).league[x] = staged[r].league[x]
            /\ Written(r).detail[x] = IF item[r][x] = "completed" THEN staged[r].detail[x]
                                      ELSE facts[l].detail[x]
        BY <1>0, <1>2, <3>2, WrittenFacts
      <4>3. /\ tx.rows = NoRows /\ tx.payload = staged[r] /\ SettledItems(item[r])
            /\ InForce(WithRows(item[r], tx.rows), tx.payload, facts[l], l)
        BY <1>1, <2>2, <3>2 DEF TxOf
      <4>4. InForce(item[r], staged[r], facts[l], l)
        BY <1>3, <4>3, NoRowsFacts
      <4>5. item[r][x] \in {"none", "completed"}
        BY <4>1, <4>3 DEF SettledItems
      <4>6. facts[l].detail[x] >= facts[l].league[x]
        BY <1>0 DEF DetailsFollowLeague
      <4> QED
        BY <4>1, <4>2, <4>4, <4>5, <4>6 DEF InForce
    <3> QED
      BY <3>1, <3>2
  <2> QED
    BY <1>1, <2>1, <2>2
<1> QED
  BY <1>1, <1>9, <1>11, <1>12, <1>13, <1>14, <1>16, <1>17, <1>18, <1>19 DEF UnderstatIInv

\* The listener ends a run, fails an item or only goes on: what it does to
\* the tables, whatever transaction is open meanwhile.
LEMMA ListenerStepKeeps ==
  ASSUME UnderstatIInv, ListenerStep
  PROVE  UnderstatIInv'
<1>0. UnderstatTypeOK /\ JobsCounted /\ OneActiveRun /\ PublishedEnded /\ LeagueRead /\ ActiveInForce
      /\ Notes /\ DetailsFollowLeague /\ UnderstatShapes
  BY DEF UnderstatIInv
<1>1. PICK b \in bookkeeping :
        /\ \/ /\ \/ ListenerFinds(b) \/ MarkRunFailed(b) \/ FailItem(b)
                 \/ ListenerCounts(b) \/ ListenerWrites(b)
              /\ UNCHANGED uFaults
           \/ BookkeepingLost(b) /\ uFaults' = uFaults + 1
        /\ UNCHANGED <<source, request, staged, facts, publishedRuns, ujob, utries, tx>>
  BY DEF ListenerStep
<1> DEFINE r == b.job[1]
<1>2. b \in BookRecord /\ b.job \in UJob /\ r \in UnderstatRun
  BY <1>0, JobsOfRun DEF UnderstatShapes, BookRecord
<1>3. uFaults' \in 0 .. MaxUnderstatFaults
  BY <1>0, <1>1, UnderstatAssumption DEF UnderstatTypeOK, BookkeepingLost
\* what the step does to the tables
<1>4. /\ runStatus' = runStatus \/ \E s \in Counted : /\ runStatus[r] # "none"
                                                      /\ runStatus' = [runStatus EXCEPT ![r] =
                                                           IF @ \in ActiveRun THEN s ELSE @]
      /\ \/ item' = item
         \/ \E x \in Resource : /\ runStatus[r] \in ActiveRun /\ item[r][x] \in {"pending", "failed"}
                                /\ item' = [item EXCEPT ![r][x] = "failed"]
  <2>1. CASE ListenerFinds(b) \/ ListenerCounts(b) \/ BookkeepingLost(b)
    BY <2>1 DEF ListenerFinds, ListenerCounts, BookkeepingLost
  <2>2. CASE MarkRunFailed(b)
    <3>1. runStatus' = [runStatus EXCEPT ![r] = IF @ \in ActiveRun THEN "failed" ELSE @] /\ item' = item
      BY <2>2 DEF MarkRunFailed
    <3>2. CASE runStatus[r] # "none"
      BY <3>1, <3>2 DEF Counted
    <3>3. CASE runStatus[r] = "none"
      BY <1>0, <1>2, <3>1, <3>3 DEF UnderstatTypeOK, ActiveRun
    <3> QED
      BY <3>2, <3>3
  <2>3. CASE FailItem(b)
    <3>1. b.job[3] \in Resource
      BY <1>0, <1>2, <2>3, JobsOfRun DEF Notes, FailItem
    <3> QED
      BY <2>3, <3>1 DEF FailItem, FailableItem
  <2>4. CASE ListenerWrites(b)
    <3>1. runStatus[r] # "none" /\ b.status \in Counted
      BY <1>0, <2>4 DEF Notes, ListenerWrites
    <3>2. StatusIfActive(r, b.status) = IF runStatus[r] \in ActiveRun THEN b.status ELSE runStatus[r]
      BY <3>1 DEF StatusIfActive
    <3>3. runStatus' = [runStatus EXCEPT ![r] = IF @ \in ActiveRun THEN b.status ELSE @] /\ item' = item
      BY <1>0, <1>2, <2>4, <3>2 DEF ListenerWrites, UnderstatTypeOK
    <3> QED
      BY <3>1, <3>3
  <2> QED
    BY <1>1, <2>1, <2>2, <2>3, <2>4
<1>5. \A p \in UnderstatRun :
        /\ runStatus'[p] \in ActiveRun => runStatus[p] \in ActiveRun
        /\ runStatus'[p] = "none" <=> runStatus[p] = "none"
        /\ Ended(runStatus[p]) => runStatus'[p] = runStatus[p]
        /\ Ended(runStatus[p]) => Ended(runStatus'[p])
  BY <1>0, <1>2, <1>4 DEF UnderstatTypeOK, Ended, ActiveRun, Counted
<1>6. runStatus' \in [UnderstatRun -> ActiveRun \cup {"none", "failed", "completed", "skipped"}]
  BY <1>0, <1>2, <1>4 DEF UnderstatTypeOK, ActiveRun, Counted
<1>7. /\ item \in [UnderstatRun -> [Resource -> ItemStatus]]
      /\ item' \in [UnderstatRun -> [Resource -> ItemStatus]]
      /\ \A p \in UnderstatRun, y \in Resource :
           \/ item'[p][y] = item[p][y]
           \/ p = r /\ runStatus[p] \in ActiveRun /\ item[p][y] \in {"pending", "failed"}
              /\ item'[p][y] = "failed"
  <2>1. item \in [UnderstatRun -> [Resource -> ItemStatus]]
    BY <1>0 DEF UnderstatTypeOK, ItemStatus
  <2>2. CASE item' = item
    BY <2>1, <2>2
  <2>3. ASSUME NEW x \in Resource, runStatus[r] \in ActiveRun, item[r][x] \in {"pending", "failed"},
               item' = [item EXCEPT ![r][x] = "failed"]
        PROVE  /\ item' \in [UnderstatRun -> [Resource -> ItemStatus]]
               /\ \A p \in UnderstatRun, y \in Resource :
                    \/ item'[p][y] = item[p][y]
                    \/ p = r /\ runStatus[p] \in ActiveRun /\ item[p][y] \in {"pending", "failed"}
                       /\ item'[p][y] = "failed"
    BY <1>2, <2>1, <2>3 DEF ItemStatus
  <2> QED
    BY <1>4, <2>1, <2>2, <2>3
\* the listener's notes
<1>8. /\ bookkeeping' \subseteq BookRecord /\ Notes'
  <2>1. \A c \in BookRecord : c.job[1] \in UnderstatRun
    BY JobsOfRun DEF BookRecord
  <2> DEFINE Noted(next) ==
        /\ bookkeeping' = (bookkeeping \ {b}) \cup next
        /\ next \subseteq BookRecord
        /\ \A c \in next : /\ c.at = "failItem" => c.job[2] = "detail"
                           /\ c.at \in {"count", "write"} => runStatus'[c.job[1]] # "none"
                           /\ c.at = "write" => c.status \in Counted
  <2>2. \E next : Noted(next)
    <3>1. CASE MarkRunFailed(b) \/ ListenerWrites(b) \/ BookkeepingLost(b)
      <4>1. bookkeeping' = (bookkeeping \ {b}) \cup {}
        BY <3>1 DEF MarkRunFailed, ListenerWrites, BookkeepingLost, Rewrites
      <4>2. Noted({})
        BY <4>1
      <4> HIDE DEF Noted
      <4> QED
        BY <4>2
    <3>2. CASE ListenerFinds(b)
      <4> DEFINE toItem == b.job[2] = "detail" /\ item[r][b.job[3]] # "completed"
                 toRun == ~ toItem /\ (b.job[2] # "discover" \/ runStatus[r] # "none")
                 next == IF toItem THEN {[b EXCEPT !.at = "failItem"]}
                         ELSE IF toRun THEN {[b EXCEPT !.at = "failRun"]} ELSE {}
      <4>1. bookkeeping' = (bookkeeping \ {b}) \cup next
        BY <3>2 DEF ListenerFinds, Rewrites
      <4>2. \A a \in {"failItem", "failRun"} :
               /\ [b EXCEPT !.at = a] \in BookRecord
               /\ [b EXCEPT !.at = a].at = a /\ [b EXCEPT !.at = a].job = b.job
        BY <1>2 DEF BookRecord
      <4>3. /\ next \subseteq BookRecord
            /\ \A c \in next : /\ c.at = "failItem" => c.job[2] = "detail"
                               /\ c.at \notin {"count", "write"}
        BY <4>2
      <4> HIDE DEF next
      <4>4. Noted(next)
        BY <4>1, <4>3
      <4> QED
        BY <4>4
    <3>3. CASE ListenerCounts(b)
      <4> DEFINE c == [b EXCEPT !.at = "write", !.status = Refreshed(item[r])]
      <4>1. bookkeeping' = (bookkeeping \ {b}) \cup {c}
        BY <3>3 DEF ListenerCounts, Rewrites
      <4>2. Refreshed(item[r]) \in Counted
        BY DEF Refreshed, Counted
      <4>3. c \in BookRecord /\ c.at = "write" /\ c.job = b.job /\ c.status \in Counted
        BY <1>2, <4>2 DEF BookRecord
      <4>4. runStatus'[r] # "none"
        BY <1>0, <1>2, <1>5, <3>3 DEF Notes, ListenerCounts
      <4> HIDE DEF c
      <4>5. Noted({c})
        BY <4>1, <4>3, <4>4
      <4> HIDE DEF Noted
      <4> QED
        BY <4>5
    <3>4. CASE FailItem(b)
      <4>1. CASE FailableItem(r, b.job[3])
        <5> DEFINE c == [b EXCEPT !.at = "count"]
        <5>1. bookkeeping' = (bookkeeping \ {b}) \cup {c}
          BY <3>4, <4>1 DEF FailItem, Rewrites
        <5>2. c \in BookRecord /\ c.at = "count" /\ c.job = b.job
          BY <1>2 DEF BookRecord
        <5>3. runStatus'[r] # "none"
          BY <1>2, <1>5, <4>1 DEF FailableItem, ActiveRun
        <5> HIDE DEF c
        <5>4. Noted({c})
          BY <5>1, <5>2, <5>3
        <5> HIDE DEF Noted
        <5> QED
          BY <5>4
      <4>2. CASE ~ FailableItem(r, b.job[3])
        <5>1. bookkeeping' = (bookkeeping \ {b}) \cup {}
          BY <3>4, <4>2 DEF FailItem, Rewrites
        <5>2. Noted({})
          BY <5>1
        <5> HIDE DEF Noted
        <5> QED
          BY <5>2
      <4> QED
        BY <4>1, <4>2
    <3> QED
      BY <1>1, <3>1, <3>2, <3>3, <3>4
  <2>3. PICK next : Noted(next)
    BY <2>2
  <2>4. bookkeeping \subseteq BookRecord
    BY <1>0 DEF UnderstatShapes
  <2>5. \A c \in bookkeeping : runStatus[c.job[1]] # "none" => runStatus'[c.job[1]] # "none"
    BY <1>5, <2>1, <2>4
  <2>6. bookkeeping' \subseteq BookRecord
    BY <2>4, <2>3
  <2>7. \A c \in bookkeeping' : c \in bookkeeping \/ c \in next
    BY <2>3
  <2> QED
    BY <1>0, <2>3, <2>5, <2>6, <2>7 DEF Notes
<1>9. UnderstatTypeOK'
  <2>1. \A c \in bookkeeping' : c.job \in UJob
    BY <1>8 DEF BookRecord
  <2> QED
    BY <1>0, <1>1, <1>3, <1>6, <1>7, <2>1 DEF UnderstatTypeOK, ItemStatus
<1>10. UnderstatShapes' /\ JobsCounted' /\ LeagueRead' /\ DetailsFollowLeague'
  BY <1>0, <1>1, <1>8 DEF UnderstatShapes, JobsCounted, LeagueRead, DetailsFollowLeague
<1>11. OneActiveRun'
  BY <1>0, <1>1, <1>5 DEF OneActiveRun, LaneOf
<1>12. PublishedEnded'
  <2> SUFFICES ASSUME NEW p \in publishedRuns
               PROVE  Ended(runStatus'[p]) /\ SettledItems(item'[p])
    BY <1>1 DEF PublishedEnded, SettledItems, Ended
  <2>1. p \in UnderstatRun /\ Ended(runStatus[p]) /\ SettledItems(item[p])
    BY <1>0 DEF UnderstatTypeOK, PublishedEnded
  <2>2. runStatus[p] \notin ActiveRun
    BY <2>1 DEF Ended
  <2> QED
    BY <1>5, <1>7, <2>1, <2>2 DEF SettledItems
<1>13. ASSUME NEW items, NEW items2, NEW payload, NEW rows, NEW l \in {"team", "player"},
              InForce(items, payload, rows, l),
              \A y \in Resource : items2[y] = items[y] \/ items2[y] = "failed"
       PROVE  InForce(items2, payload, rows, l)
  <2>1. OfLane(l) \subseteq Resource
    BY DEF OfLane, Resource
  <2> QED
    BY <1>13, <2>1 DEF InForce
<1>14. ActiveInForce'
  <2> SUFFICES ASSUME NEW p \in UnderstatRun, runStatus'[p] \in ActiveRun
               PROVE  InForce(item'[p], staged[p], facts[LaneOf(p)], LaneOf(p))
    BY <1>1 DEF ActiveInForce, LaneOf, InForce
  <2>1. InForce(item[p], staged[p], facts[LaneOf(p)], LaneOf(p)) /\ runStatus[p] \in ActiveRun
    BY <1>0, <1>5 DEF ActiveInForce
  <2>2. LaneOf(p) \in {"team", "player"}
    <3>1. request[p] # NoRequest
      BY <1>0, <2>1 DEF OneActiveRun, ActiveRun
    <3> QED
      BY <1>0, <3>1, UnderstatLanes
  <2>3. \A y \in Resource : item'[p][y] = item[p][y] \/ item'[p][y] = "failed"
    BY <1>7
  <2> QED
    BY <1>13, <2>1, <2>2, <2>3
<1>15. ASSUME tx # NoTx PROVE TxOf(tx, tx.job[1])'
  <2> DEFINE q == tx.job[1]
  <2>1. TxOf(tx, q) /\ q \in UnderstatRun
    BY <1>0, <1>15, JobsOfRun DEF UnderstatIInv, UnderstatShapes, TxRecord
  <2>2. request[q] # NoRequest /\ LaneOf(q) \in {"team", "player"}
    BY <1>0, <2>1, UnderstatLanes DEF TxOf
  <2>3. FindActiveRun(q)' \subseteq FindActiveRun(q)
    BY <1>1, <1>5 DEF FindActiveRun
  <2>4. \A y \in Resource : \/ WithRows(item'[q], tx.rows)[y] = WithRows(item[q], tx.rows)[y]
                            \/ WithRows(item'[q], tx.rows)[y] = "failed"
    BY <1>7, <2>1 DEF WithRows
  <2>5. ASSUME ~ Ended(runStatus'[q]) \/ tx.job = Finalize(q)
        PROVE  InForce(WithRows(item'[q], tx.rows), tx.payload, facts[LaneOf(q)], LaneOf(q))
    <3>1. ~ Ended(runStatus[q]) \/ tx.job = Finalize(q)
      BY <1>5, <2>1, <2>5
    <3>2. InForce(WithRows(item[q], tx.rows), tx.payload, facts[LaneOf(q)], LaneOf(q))
      BY <2>1, <3>1 DEF TxOf
    <3> QED
      BY <1>13, <2>2, <2>4, <3>2
  <2>6. (~ Ended(runStatus[q]) \/ tx.job = Finalize(q) =>
           InForce(WithRows(item[q], tx.rows), tx.payload, facts[LaneOf(q)], LaneOf(q)))'
    BY <1>1, <2>5 DEF InForce, LaneOf, WithRows, Ended
  <2>7. tx.job = Finalize(q) /\ SettledItems(item[q]) => SettledItems(item'[q])
    BY <1>7, <2>1 DEF SettledItems
  <2>8. (tx.job = Finalize(q) /\ SettledItems(item[q])) => SettledItems(item[q])'
    BY <1>1, <2>7 DEF SettledItems
  <2>9. /\ (request[q] # NoRequest)'
        /\ (\A j \in tx.adds : j[1] = q)'
        /\ (runStatus[q] = "none" => FindActiveRun(q) = {})'
        /\ (\A x \in DOMAIN tx.rows : tx.rows[x] = "completed" \/ runStatus[q] = "none")'
        /\ (\A x \in Resource : tx.payload.league[x] <= source[x])'
    BY <1>1, <1>5, <2>1, <2>3 DEF TxOf
  <2>10. (IF tx.job = Finalize(q)
          THEN /\ FindActiveRun(q) = {} /\ SettledItems(item[q]) /\ runStatus[q] # "none"
               /\ tx.rows = NoRows /\ tx.payload = staged[q] /\ tx.status = "completed"
          ELSE tx.status \in Counted)'
    <3>1. CASE tx.job = Finalize(q)
      <4>1. /\ FindActiveRun(q) = {} /\ SettledItems(item[q]) /\ runStatus[q] # "none"
            /\ tx.rows = NoRows /\ tx.payload = staged[q] /\ tx.status = "completed"
        BY <2>1, <3>1 DEF TxOf
      <4>2. SettledItems(item[q])' /\ FindActiveRun(q)' = {} /\ runStatus'[q] # "none"
        BY <1>5, <2>1, <2>3, <2>8, <3>1, <4>1
      <4> QED
        BY <1>1, <3>1, <4>1, <4>2
    <3>2. CASE tx.job # Finalize(q)
      BY <1>1, <2>1, <3>2 DEF TxOf
    <3> QED
      BY <3>1, <3>2
  <2> QED
    BY <2>6, <2>9, <2>10 DEF TxOf
<1> QED
  BY <1>1, <1>8, <1>9, <1>10, <1>11, <1>12, <1>14, <1>15 DEF UnderstatIInv

LEMMA UnderstatInitially == UnderstatInit => UnderstatIInv
<1> SUFFICES ASSUME UnderstatInit PROVE UnderstatIInv
  OBVIOUS
<1>1. /\ UnderstatAttempts \in Nat \ {0} /\ MaxUnderstatFaults \in Nat /\ MaxSourceVersion \in Nat \ {0}
      /\ Unstaged \in Versions /\ \A x \in Resource : Unstaged.league[x] = 0 /\ Unstaged.detail[x] = 0
  BY UnderstatAssumption DEF Unstaged, Versions
<1>2. UnderstatTypeOK
  BY <1>1 DEF UnderstatInit, UnderstatTypeOK
<1>3. UnderstatShapes /\ JobsCounted /\ OneActiveRun /\ PublishedEnded /\ ActiveInForce /\ Notes
  BY <1>1 DEF UnderstatInit, UnderstatShapes, JobsCounted, OneActiveRun, PublishedEnded, ActiveInForce,
              Notes, ActiveRun
<1>4. LeagueRead
  BY <1>1 DEF UnderstatInit, LeagueRead
<1>5. DetailsFollowLeague
  <2>1. \A l \in {"team", "player"} : OfLane(l) \subseteq Resource
    BY DEF OfLane, Resource
  <2> QED
    BY <1>1, <2>1 DEF UnderstatInit, DetailsFollowLeague
<1> QED
  BY <1>2, <1>3, <1>4, <1>5 DEF UnderstatInit, UnderstatIInv

\* A set whose elements are all equal has at most one.
LEMMA AtMostOne ==
  ASSUME NEW S, \A x, y \in S : x = y
  PROVE  Cardinality(S) <= 1
<1>1. CASE S = {}
  BY <1>1, FS_EmptySet
<1>2. CASE S # {}
  <2>1. PICK x \in S : S = {x}
    BY <1>2
  <2> QED
    BY <2>1, FS_Singleton
<1> QED
  BY <1>1, <1>2

\* UnderstatInv: whatever jobs stall, abort or are executed again, whatever
\* the listener writes beside the open transaction, a lane has one active run,
\* a published run stays whole, and the details shown are not older than the
\* league they are shown with; for any runs, teams, matches, commands, attempts
\* and faults.
THEOREM UnderstatInvHolds == UnderstatSpec => []UnderstatInv
<1>1. UnderstatIInv /\ [UnderstatNext]_understatVars => UnderstatIInv'
  <2> SUFFICES ASSUME UnderstatIInv, [UnderstatNext]_understatVars PROVE UnderstatIInv'
    OBVIOUS
  <2>1. CASE UNCHANGED understatVars
    <3>1. UNCHANGED <<source, request, runStatus, item, staged, facts, publishedRuns,
                      ujob, utries, tx, bookkeeping, uFaults>>
      BY <2>1 DEF understatVars
    <3>2. UnderstatTypeOK' /\ UnderstatShapes' /\ JobsCounted' /\ Notes'
      BY <3>1 DEF UnderstatIInv, UnderstatTypeOK, UnderstatShapes, JobsCounted, Notes
    <3> QED
      BY <3>1, <3>2, TablesRest DEF UnderstatIInv
  <2>2. CASE UnderstatNext
    BY <2>2, QueueSteps, OutsideSteps, DiscoverStep, RediscoverStep, FinalizeStep, FetchStep,
       CommitStep, ListenerStepKeeps DEF UnderstatNext
  <2> QED
    BY <2>1, <2>2
<1>2. UnderstatIInv => UnderstatInv
  <2> SUFFICES ASSUME UnderstatIInv PROVE UnderstatInv
    OBVIOUS
  <2>1. OneActiveUnderstatRun
    <3> SUFFICES ASSUME NEW l \in {"team", "player"}
                 PROVE  Cardinality({r \in UnderstatRun : /\ runStatus[r] \in ActiveRun
                                                          /\ request[r].lane = l}) <= 1
      BY DEF OneActiveUnderstatRun
    <3>1. \A x, y \in {r \in UnderstatRun : runStatus[r] \in ActiveRun /\ request[r].lane = l} : x = y
      BY DEF UnderstatIInv, OneActiveRun, LaneOf
    <3> QED
      BY <3>1, AtMostOne
  <2>2. PublishedWhole
    BY DEF UnderstatIInv, PublishedEnded, SettledItems, PublishedWhole
  <2> QED
    BY <2>1, <2>2 DEF UnderstatIInv, UnderstatInv
<1> QED
  BY <1>1, <1>2, UnderstatInitially, PTL DEF UnderstatSpec
=============================================================================
