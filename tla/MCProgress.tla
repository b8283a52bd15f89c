----------------------------- MODULE MCProgress -----------------------------
(* The components whose correctness is also that something happens in the  *)
(* end, the event sync whose jobs a cascade runs and the live polls that   *)
(* trigger it, and the registry of content sources.  They share no state   *)
(* here, so one run checks them side by side: focus names the one that     *)
(* moves in a behaviour and the others rest in their initial states; the   *)
(* state space is the sum of theirs, not the product.                      *)
EXTENDS WeekPublication, BugReports, TournamentCascade, TournamentSetup, EventSync,
        LiveLifecycle, SourceRegistry

VARIABLE focus

progressVars == <<focus, weekVars, reportVars, cascadeVars, setupVars, syncVars, liveVars,
                  registryVars>>

ProgressInit ==
    /\ focus \in {"week", "reports", "cascade", "setup", "sync", "live", "registry"}
    /\ WeekInit /\ ReportInit /\ CascadeInit /\ SetupInit /\ SyncInit /\ LiveInit
    /\ RegistryInit
    \* a resting component needs no choice of initial state
    /\ focus # "setup" => /\ row.mode = "snapshot" /\ row.setup = "pending"
                          /\ row.members = CHOOSE m \in Membership : TRUE
    /\ focus # "sync" => sync = CHOOSE c \in SyncCase : TRUE
    /\ focus # "live" => live = CHOOSE c \in LiveCase : TRUE

Week(A) ==
    /\ focus = "week" /\ A
    /\ UNCHANGED <<focus, reportVars, cascadeVars, setupVars, syncVars, liveVars, registryVars>>

Reports(A) ==
    /\ focus = "reports" /\ A
    /\ UNCHANGED <<focus, weekVars, cascadeVars, setupVars, syncVars, liveVars, registryVars>>

Cascades(A) ==
    /\ focus = "cascade" /\ A
    /\ UNCHANGED <<focus, weekVars, reportVars, setupVars, syncVars, liveVars, registryVars>>

Setup(A) ==
    /\ focus = "setup" /\ A
    /\ UNCHANGED <<focus, weekVars, reportVars, cascadeVars, syncVars, liveVars, registryVars>>

Syncs(A) ==
    /\ focus = "sync" /\ A
    /\ UNCHANGED <<focus, weekVars, reportVars, cascadeVars, setupVars, liveVars, registryVars>>

Lives(A) ==
    /\ focus = "live" /\ A
    /\ UNCHANGED <<focus, weekVars, reportVars, cascadeVars, setupVars, syncVars, registryVars>>

Registry(A) ==
    /\ focus = "registry" /\ A
    /\ UNCHANGED <<focus, weekVars, reportVars, cascadeVars, setupVars, syncVars, liveVars>>

ProgressNext ==
    \/ Week(WeekNext)
    \/ Reports(ReportNext)
    \/ Cascades(CascadeNext)
    \/ Setup(SetupNext)
    \/ Syncs(SyncNext)
    \/ Lives(LiveNext)
    \/ Registry(RegistryNext)

\* The fairness of each component, as its module states it.
CascadesFairness ==
    /\ WF_progressVars(Cascades(BaseStep))
    /\ \A c \in Cascade, r \in Role : WF_progressVars(Cascades(RoleStep(c, r)))
    /\ \A c \in Cascade : /\ WF_progressVars(Cascades(LeaseRunsOut(c)))
                          /\ WF_progressVars(Cascades(RunRefresh(c)))

SetupsFairness ==
    /\ WF_progressVars(Setup(\E j \in setupJobs : SetupStep(j)))
    /\ WF_progressVars(Setup(\E j \in rosterJobs : RosterStep(j)))
    /\ WF_progressVars(Setup(WatchdogStep))
    /\ WF_progressVars(Setup(resumeCommits))

ProgressSpec ==
    /\ ProgressInit /\ [][ProgressNext]_progressVars
    /\ CascadesFairness /\ SetupsFairness
    /\ WF_progressVars(Week(WorkerDispatches))
    /\ WF_progressVars(Reports(CleanupStep))

\* Whatever was begun is finished, through lost jobs, failed calls and dead
\* workers: the web is told of every publication, a scrubbed report is deleted,
\* a cascade's views are refreshed, and no setup stays undecided.
WorkIsFinished ==
    /\ WebIsTold
    /\ ScrubbedIsDeleted
    /\ CascadeIsRefreshed
    /\ focus = "setup" => SetupSettles

\* The jobs that overlap: two result syncs, a result sync with a fetch or a
\* transaction that fails or is given up, with the league's, with the poll
\* before the deadline, with the entry's own history and with the enrichment.
SyncBehaviour(jobs, moves, stamps, faults) ==
    [jobs |-> jobs, scores |-> 1, moves |-> moves, stamps |-> stamps, faults |-> faults]
MCSyncCase ==
    {SyncBehaviour({"results", "again"}, 0, 4, 0),
     SyncBehaviour({"results"}, 1, 4, 1),
     SyncBehaviour({"results", "league"}, 0, 3, 0),
     SyncBehaviour({"results", "pre"}, 1, 3, 0),
     SyncBehaviour({"results", "info"}, 0, 3, 0),
     SyncBehaviour({"results", "pre", "post"}, 0, 4, 0)}

\* A gameweek from its first kickoff, one whose last fixture is on with a
\* failing job, and two polls that overlap the end of the review.
LiveBehaviour(planner, from, versions, stamps, faults) ==
    [planner |-> planner, from |-> from, versions |-> versions, stamps |-> stamps,
     waiting |-> 1, faults |-> faults]
MCLiveCase ==
    {LiveBehaviour("timer", 0, 0, 2, 0),
     LiveBehaviour("standalone", 3, 1, 4, 1),
     LiveBehaviour("timer", 4, 1, 6, 0)}
=============================================================================
