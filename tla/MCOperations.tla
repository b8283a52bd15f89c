---------------------------- MODULE MCOperations ----------------------------
(* The safety of the components that share no state, checked side by side: *)
(* focus names the one that moves in a behaviour and the others rest in    *)
(* their initial states, so the state space is the sum of theirs.          *)
EXTENDS Editorial, BugReports, TournamentSetup, TournamentCompetition, ContentIntake,
        MyFplRefresh, MyFplSnapshot, Understat, FplRequests, TLC

CONSTANTS rj1, rj2, rj3, rj4,  \* refresh jobs
          rcA, rcB, rcC,       \* receipts
          aq1, aq2,            \* acquisition runs
          fb1, fb2, fl1        \* bulk and live requests

VARIABLE focus

operationsVars ==
    <<focus, editorialVars, reportVars, setupVars, competitionVars, intakeVars, refreshVars,
      snapVars, understatVars, fplVars>>

OperationsInit ==
    /\ focus \in {"editorial", "reports", "setup", "competition", "intake", "refresh",
                "snapshot", "understat", "fpl"}
    /\ EditorialInit /\ ReportInit /\ SetupInit /\ RefreshInit /\ SnapInit /\ UnderstatInit
    /\ CompetitionInit /\ IntakeInit /\ FplInit
    \* a resting component needs no choice of initial state
    /\ focus # "setup" => /\ row.mode = "snapshot" /\ row.setup = "pending"
                          /\ row.members = CHOOSE m \in Membership : TRUE
    /\ focus # "competition" => plan = CHOOSE r \in PlanRequest : Accepted(r)
    /\ focus # "fpl" => admission.limit = BulkMax
    /\ focus # "intake" => intake = CHOOSE c \in IntakeCase : TRUE

\* All but one component rest.
Only(c) ==
    /\ focus = c /\ UNCHANGED focus
    /\ c # "editorial" => UNCHANGED editorialVars
    /\ c # "reports" => UNCHANGED reportVars
    /\ c # "setup" => UNCHANGED setupVars
    /\ c # "competition" => UNCHANGED competitionVars
    /\ c # "intake" => UNCHANGED intakeVars
    /\ c # "refresh" => UNCHANGED refreshVars
    /\ c # "snapshot" => UNCHANGED snapVars
    /\ c # "understat" => UNCHANGED understatVars
    /\ c # "fpl" => UNCHANGED fplVars

\* The bound on the Understat instance: both runs are of one lane.
OneLane ==
    \A r, q \in UnderstatRun :
        NoRequest \notin {request'[r], request'[q]} => request'[r].lane = request'[q].lane

\* The bound on the snapshot instance: no override is captured during or
\* after a fault.
OverrideOrFault ==
    \A c \in Capturer :
        snapFaults' > 0 /\ cap'[c] # IdleCapture => cap'[c].req.key = NoKey

OperationsNext ==
    \/ Only("editorial") /\ EditorialNext
    \/ Only("reports") /\ ReportNext
    \/ Only("setup") /\ SetupNext
    \/ Only("competition") /\ CompetitionNext
    \/ Only("intake") /\ IntakeNext
    \/ Only("refresh") /\ RefreshNext
    \/ Only("snapshot") /\ SnapNext /\ OverrideOrFault
    \/ Only("understat") /\ UnderstatNext /\ OneLane
    \/ Only("fpl") /\ FplNext

OperationsSpec == OperationsInit /\ [][OperationsNext]_operationsVars

\* Two jobs of one refresh phase with two generations of children, then a
\* second phase.
MCPhaseOf == [j \in RefreshJob |-> IF j = rj4 THEN 2 ELSE 1]
MCParentOf == [j \in RefreshJob |-> CASE j = rj2 -> rj1 [] j = rj3 -> rj2 [] OTHER -> NoParent]

\* The receipts of two acquisition runs.
MCRunOf == [r \in Receipt |-> IF r = rcC THEN aq2 ELSE aq1]

\* One request of each lane whose mode does not select every resource.
MCRequest == {[lane |-> "team", mode |-> "incremental", explicit |-> {}],
              [lane |-> "player", mode |-> "reconcile", explicit |-> {}]}

\* Overall ranks with a tie, and results that meet every tie break: the whole
\* choice for two entries, a few hard ones for three and four.  Larger fields
\* are drawn but not played.
MCOverallRank == [n \in 1..9 |-> IF n = 3 THEN 1 ELSE n]
MCResultsOf(n) ==
    CASE n = 2 -> [1..2 -> {<<0, 0, 0>>, <<0, 1, 1>>, <<1, 0, 0>>}]
      [] n = 3 -> {<< <<1, 0, 0>>, <<0, 2, 1>>, <<1, 1, 0>> >>,
                   << <<0, 1, 0>>, <<0, 1, 0>>, <<1, 0, 0>> >>}
      [] n = 4 -> {<< <<0, 0, 1>>, <<1, 0, 0>>, <<0, 1, 1>>, <<1, 1, 0>> >>,
                   << <<1, 0, 0>>, <<0, 2, 1>>, <<0, 1, 0>>, <<1, 0, 1>> >>}
      [] OTHER -> {}
MCPlanRequest ==
    [teams : 2..9, groups : {0}, groupEnd : {1}, qualify : {0}, legs : {1}]
    \cup [teams : {2, 3, 5}, groups : {0}, groupEnd : {1}, qualify : {0}, legs : {2}]
    \cup [teams : {3, 4, 7, 8}, groups : 1..3, groupEnd : {1}, qualify : {1, 2}, legs : {0, 1}]
\* Two bulk requests and a live one.
MCFplPriority == [c \in FplCall |-> IF c = fl1 THEN "live" ELSE "bulk"]
\* An article and an episode under faults, and a video, whose text takes
\* several runs, without.
MCIntakeCase == {[kind |-> "ARTICLE", versions |-> 1, faults |-> 1],
                 [kind |-> "EPISODE", versions |-> 2, faults |-> 1],
                 [kind |-> "VIDEO", versions |-> 2, faults |-> 0]}
=============================================================================
