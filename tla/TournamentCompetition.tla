----------------------- MODULE TournamentCompetition -----------------------
(* A tournament from its plan to its winner: planTournamentStructure checks *)
(* a request and computes the windows, rebuildTournamentStructure draws the *)
(* groups and the bracket, and the jobs of the cascade recompute standings  *)
(* and rounds from the stored results, event by event, again after a        *)
(* correction, and in any order when jobs are retried or repaired.          *)
(* A sync runs in one transaction under the tournament's mutation scope and *)
(* the advisory lock competition:knockout: it is one action, and one that   *)
(* throws leaves nothing behind.  Entry 0 stands for null.                  *)
EXTENDS Integers, FiniteSets, Sequences

CONSTANTS
    PlanRequest,     \* requests: teams, groups (0: no group phase), groupEnd,
                     \* qualifiersPerGroup, legs (0: no knockout)
    LastGameweek,    \* 38
    OverallRank,     \* the overall rank of each entry; ranks may tie
    ResultsOf(_),    \* the results an event of n teams may have: for each entry
                     \* <<net points, goals scored, goals conceded>>
    MaxCorrections   \* corrections of results that were already stored

ASSUME CompetitionAssumption ==
    /\ PlanRequest \subseteq [teams : Nat, groups : Nat, groupEnd : Nat, qualify : Nat, legs : 0..2]
    /\ {LastGameweek, MaxCorrections} \subseteq Nat
    /\ \A r \in PlanRequest : /\ ResultsOf(r.teams) \subseteq [1..r.teams -> Int \X Int \X Int]
                              /\ \A n \in 1..r.teams : OverallRank[n] \in Int

VARIABLES
    plan,        \* the accepted request
    drawn,       \* the group of each entry, 0 without a group phase
    score,       \* results of the events played so far
    standing,    \* [rank, qualified] of each entry in its group
    tie,         \* the knockout matches: home, away, roundWinner
    leg,         \* their results: home, away and the stored scores of both
    corrections,
    pass         \* history: events synced in ascending order since a correction

competitionVars == <<plan, drawn, score, standing, tie, leg, corrections, pass>>

-----------------------------------------------------------------------------
(* The plan. *)

\* The places of a bracket of k rounds: 2^k, by doubling.
Places[k \in Nat] == IF k = 0 THEN 1 ELSE 2 * Places[k - 1]
RoundsFor(n) == CHOOSE k \in 0..n : n <= Places[k] /\ \A j \in 0..k - 1 : Places[j] < n

KnockoutTeams(r) == IF r.groups = 0 THEN r.teams ELSE r.groups * r.qualify
KnockoutStart(r) == IF r.groups = 0 THEN 1 ELSE r.groupEnd + 1
KnockoutEnd(r) == KnockoutStart(r) + RoundsFor(KnockoutTeams(r)) * r.legs - 1

FitsSeason(r) == KnockoutEnd(r) <= LastGameweek

\* planTournamentStructure for a request that is not an official H2H league.
Accepted(r) ==
    /\ r.teams >= 2
    /\ r.groupEnd \in 1..LastGameweek
    /\ r.legs # 0 => /\ r.groups # 0 => r.qualify >= 1 /\ r.groups * r.qualify <= r.teams
                     /\ KnockoutTeams(r) >= 2
                     /\ FitsSeason(r)

Entries == 1..plan.teams
Rounds == IF plan.legs = 0 THEN 0 ELSE RoundsFor(KnockoutTeams(plan))
Ties == 1..(Places[Rounds] - 1)

\* sortEntrySeeds: by overall rank, then by id.
SeededBefore(a, b) ==
    OverallRank[a] < OverallRank[b] \/ (OverallRank[a] = OverallRank[b] /\ a < b)
Sorted(S, Before(_, _)) ==
    [i \in 1..Cardinality(S) |-> CHOOSE a \in S : Cardinality({b \in S : Before(b, a)}) = i - 1]
Seeds(n) == Sorted(1..n, SeededBefore)

\* buildBracketSeedOrder, for a bracket of k rounds.
SeedOrder[k \in Nat] ==
    IF k <= 1 THEN <<1, 2>>
    ELSE [i \in 1..Places[k] |-> IF i % 2 = 1 THEN SeedOrder[k - 1][(i + 1) \div 2]
                                 ELSE Places[k] + 1 - SeedOrder[k - 1][i \div 2]]

\* seedBracketEntries: the pairs of round one; missing seeds are byes.
Pairs(seeded, n) ==
    LET k == RoundsFor(n)
        At(s) == IF s <= n THEN seeded[s] ELSE 0
    IN  [i \in 1..Places[k - 1] |-> <<At(SeedOrder[k][2 * i - 1]), At(SeedOrder[k][2 * i])>>]

\* buildGroupRows: the snake, forward in even cycles and backward in odd ones.
SnakeGroup(r, i) ==
    LET cycle == (i - 1) \div r.groups
        offset == (i - 1) % r.groups
    IN  IF cycle % 2 = 0 THEN offset + 1 ELSE r.groups - offset

-----------------------------------------------------------------------------
(* The bracket: buildKnockoutRows. *)

RoundStart(k) == 1 + Places[Rounds] - Places[Rounds - k + 1]
RoundOf(m) == CHOOSE k \in 1..Rounds : RoundStart(k) <= m /\ m < RoundStart(k) + Places[Rounds - k]
TiesOf(k) == {m \in Ties : RoundOf(m) = k}
NextTie(m) == RoundStart(RoundOf(m) + 1) + (m - RoundStart(RoundOf(m))) \div 2
Swapped(l, pair) == IF l % 2 = 0 THEN <<pair[2], pair[1]>> ELSE pair

\* The round and the leg an event belongs to.
RoundAt(e) == ((e - KnockoutStart(plan)) \div plan.legs) + 1
LegAt(e) == ((e - KnockoutStart(plan)) % plan.legs) + 1
EndOf(k) == KnockoutStart(plan) + k * plan.legs - 1

NoScore == <<0, 0, 0>>
Unseeded == <<0, 0>>
NoLeg == [sides |-> Unseeded, got |-> <<NoScore, NoScore>>, winner |-> 0]

\* Round one of tie rows and leg rows, with the pairs of the seeds.
SeededTies(ts, pairs) ==
    [m \in Ties |-> IF RoundOf(m) = 1 THEN [ts[m] EXCEPT !.sides = pairs[m]] ELSE ts[m]]
SeededLegs(ls, pairs) ==
    [m \in Ties |-> [l \in 1..plan.legs |->
        IF RoundOf(m) = 1 THEN [ls[m][l] EXCEPT !.sides = Swapped(l, pairs[m])] ELSE ls[m][l]]]

-----------------------------------------------------------------------------
\* rebuildTournamentStructure for an accepted plan: only a tournament without
\* a group phase is seeded at once.
CompetitionInit ==
    /\ plan \in {r \in PlanRequest : Accepted(r)}
    /\ drawn = [n \in Entries |->
                  IF plan.groups = 0 THEN 0
                  ELSE SnakeGroup(plan, CHOOSE i \in Entries : Seeds(plan.teams)[i] = n)]
    /\ score = <<>>
    /\ standing = [n \in Entries |-> [rank |-> 0, qualified |-> FALSE]]
    /\ LET none == [m \in Ties |-> [sides |-> Unseeded, winner |-> 0]]
           legs == [m \in Ties |-> [l \in 1..plan.legs |-> NoLeg]]
           draw == Pairs(Seeds(plan.teams), plan.teams)
       IN  IF plan.groups = 0 /\ plan.legs # 0
           THEN tie = SeededTies(none, draw) /\ leg = SeededLegs(legs, draw)
           ELSE tie = none /\ leg = legs
    /\ corrections = 0
    /\ pass = KnockoutStart(plan) - 1

CompetitionTypeOK ==
    /\ drawn \in [Entries -> 0..plan.groups]
    /\ \A e \in DOMAIN score : score[e] \in ResultsOf(plan.teams)
    /\ standing \in [Entries -> [rank : 0..plan.teams, qualified : BOOLEAN]]
    /\ \A m \in Ties : tie[m].sides[1] \in 0..plan.teams /\ tie[m].sides[2] \in 0..plan.teams
                          /\ tie[m].winner \in 0..plan.teams
    /\ corrections \in 0..MaxCorrections
    /\ pass \in 0..LastGameweek

-----------------------------------------------------------------------------
(* Standings. *)

Plus(x, y) == [i \in 1..3 |-> x[i] + y[i]]
Totals[e \in Nat] ==
    IF e = 0 THEN [n \in Entries |-> NoScore]
    ELSE [n \in Entries |-> Plus(Totals[e - 1][n], score[e][n])]

\* Net points, then the overall rank; rankGroups leaves entries equal in both
\* the index of the last of them.
NotBehind(a, b, e) ==
    \/ Totals[e][a][1] > Totals[e][b][1]
    \/ Totals[e][a][1] = Totals[e][b][1] /\ OverallRank[a] <= OverallRank[b]
GroupOf(n) == {a \in Entries : drawn[a] = drawn[n]}

RankAt(n, e) == Cardinality({a \in GroupOf(n) : NotBehind(a, n, e)})

\* syncTournamentPointsRaceResultsForTournament, once the event's results are
\* there, which also recomputes an earlier event's standings when it is late.
SyncGroup(e) ==
    /\ plan.groups # 0 /\ e \in 1..plan.groupEnd /\ e <= Len(score)
    /\ standing' = [n \in Entries |->
                      [rank |-> RankAt(n, e), qualified |-> RankAt(n, e) <= plan.qualify]]
    /\ UNCHANGED <<plan, drawn, score, tie, leg, corrections, pass>>

-----------------------------------------------------------------------------
(* Rounds. *)

Beats(x, y) ==
    \/ x[1] > y[1]
    \/ x[1] = y[1] /\ x[2] > y[2]
    \/ x[1] = y[1] /\ x[2] = y[2] /\ x[3] < y[3]

\* resolveMatchWinner: the lower id when nothing else decides.
MatchWinner(sides, got) ==
    IF sides[1] = 0 THEN sides[2]
    ELSE IF sides[2] = 0 \/ Beats(got[1], got[2]) THEN sides[1]
    ELSE IF Beats(got[2], got[1]) \/ sides[2] < sides[1] THEN sides[2]
    ELSE sides[1]

\* A side's scores over the legs, whichever side of the leg it played on.
OverLegs(legs, n) ==
    LET got(l) == IF legs[l].sides[1] = n THEN legs[l].got[1]
                  ELSE IF legs[l].sides[2] = n THEN legs[l].got[2] ELSE NoScore
    IN  IF plan.legs = 1 THEN got(1) ELSE Plus(got(1), got(2))

\* Mutant: the home leg's scores decide when the legs have different winners.
RoundWinnerByFirstLeg(legs, sides) == legs[1].winner

\* resolveRoundWinner: one leg, or both legs won by one entry, or the totals.
RoundWinner(legs, sides) ==
    LET winners == {legs[l].winner : l \in 1..plan.legs} \ {0}
    IN  IF plan.legs = 1 THEN legs[1].winner
        ELSE IF Cardinality(winners) = 1 THEN CHOOSE w \in winners : TRUE
        ELSE MatchWinner(sides, <<OverLegs(legs, sides[1]), OverLegs(legs, sides[2])>>)

\* ensureKnockoutRoundOneSeeded, for a tournament with a group phase: only
\* once, and only when there are enough qualified entries (sortQualifiedEntries).
Qualified == {n \in Entries : standing[n].qualified}
QualifiedBefore(a, b) ==
    \/ standing[a].rank < standing[b].rank
    \/ standing[a].rank = standing[b].rank /\ drawn[a] < drawn[b]
    \/ standing[a].rank = standing[b].rank /\ drawn[a] = drawn[b] /\ SeededBefore(a, b)
RoundOneSeeded == \A m \in TiesOf(1) : tie[m].sides # Unseeded
ToSeed == ~RoundOneSeeded /\ Cardinality(Qualified) >= KnockoutTeams(plan)
Draw == Pairs(Sorted(Qualified, QualifiedBefore), KnockoutTeams(plan))

\* The winners of a round enter the next: an odd match on the home side.
Advanced(ts, k) ==
    LET from(m, parity) == {f \in TiesOf(k) : NextTie(f) = m /\ f % 2 = parity /\ ts[f].winner # 0}
        entrant(m, parity, old) ==
            IF from(m, parity) = {} THEN old ELSE ts[CHOOSE f \in from(m, parity) : TRUE].winner
    IN  [m \in Ties |-> IF RoundOf(m) = k + 1
                        THEN [ts[m] EXCEPT !.sides = <<entrant(m, 1, @[1]), entrant(m, 0, @[2])>>]
                        ELSE ts[m]]

\* syncKnockoutForTournament: throws for a fixture without entrants; a round
\* is decided, and the next one drawn, by the sync of its last event.
SyncKnockout(e) ==
    /\ plan.legs # 0 /\ e \in KnockoutStart(plan)..KnockoutEnd(plan) /\ e <= Len(score)
    /\ LET k == RoundAt(e)
           l == LegAt(e)
           seededTies == IF ToSeed THEN SeededTies(tie, Draw) ELSE tie
           seededLegs == IF ToSeed THEN SeededLegs(leg, Draw) ELSE leg
           got(n) == IF n = 0 THEN NoScore ELSE score[e][n]
           scored(row) ==
               LET both == <<got(row.sides[1]), got(row.sides[2])>>
               IN  [row EXCEPT !.got = both, !.winner = MatchWinner(row.sides, both)]
           legs == [m \in Ties |-> IF m \in TiesOf(k) THEN [seededLegs[m] EXCEPT ![l] = scored(@)]
                                                      ELSE seededLegs[m]]
           decided == [m \in Ties |->
                         IF m \in TiesOf(k)
                         THEN [seededTies[m] EXCEPT !.winner = RoundWinner(legs[m], seededTies[m].sides)]
                         ELSE seededTies[m]]
       IN  /\ \A m \in TiesOf(k) : seededLegs[m][l].sides # Unseeded
           /\ IF l < plan.legs
              THEN tie' = seededTies /\ leg' = legs
              ELSE /\ tie' = Advanced(decided, k)
                   /\ leg' = [m \in Ties |->
                               IF m \in TiesOf(k + 1) /\ tie'[m].sides[1] # 0 /\ tie'[m].sides[2] # 0
                               THEN [j \in 1..plan.legs |->
                                        [legs[m][j] EXCEPT !.sides = Swapped(j, tie'[m].sides)]]
                               ELSE legs[m]]
    /\ pass' = IF e = pass + 1 THEN e ELSE pass
    /\ UNCHANGED <<plan, drawn, score, standing, corrections>>

-----------------------------------------------------------------------------
(* The season (external): events end, and a stored result is corrected. *)

PlayEvent ==
    /\ Len(score) < (IF plan.legs = 0 THEN plan.groupEnd ELSE KnockoutEnd(plan))
    /\ \E s \in ResultsOf(plan.teams) : score' = Append(score, s)
    /\ UNCHANGED <<plan, drawn, standing, tie, leg, corrections, pass>>

CorrectScore ==
    /\ corrections < MaxCorrections
    /\ corrections' = corrections + 1
    /\ \E e \in 1..Len(score), s \in ResultsOf(plan.teams) :
          /\ score[e] # s
          /\ score' = [score EXCEPT ![e] = s]
          /\ pass' = IF KnockoutStart(plan) <= e /\ e <= pass THEN e - 1 ELSE pass
    /\ UNCHANGED <<plan, drawn, standing, tie, leg>>

CompetitionNext ==
    \/ PlayEvent
    \/ CorrectScore
    \/ \E e \in 1..LastGameweek : SyncGroup(e) \/ SyncKnockout(e)

CompetitionSpec == CompetitionInit /\ [][CompetitionNext]_competitionVars
-----------------------------------------------------------------------------
(* Properties. *)

\* The draw is fair for every number of teams: no match without an entrant,
\* every seed once, byes only for the best seeds, and the two best can only
\* meet in the final; groups differ by one entry at most and hold enough of
\* them to qualify (seedBracketEntries, buildGroupRows).
DrawFair ==
    /\ plan.groups = 0 /\ plan.legs # 0 =>
          LET best == Seeds(plan.teams)
              seedOf(n) == CHOOSE i \in Entries : best[i] = n
              plays(n, m) == n \in {tie[m].sides[1], tie[m].sides[2]}
              firstHalf(m) == m <= Places[Rounds - 2]
              placed == {x \in TiesOf(1) \X {1, 2} : tie[x[1]].sides[x[2]] # 0}
          IN  /\ \A n \in Entries : Cardinality({x \in placed : tie[x[1]].sides[x[2]] = n}) = 1
              /\ \A m \in TiesOf(1) : tie[m].sides # Unseeded
              /\ \A m \in TiesOf(1), n \in Entries :
                    tie[m].sides = <<n, 0>> => seedOf(n) <= Places[Rounds] - plan.teams
              /\ Rounds > 1 => \A m, o \in TiesOf(1) :
                    plays(best[1], m) /\ plays(best[2], o) => (firstHalf(m) <=> ~firstHalf(o))
    /\ plan.groups # 0 =>
          LET size(g) == Cardinality({n \in Entries : drawn[n] = g})
          IN  \A g, h \in 1..plan.groups : size(g) <= size(h) + 1 /\ (plan.legs # 0 => size(g) >= plan.qualify)

\* Every leg is played after the group phase and inside the season.
PlanFits == plan.legs # 0 => KnockoutEnd(plan) <= LastGameweek

\* Whatever ties and corrections do to a standing, no more entries qualify than
\* places exist, and none of them ranks behind one that does not.
QualificationFair ==
    \A n \in Entries : standing[n].qualified =>
        /\ Cardinality({a \in GroupOf(n) : standing[a].qualified}) <= plan.qualify
        /\ \A a \in GroupOf(n) : standing[a].rank < standing[n].rank => standing[a].qualified

\* The winner of a tie by its definition: the better total over the legs.
TrueWinner[m \in Ties] ==
    LET k == RoundOf(m)
        first == RoundStart(k - 1) + 2 * (m - RoundStart(k))
        sides == IF k = 1 THEN tie[m].sides ELSE <<TrueWinner[first], TrueWinner[first + 1]>>
        total(n) == IF n = 0 THEN NoScore
                    ELSE [i \in 1..3 |-> Totals[EndOf(k)][n][i] - Totals[EndOf(k - 1)][n][i]]
    IN  MatchWinner(sides, <<total(sides[1]), total(sides[2])>>)

\* The stored bracket is the one the results determine from the draw, as soon
\* as the events have been synced in order since the last correction, whatever
\* was synced before in whatever order (syncKnockoutForTournament).
BracketFollowsResults ==
    \A m \in Ties : RoundOneSeeded /\ EndOf(RoundOf(m)) <= pass =>
        tie[m].winner = TrueWinner[m]

\* The competition's invariant.
CompetitionInv ==
    CompetitionTypeOK /\ PlanFits /\ DrawFair /\ QualificationFair /\ BracketFollowsResults
=============================================================================
