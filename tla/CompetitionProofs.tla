-------------------------- MODULE CompetitionProofs --------------------------
(***************************************************************************)
(* Proofs about a tournament's competition, for every plan that is         *)
(* accepted and any results, ranks, corrections and orders of the syncs:   *)
(* the draw is fair, the standings are fair, and the stored bracket is the *)
(* one the results determine.                                              *)
(***************************************************************************)
EXTENDS TournamentCompetition, FiniteSetTheorems, SequenceTheorems, WellFoundedInduction, TLAPS

(***************************************************************************)
(* The standings of a competition's groups.                                *)
(***************************************************************************)

\* A set of numbers has a least one, and a greatest one when it is bounded.
LEMMA LeastOf ==
  ASSUME NEW S \in SUBSET Nat, S # {}
  PROVE  \E e \in S : \A f \in S : e <= f
<1> DEFINE R == {ss \in Nat \X Nat : ss[1] < ss[2]}
<1>1. IsWellFoundedOn(R, Nat)
  BY NatLessThanWellFounded DEF OpToRel
<1>2. \E x \in S : \A y \in S : ~(<<y, x>> \in R)
  <2> HIDE DEF R
  <2> QED
    BY <1>1, WFMin
<1>3. PICK x \in S : \A y \in S : ~(y < x)
  BY <1>2
<1> QED
  BY <1>3

LEMMA GreatestOf ==
  ASSUME NEW n \in Nat, NEW S \in SUBSET Nat, S # {}, \A e \in S : e <= n
  PROVE  \E e \in S : \A f \in S : f <= e
<1> DEFINE T == {n - e : e \in S}
<1>1. T \in SUBSET Nat /\ T # {}
  <2>1. \A e \in S : n - e \in Nat
    OBVIOUS
  <2> QED
    BY <2>1
<1>2. PICK x \in T : \A y \in T : x <= y
  <2> HIDE DEF T
  <2> QED
    BY <1>1, LeastOf
<1>3. PICK e \in S : x = n - e
  BY <1>2
<1>4. ASSUME NEW f \in S PROVE f <= e
  <2>1. n - e <= n - f
    BY <1>2, <1>3
  <2> QED
    BY <2>1
<1> QED
  BY <1>4

\* The points of an event on top of those before it.
Added(before, e) ==
    IF e = 0 THEN [n \in Entries |-> NoScore]
    ELSE [n \in Entries |-> Plus(before[e - 1][n], score[e][n])]

LEMMA AddedOf ==
  ASSUME NEW f, NEW g, NEW e, e = 0 \/ f[e - 1] = g[e - 1]
  PROVE  Added(f, e) = Added(g, e)
BY DEF Added

\* There is a function with the recursion of Totals: the one whose value at an
\* event is that of the only table up to this event.
LEMMA TotalsExist == \E F : F = [e \in Nat |-> Added(F, e)]
<1> DEFINE Table(g, e) == g = [k \in 0..e |-> Added(g, k)]
<1>1. ASSUME NEW a \in Nat, NEW b \in Nat, NEW f, NEW g, Table(f, a), Table(g, b)
      PROVE  \A k \in Nat : k <= a /\ k <= b => f[k] = g[k]
  <2> DEFINE S == {k \in Nat : k <= a /\ k <= b /\ f[k] # g[k]}
  <2> SUFFICES ASSUME S # {} PROVE FALSE
    OBVIOUS
  <2>1. PICK k \in S : \A i \in S : k <= i
    BY LeastOf
  <2>2. f[k] = Added(f, k) /\ g[k] = Added(g, k)
    <3>1. k \in 0..a /\ k \in 0..b
      BY <2>1
    <3> HIDE DEF S
    <3> QED
      BY <1>1, <3>1
  <2>3. k # 0 => k - 1 \in Nat /\ k - 1 <= a /\ k - 1 <= b /\ k - 1 \notin S
    BY <2>1
  <2>4. k = 0 \/ f[k - 1] = g[k - 1]
    BY <2>3
  <2> QED
    BY <2>1, <2>2, <2>4, AddedOf
<1>2. \A e \in Nat : \E g : Table(g, e)
  <2> DEFINE S == {e \in Nat : ~\E g : Table(g, e)}
  <2> SUFFICES ASSUME S # {} PROVE FALSE
    OBVIOUS
  <2>1. PICK e \in S : \A i \in S : e <= i
    <3> HIDE DEF Table
    <3> QED
      BY LeastOf
  <2>2. CASE e = 0
    <3> DEFINE g == [k \in 0..0 |-> Added(<<>>, 0)]
    <3>1. \A k \in 0..0 : Added(g, k) = Added(<<>>, 0)
      BY AddedOf
    <3>2. g = [k \in 0..0 |-> Added(g, k)]
      BY <3>1
    <3> HIDE DEF g
    <3> QED
      BY <2>1, <2>2, <3>2
  <2>3. CASE e # 0
    <3>1. e - 1 \in Nat /\ e - 1 \notin S
      BY <2>1, <2>3
    <3>2. PICK f : Table(f, e - 1)
      <4> HIDE DEF Table
      <4> QED
        BY <3>1
    <3> DEFINE g == [k \in 0..e |-> IF k = e THEN Added(f, e) ELSE f[k]]
    <3>3. ASSUME NEW k \in 0..e PROVE g[k] = Added(g, k)
      <4>1. k = 0 \/ g[k - 1] = f[k - 1]
        BY <2>1, <3>3
      <4>2. Added(g, k) = Added(f, k)
        <5> HIDE DEF g
        <5> QED
          BY <4>1, AddedOf
      <4>3. k # e => f[k] = Added(f, k)
        BY <2>1, <3>1, <3>2
      <4> QED
        BY <4>2, <4>3
    <3>4. g = [k \in 0..e |-> Added(g, k)]
      BY <3>3
    <3> HIDE DEF g
    <3> QED
      BY <2>1, <3>4
  <2> QED
    BY <2>2, <2>3
<1> DEFINE T(e) == CHOOSE g : Table(g, e)
           F == [e \in Nat |-> T(e)[e]]
<1>3. \A e \in Nat : Table(T(e), e)
  <2> HIDE DEF Table
  <2> QED
    BY <1>2
<1> HIDE DEF T
<1>4. ASSUME NEW e \in Nat PROVE F[e] = Added(F, e)
  <2>1. T(e)[e] = Added(T(e), e)
    BY <1>3
  <2>2. e = 0 \/ T(e)[e - 1] = F[e - 1]
    <3>1. CASE e # 0
      <4>1. e - 1 \in Nat /\ e - 1 <= e
        BY <3>1
      <4>2. Table(T(e), e) /\ Table(T(e - 1), e - 1)
        BY <1>3, <4>1
      <4>3. T(e)[e - 1] = T(e - 1)[e - 1]
        <5> HIDE DEF Table
        <5> QED
          BY <1>1, <4>1, <4>2
      <4> QED
        BY <4>1, <4>3
    <3> QED
      BY <3>1
  <2>3. Added(T(e), e) = Added(F, e)
    <3> HIDE DEF F
    <3> QED
      BY <2>2, AddedOf
  <2> QED
    BY <2>1, <2>3
<1>5. F = [e \in Nat |-> Added(F, e)]
  BY <1>4
<1> HIDE DEF F
<1> QED
  BY <1>5

LEMMA TotalsOf == \A e \in Nat : Totals[e] = Added(Totals, e)
<1>1. Totals = CHOOSE F : F = [e \in Nat |-> Added(F, e)]
  BY DEF Totals, Added
<1> HIDE DEF Totals
<1>2. Totals = [e \in Nat |-> Added(Totals, e)]
  BY <1>1, TotalsExist
<1> QED
  BY <1>2

\* The results so far are results.
GroupsPlayed ==
    /\ plan \in PlanRequest /\ (FitsSeason(plan) \/ plan.legs = 0)
    /\ score \in Seq(ResultsOf(plan.teams))

StandingsIInv == GroupsPlayed /\ QualificationFair

LEMMA PlanParts ==
  ASSUME StandingsIInv
  PROVE  /\ plan.teams \in Nat /\ plan.qualify \in Nat /\ plan.groups \in Nat
         /\ \A s \in ResultsOf(plan.teams) : \A n \in Entries : /\ s[n][1] \in Int /\ s[n][2] \in Int
                                                                /\ s[n][3] \in Int
         /\ \A n \in Entries : OverallRank[n] \in Int
         /\ IsFiniteSet(Entries)
         /\ Len(score) \in Nat /\ \A e \in 1..Len(score) : score[e] \in ResultsOf(plan.teams)
<1>1. /\ plan \in [teams : Nat, groups : Nat, groupEnd : Nat, qualify : Nat, legs : 0..2]
      /\ ResultsOf(plan.teams) \subseteq [1..plan.teams -> Int \X Int \X Int]
      /\ \A n \in 1..plan.teams : OverallRank[n] \in Int
  BY CompetitionAssumption DEF StandingsIInv, GroupsPlayed
<1>2. IsFiniteSet(Entries)
  BY <1>1, FS_Interval DEF Entries
<1>3. score \in Seq(ResultsOf(plan.teams))
  BY DEF StandingsIInv, GroupsPlayed
<1>4. plan.teams \in Nat /\ plan.qualify \in Nat /\ plan.groups \in Nat
  BY <1>1
<1>5. \A s \in ResultsOf(plan.teams) : \A n \in Entries : /\ s[n][1] \in Int /\ s[n][2] \in Int
                                                          /\ s[n][3] \in Int
  <2> SUFFICES ASSUME NEW s \in ResultsOf(plan.teams), NEW n \in Entries
               PROVE  s[n][1] \in Int /\ s[n][2] \in Int /\ s[n][3] \in Int
    OBVIOUS
  <2>1. s \in [1..plan.teams -> Int \X Int \X Int]
    BY <1>1
  <2>2. s[n] \in Int \X Int \X Int
    BY <2>1 DEF Entries
  <2> QED
    BY <2>2
<1>6. \A n \in Entries : OverallRank[n] \in Int
  BY <1>1 DEF Entries
<1>7. Len(score) \in Nat /\ \A e \in 1..Len(score) : score[e] \in ResultsOf(plan.teams)
  BY <1>3
<1> QED
  BY <1>2, <1>4, <1>5, <1>6, <1>7

\* Points are numbers, as far as events have results.
LEMMA PointsAreNumbers ==
  ASSUME StandingsIInv, NEW e \in Nat, e <= Len(score)
  PROVE  \A n \in Entries : Totals[e][n][1] \in Int
<1> DEFINE S == {k \in Nat : k <= Len(score) /\ ~\A n \in Entries : Totals[k][n][1] \in Int}
<1> SUFFICES ASSUME S # {} PROVE FALSE
  OBVIOUS
<1>1. PICK k \in S : \A i \in S : k <= i
  BY LeastOf
<1>2. Totals[k] = Added(Totals, k)
  BY <1>1, TotalsOf
<1>3. CASE k = 0
  BY <1>1, <1>2, <1>3 DEF Added, NoScore
<1>4. CASE k # 0
  <2>1. k - 1 \in Nat /\ k - 1 <= Len(score) /\ k - 1 \notin S /\ k \in 1..Len(score)
    BY SMTT(30), <1>1, <1>4, PlanParts
  <2>2. \A n \in Entries : Totals[k - 1][n][1] \in Int /\ score[k][n][1] \in Int
    BY <2>1, PlanParts
  <2>3. \A n \in Entries : Totals[k][n] = Plus(Totals[k - 1][n], score[k][n])
    BY <1>2, <1>4 DEF Added
  <2>4. \A x, y : Plus(x, y)[1] = x[1] + y[1]
    BY DEF Plus
  <2>5. \A n \in Entries : Totals[k][n][1] = Totals[k - 1][n][1] + score[k][n][1]
    <3> SUFFICES ASSUME NEW n \in Entries PROVE Totals[k][n][1] = Totals[k - 1][n][1] + score[k][n][1]
      OBVIOUS
    <3>1. Totals[k][n][1] = Plus(Totals[k - 1][n], score[k][n])[1]
      BY <2>3
    <3> QED
      BY <2>4, <3>1
  <2> QED
    BY <1>1, <2>2, <2>5
<1> QED
  BY <1>3, <1>4

\* An order of the entries: total, and transitive.
LEMMA NotBehindOrders ==
  ASSUME StandingsIInv, NEW e \in Nat, e <= Len(score)
  PROVE  /\ \A a, b \in Entries : NotBehind(a, b, e) \/ NotBehind(b, a, e)
         /\ \A a, b, c \in Entries : NotBehind(a, b, e) /\ NotBehind(b, c, e) => NotBehind(a, c, e)
<1> DEFINE p(n) == Totals[e][n][1]
           o(n) == OverallRank[n]
<1>1. \A n \in Entries : p(n) \in Int /\ o(n) \in Int
  BY PointsAreNumbers, PlanParts
<1>2. \A a, b : NotBehind(a, b, e) <=> p(a) > p(b) \/ (p(a) = p(b) /\ o(a) <= o(b))
  BY DEF NotBehind
<1> HIDE DEF p, o
<1> QED
  BY <1>1, <1>2

\* No more entries rank among the first q of a group than q.
LEMMA PlacesSuffice ==
  ASSUME StandingsIInv, NEW e \in Nat, e <= Len(score), NEW n \in Entries, NEW q \in Nat
  PROVE  /\ Cardinality({a \in GroupOf(n) : RankAt(a, e) <= q}) <= q
         /\ \A a \in Entries : RankAt(a, e) \in Nat
<1> DEFINE G == GroupOf(n)
           NotAfter(a) == {b \in G : NotBehind(b, a, e)}
           Q == {a \in G : RankAt(a, e) <= q}
<1>1. IsFiniteSet(G) /\ G \subseteq Entries
  BY PlanParts, FS_Subset DEF GroupOf
<1>2. \A a \in G : GroupOf(a) = G
  BY DEF GroupOf
<1>3. \A a \in G : RankAt(a, e) = Cardinality(NotAfter(a))
  BY <1>2 DEF RankAt
<1>4. \A a \in Entries : RankAt(a, e) \in Nat
  <2> SUFFICES ASSUME NEW a \in Entries PROVE RankAt(a, e) \in Nat
    OBVIOUS
  <2>1. {b \in GroupOf(a) : NotBehind(b, a, e)} \in SUBSET Entries
    BY DEF GroupOf
  <2> HIDE DEF G
  <2> QED
    BY <2>1, PlanParts, FS_Subset, FS_CardinalityType DEF RankAt
<1>5. \A a \in G : NotAfter(a) \in SUBSET G /\ IsFiniteSet(NotAfter(a))
  <2> HIDE DEF G
  <2> SUFFICES ASSUME NEW a \in G PROVE NotAfter(a) \in SUBSET G /\ IsFiniteSet(NotAfter(a))
    OBVIOUS
  <2>1. NotAfter(a) \in SUBSET G
    OBVIOUS
  <2>2. IsFiniteSet(G)
    BY <1>1
  <2>3. IsFiniteSet(NotAfter(a))
    <3> HIDE DEF NotAfter, G
    <3> QED
      BY <2>1, <2>2, FS_Subset
  <2> QED
    BY <2>1, <2>3
<1>6. CASE Q = {}
  <2>1. Cardinality(Q) <= q
    <3> HIDE DEF Q
    <3> QED
      BY <1>6, FS_EmptySet
  <2> QED
    BY <1>4, <2>1
<1>7. CASE Q # {}
  <2> DEFINE R == {RankAt(a, e) : a \in Q}
  <2>1. R \in SUBSET Nat /\ R # {} /\ \A r \in R : r <= q
    BY <1>1, <1>4, <1>7
  <2>2. PICK r \in R : \A s \in R : s <= r
    <3> HIDE DEF R
    <3> QED
      BY <2>1, GreatestOf
  <2>3. PICK w \in Q : r = RankAt(w, e)
    BY <2>2
  <2>4. \A a \in Q : RankAt(a, e) <= RankAt(w, e)
    BY <2>2, <2>3
  <2>5. ASSUME NEW a \in Q, ~NotBehind(a, w, e) PROVE FALSE
    <3>1. a \in G /\ w \in G /\ a \in Entries /\ w \in Entries
      BY <1>1
    <3>2. NotBehind(w, a, e) /\ NotBehind(a, a, e)
      BY <2>5, <3>1, NotBehindOrders
    <3>3. \A b \in G : NotBehind(b, w, e) => NotBehind(b, a, e)
      BY <1>1, <3>1, <3>2, NotBehindOrders
    <3>4. NotAfter(w) \in SUBSET NotAfter(a) /\ a \in NotAfter(a) /\ a \notin NotAfter(w)
      BY <2>5, <3>1, <3>2, <3>3
    <3>5. IsFiniteSet(NotAfter(a)) /\ RankAt(a, e) = Cardinality(NotAfter(a))
          /\ RankAt(w, e) = Cardinality(NotAfter(w)) /\ RankAt(a, e) <= RankAt(w, e)
          /\ RankAt(a, e) \in Nat /\ RankAt(w, e) \in Nat
      BY <1>3, <1>4, <1>5, <2>4, <3>1
    <3> HIDE DEF NotAfter
    <3>6. Cardinality(NotAfter(w)) <= Cardinality(NotAfter(a))
          /\ (Cardinality(NotAfter(w)) = Cardinality(NotAfter(a)) => NotAfter(w) = NotAfter(a))
      BY <3>4, <3>5, FS_Subset
    <3> QED
      BY <3>4, <3>5, <3>6
  <2>6. w \in G /\ RankAt(w, e) <= q /\ RankAt(w, e) = Cardinality(NotAfter(w))
    BY <1>3
  <2>7. Q \in SUBSET NotAfter(w)
    BY <2>5
  <2>8. Cardinality(Q) <= Cardinality(NotAfter(w)) /\ IsFiniteSet(Q)
    <3> HIDE DEF Q, NotAfter
    <3> QED
      BY <1>5, <2>6, <2>7, FS_Subset
  <2>9. Cardinality(Q) \in Nat /\ RankAt(w, e) \in Nat
    <3>1. w \in Entries
      BY <1>1, <2>6
    <3> HIDE DEF Q
    <3> QED
      BY <1>4, <2>8, <3>1, FS_CardinalityType
  <2>10. Cardinality(Q) <= q
    <3> HIDE DEF Q, NotAfter
    <3> QED
      BY <2>6, <2>8, <2>9
  <2> QED
    BY <1>4, <2>10
<1> QED
  BY <1>4, <1>6, <1>7

LEMMA GroupStep ==
  ASSUME StandingsIInv, NEW e \in 1..LastGameweek, SyncGroup(e)
  PROVE  QualificationFair'
<1>1. /\ plan' = plan /\ drawn' = drawn /\ e \in Nat /\ e <= Len(score)
      /\ standing' = [n \in Entries |->
                        [rank |-> RankAt(n, e), qualified |-> RankAt(n, e) <= plan.qualify]]
  <2>1. e \in 1..plan.groupEnd
    BY DEF SyncGroup
  <2> QED
    BY <2>1 DEF SyncGroup
<1>2. Entries' = Entries /\ \A n : GroupOf(n)' = GroupOf(n)
  BY <1>1 DEF Entries, GroupOf
<1>3. \A n \in Entries : /\ standing'[n].rank = RankAt(n, e)
                         /\ standing'[n].qualified <=> RankAt(n, e) <= plan.qualify
  BY <1>1
<1> SUFFICES ASSUME NEW n \in Entries, standing'[n].qualified
             PROVE  /\ Cardinality({a \in GroupOf(n) : standing'[a].qualified}) <= plan.qualify
                    /\ \A a \in GroupOf(n) :
                          standing'[a].rank < standing'[n].rank => standing'[a].qualified
  BY <1>1, <1>2 DEF QualificationFair
<1>4. GroupOf(n) \subseteq Entries
  BY DEF GroupOf
<1>5. {a \in GroupOf(n) : standing'[a].qualified} = {a \in GroupOf(n) : RankAt(a, e) <= plan.qualify}
  BY <1>3, <1>4
<1>6. /\ Cardinality({a \in GroupOf(n) : RankAt(a, e) <= plan.qualify}) <= plan.qualify
      /\ \A a \in Entries : RankAt(a, e) \in Nat
  BY <1>1, PlacesSuffice, PlanParts
<1>7. ASSUME NEW a \in GroupOf(n), standing'[a].rank < standing'[n].rank
      PROVE  standing'[a].qualified
  <2>1. RankAt(a, e) < RankAt(n, e) /\ RankAt(n, e) <= plan.qualify
    BY <1>3, <1>4, <1>7
  <2>2. RankAt(a, e) <= plan.qualify
    BY <1>4, <1>6, <2>1, PlanParts
  <2> QED
    BY <1>3, <1>4, <2>2
<1> QED
  BY <1>5, <1>6, <1>7

LEMMA StandingsStep == ASSUME StandingsIInv, [CompetitionNext]_competitionVars PROVE StandingsIInv'
<1>1. plan' = plan
  BY ZenonT(40) DEF CompetitionNext, PlayEvent, CorrectScore, SyncGroup, SyncKnockout, competitionVars
<1>2. score' \in Seq(ResultsOf(plan.teams))
  <2>0. score \in Seq(ResultsOf(plan.teams))
    BY DEF StandingsIInv, GroupsPlayed
  <2>1. CASE PlayEvent
    BY <2>0, <2>1 DEF PlayEvent
  <2>2. CASE CorrectScore
    <3>1. PICK e \in 1..Len(score), s \in ResultsOf(plan.teams) : score' = [score EXCEPT ![e] = s]
      BY <2>2 DEF CorrectScore
    <3> QED
      BY <2>0, <3>1, ExceptSeq
  <2>3. CASE score' = score
    BY <2>0, <2>3
  <2> QED
    BY ZenonT(40), <2>1, <2>2, <2>3 DEF CompetitionNext, SyncGroup, SyncKnockout, competitionVars
<1>3. QualificationFair'
  <2>1. CASE drawn' = drawn /\ standing' = standing
    BY <1>1, <2>1 DEF StandingsIInv, QualificationFair, GroupOf, Entries
  <2>2. ASSUME NEW e \in 1..LastGameweek, SyncGroup(e) PROVE QualificationFair'
    BY <2>2, GroupStep
  <2> QED
    BY <2>1, <2>2 DEF CompetitionNext, PlayEvent, CorrectScore, SyncKnockout, competitionVars
<1> QED
  BY SMTT(40), <1>1, <1>2, <1>3
     DEF StandingsIInv, GroupsPlayed, FitsSeason, KnockoutEnd, KnockoutStart, KnockoutTeams

(***************************************************************************)
(* The bracket's numbers.                                                  *)
(***************************************************************************)

\* A rule that computes each value of a table from the values before it.
IsRule(V, c, G) == c \in V /\ G \in [Nat \X [Nat -> V] -> V]
Follows(F, V, c, G) ==
    /\ F \in [Nat -> V]
    /\ \A n \in Nat : F[n] = G[<<n, [i \in Nat |-> IF i < n THEN F[i] ELSE c]>>]

\* There is a table for every rule whose values lie in one set.
LEMMA RecursionExists ==
  ASSUME NEW V, NEW c, NEW G, IsRule(V, c, G)
  PROVE  \E F : Follows(F, V, c, G)
<1> USE DEF IsRule
<1> DEFINE Below(g, n) == [i \in Nat |-> IF i < n THEN g[i] ELSE c]
           Table(g, e) == g \in [0..e -> V] /\ \A n \in 0..e : g[n] = G[<<n, Below(g, n)>>]
<1>1. ASSUME NEW f, NEW g, NEW n \in Nat, \A i \in Nat : i < n => f[i] = g[i]
      PROVE  Below(f, n) = Below(g, n)
  BY <1>1
<1>2. ASSUME NEW e \in Nat, NEW g, NEW n \in Nat, n <= e + 1, g \in [0..e -> V]
      PROVE  Below(g, n) \in [Nat -> V] /\ G[<<n, Below(g, n)>>] \in V
  <2>1. Below(g, n) \in [Nat -> V]
    BY <1>2
  <2> HIDE DEF Below
  <2> QED
    BY <2>1
<1>3. ASSUME NEW a \in Nat, NEW b \in Nat, NEW f, NEW g, Table(f, a), Table(g, b)
      PROVE  \A n \in Nat : n <= a /\ n <= b => f[n] = g[n]
  <2> DEFINE S == {n \in Nat : n <= a /\ n <= b /\ f[n] # g[n]}
  <2> SUFFICES ASSUME S # {} PROVE FALSE
    OBVIOUS
  <2>1. PICK n \in S : \A i \in S : n <= i
    BY LeastOf
  <2>2. \A i \in Nat : i < n => f[i] = g[i]
    <3> SUFFICES ASSUME NEW i \in Nat, i < n PROVE i <= a /\ i <= b /\ i \notin S
      OBVIOUS
    <3> QED
      BY <2>1
  <2>3. Below(f, n) = Below(g, n)
    <3>1. n \in Nat
      BY <2>1
    <3> HIDE DEF Below, S
    <3> QED
      BY <1>1, <2>2, <3>1
  <2>4. n \in 0..a /\ n \in 0..b
    BY <2>1
  <2>5. f[n] = G[<<n, Below(f, n)>>] /\ g[n] = G[<<n, Below(g, n)>>]
    <3> HIDE DEF Below, S
    <3> QED
      BY <1>3, <2>4
  <2> QED
    BY <2>1, <2>3, <2>5
<1>4. \A e \in Nat : \E g : Table(g, e)
  <2> DEFINE S == {e \in Nat : ~\E g : Table(g, e)}
  <2> SUFFICES ASSUME S # {} PROVE FALSE
    OBVIOUS
  <2>1. PICK e \in S : \A i \in S : e <= i
    <3> HIDE DEF Table
    <3> QED
      BY LeastOf
  <2>2. PICK f : f \in [0..(e - 1) -> V] /\ \A n \in 0..(e - 1) : f[n] = G[<<n, Below(f, n)>>]
    <3>1. CASE e = 0
      <4>1. 0..(e - 1) = {}
        BY <3>1
      <4>2. [i \in 0..(e - 1) |-> c] \in [0..(e - 1) -> V]
        OBVIOUS
      <4> HIDE DEF Below
      <4> QED
        BY <4>1, <4>2
    <3>2. CASE e # 0
      <4>1. e - 1 \in Nat /\ e - 1 \notin S
        <5>1. e \in Nat
          BY <2>1
        <5>2. e - 1 \in S => e <= e - 1
          <6> HIDE DEF S
          <6> QED
            BY <2>1
        <5> HIDE DEF S
        <5> QED
          BY <3>2, <5>1, <5>2
      <4>2. PICK g : Table(g, e - 1)
        <5> HIDE DEF Table
        <5> QED
          BY <4>1
      <4> HIDE DEF Below
      <4> QED
        BY <4>2
    <3> QED
      BY <3>1, <3>2
  <2> DEFINE v == G[<<e, Below(f, e)>>]
             g == [k \in 0..e |-> IF k = e THEN v ELSE f[k]]
  <2>3. v \in V
    <3>1. Below(f, e) \in [Nat -> V]
      BY <2>2, <2>1
    <3> HIDE DEF Below
    <3> QED
      BY <2>1, <3>1
  <2>4. g \in [0..e -> V]
    <3> HIDE DEF v
    <3> QED
      BY <2>1, <2>2, <2>3
  <2>5. ASSUME NEW n \in 0..e PROVE g[n] = G[<<n, Below(g, n)>>]
    <3>1. \A i \in Nat : i < n => g[i] = f[i]
      <4> HIDE DEF v
      <4> QED
        BY <2>1
    <3>2. Below(g, n) = Below(f, n)
      <4> HIDE DEF Below, g
      <4> QED
        BY <1>1, <3>1
    <3>3. n # e => f[n] = G[<<n, Below(f, n)>>]
      <4>1. n # e => n \in 0..(e - 1)
        BY <2>1
      <4> HIDE DEF Below
      <4> QED
        BY <2>2, <4>1
    <3>4. g[n] = G[<<n, Below(f, n)>>]
      <4> HIDE DEF Below
      <4> QED
        BY <3>3
    <3> QED
      BY <3>2, <3>4
  <2> HIDE DEF g, Below
  <2> QED
    BY <2>1, <2>4, <2>5
<1> DEFINE T(e) == CHOOSE g : Table(g, e)
           F == [e \in Nat |-> T(e)[e]]
<1>5. \A e \in Nat : Table(T(e), e)
  <2> HIDE DEF Table
  <2> QED
    BY <1>4
<1> HIDE DEF T
<1>6. F \in [Nat -> V]
  <2> SUFFICES ASSUME NEW e \in Nat PROVE T(e)[e] \in V
    OBVIOUS
  <2>1. T(e) \in [0..e -> V]
    BY <1>5
  <2> QED
    BY <2>1
<1>7. ASSUME NEW n \in Nat PROVE F[n] = G[<<n, Below(F, n)>>]
  <2>1. \A i \in Nat : i < n => T(n)[i] = F[i]
    <3> SUFFICES ASSUME NEW i \in Nat, i < n PROVE T(n)[i] = T(i)[i]
      OBVIOUS
    <3> HIDE DEF Table
    <3> QED
      BY <1>3, <1>5
  <2>2. T(n)[n] = G[<<n, Below(T(n), n)>>]
    <3>1. n \in 0..n
      OBVIOUS
    <3>2. Table(T(n), n)
      <4> HIDE DEF Table
      <4> QED
        BY <1>5
    <3> HIDE DEF Below
    <3> QED
      BY <3>1, <3>2
  <2>3. Below(T(n), n) = Below(F, n)
    <3> HIDE DEF Below, F
    <3> QED
      BY <1>1, <2>1
  <2> QED
    BY <2>2, <2>3
<1> HIDE DEF F
<1> QED
  BY <1>6, <1>7 DEF Follows

\* The places of a bracket double with every round.
LEMMA PlacesOf == \A k \in Nat : /\ Places[k] \in Nat
                                 /\ Places[k] = IF k = 0 THEN 1 ELSE 2 * Places[k - 1]
<1> DEFINE G == [x \in Nat \X [Nat -> Nat] |-> IF x[1] = 0 THEN 1 ELSE 2 * x[2][x[1] - 1]]
<1>1. G \in [Nat \X [Nat -> Nat] -> Nat]
  <2> SUFFICES ASSUME NEW n \in Nat, NEW f \in [Nat -> Nat]
               PROVE  (IF n = 0 THEN 1 ELSE 2 * f[n - 1]) \in Nat
    OBVIOUS
  <2>1. n # 0 => f[n - 1] \in Nat
    OBVIOUS
  <2> QED
    BY <2>1
<1>2. PICK F : Follows(F, Nat, 0, G)
  <2>1. IsRule(Nat, 0, G)
    BY <1>1 DEF IsRule
  <2> HIDE DEF G
  <2> QED
    BY <2>1, RecursionExists
<1>3. \A n \in Nat : F[n] = IF n = 0 THEN 1 ELSE 2 * F[n - 1]
  <2> SUFFICES ASSUME NEW n \in Nat PROVE F[n] = IF n = 0 THEN 1 ELSE 2 * F[n - 1]
    OBVIOUS
  <2> DEFINE f == [i \in Nat |-> IF i < n THEN F[i] ELSE 0]
  <2>1. f \in [Nat -> Nat] /\ (n # 0 => f[n - 1] = F[n - 1])
    BY <1>2 DEF Follows
  <2>2. F[n] = G[<<n, f>>]
    BY <1>2 DEF Follows
  <2> HIDE DEF f
  <2>3. F[n] = IF n = 0 THEN 1 ELSE 2 * f[n - 1]
    BY <2>1, <2>2
  <2> QED
    BY <2>1, <2>3
<1>4. F = [k \in Nat |-> IF k = 0 THEN 1 ELSE 2 * F[k - 1]]
  <2>1. F \in [Nat -> Nat]
    BY <1>2 DEF Follows
  <2> QED
    BY <1>3, <2>1
<1>5. Places = CHOOSE f : f = [k \in Nat |-> IF k = 0 THEN 1 ELSE 2 * f[k - 1]]
  BY DEF Places
<1> HIDE DEF Places
<1>6. Places = [k \in Nat |-> IF k = 0 THEN 1 ELSE 2 * Places[k - 1]]
  BY <1>4, <1>5
<1>7. \A k \in Nat : Places[k] = IF k = 0 THEN 1 ELSE 2 * Places[k - 1]
  BY <1>6
<1>8. \A k \in Nat : Places[k] \in Nat
  <2> DEFINE S == {k \in Nat : Places[k] \notin Nat}
  <2> SUFFICES ASSUME S # {} PROVE FALSE
    OBVIOUS
  <2>1. PICK k \in S : \A i \in S : k <= i
    BY LeastOf
  <2>2. k # 0 => k - 1 \in Nat /\ k - 1 \notin S
    BY <2>1
  <2>3. k # 0 => Places[k - 1] \in Nat
    BY <2>2
  <2> QED
    BY <1>7, <2>1, <2>3
<1> QED
  BY <1>7, <1>8

\* A bracket has more places than rounds, and twice the places with one more.
LEMMA PlacesGrow ==
  /\ Places[0] = 1 /\ Places[1] = 2
  /\ \A k \in Nat : Places[k] \in Nat /\ Places[k] > k /\ Places[k + 1] = 2 * Places[k]
  /\ \A k \in Nat : k # 0 => Places[k] = 2 * Places[k - 1]
  /\ \A k, j \in Nat : k <= j => Places[k] <= Places[j]
<1>1. Places[0] = 1 /\ \A k \in Nat : Places[k] \in Nat /\ Places[k + 1] = 2 * Places[k]
  BY PlacesOf
<1>2. \A k \in Nat : Places[k] > k
  <2> DEFINE S == {k \in Nat : ~(Places[k] > k)}
  <2> SUFFICES ASSUME S # {} PROVE FALSE
    OBVIOUS
  <2>1. PICK k \in S : \A i \in S : k <= i
    BY LeastOf
  <2>2. k # 0 => k - 1 \in Nat /\ k - 1 \notin S
    BY <2>1
  <2>3. k # 0 => Places[k - 1] > k - 1
    BY <2>2
  <2> QED
    BY <2>1, <2>3, PlacesOf
<1>3. \A k, j \in Nat : k <= j => Places[k] <= Places[j]
  <2> SUFFICES ASSUME NEW k \in Nat PROVE \A j \in Nat : k <= j => Places[k] <= Places[j]
    OBVIOUS
  <2> DEFINE S == {j \in Nat : k <= j /\ ~(Places[k] <= Places[j])}
  <2> SUFFICES ASSUME S # {} PROVE FALSE
    OBVIOUS
  <2>1. PICK j \in S : \A i \in S : j <= i
    BY LeastOf
  <2>2. j \in Nat /\ k <= j /\ j # k /\ ~(Places[k] <= Places[j])
    BY <2>1, PlacesOf
  <2>3. j - 1 \in Nat /\ j - 1 \notin S /\ k <= j - 1
    BY <2>1, <2>2
  <2>4. Places[k] <= Places[j - 1] /\ Places[j] = 2 * Places[j - 1]
    BY <2>2, <2>3, PlacesOf
  <2> QED
    BY <2>2, <2>3, <2>4, PlacesOf
<1>4. Places[1] = 2
  <2>1. Places[0 + 1] = 2 * Places[0] /\ 0 + 1 = 1
    BY <1>1
  <2> QED
    BY <1>1, <2>1
<1>5. \A k \in Nat : k # 0 => Places[k] = 2 * Places[k - 1]
  BY PlacesOf
<1> QED
  BY <1>1, <1>2, <1>3, <1>4, <1>5

\* Its number of rounds is the least one that gives every entrant a place.
LEMMA RoundsForOf ==
  ASSUME NEW n \in Nat, n >= 2
  PROVE  /\ RoundsFor(n) \in Nat /\ RoundsFor(n) >= 1
         /\ n <= Places[RoundsFor(n)] /\ Places[RoundsFor(n) - 1] < n
<1> DEFINE Fits(k) == n <= Places[k] /\ \A j \in 0..k - 1 : Places[j] < n
           S == {k \in Nat : n <= Places[k]}
<1>1. PICK k \in S : \A i \in S : k <= i
  <2>1. n \in S
    BY PlacesGrow
  <2> QED
    BY <2>1, LeastOf
<1>2. k \in 0..n
  <2>1. n \in S
    BY PlacesGrow
  <2> QED
    BY <1>1, <2>1
<1>3. Fits(k)
  <2> SUFFICES ASSUME NEW j \in 0..k - 1 PROVE Places[j] < n
    BY <1>1
  <2>1. j \in Nat /\ j \notin S
    BY <1>1, <1>2
  <2> QED
    BY <2>1, PlacesGrow
<1>4. RoundsFor(n) \in 0..n /\ Fits(RoundsFor(n))
  <2>1. RoundsFor(n) = CHOOSE i \in 0..n : Fits(i)
    BY DEF RoundsFor
  <2> HIDE DEF Fits
  <2> QED
    BY <1>2, <1>3, <2>1
<1>5. RoundsFor(n) # 0
  BY <1>4, PlacesGrow
<1> QED
  BY <1>4, <1>5

\* The order of the seeds in a bracket, from the order in one of half its size.
Doubled(half, k) ==
    [i \in 1..Places[k] |-> IF i % 2 = 1 THEN half[(i + 1) \div 2] ELSE Places[k] + 1 - half[i \div 2]]

LEMMA DoubledOf ==
  ASSUME NEW k \in Nat, k > 1, NEW half \in [1..Places[k - 1] -> Int]
  PROVE  /\ Doubled(half, k) \in [1..Places[k] -> Int]
         /\ \A i \in 1..Places[k - 1] : /\ Doubled(half, k)[2 * i - 1] = half[i]
                                        /\ Doubled(half, k)[2 * i] = Places[k] + 1 - half[i]
<1> DEFINE Q == Places[k - 1]
<1>1. Q \in Nat /\ Places[k] = 2 * Q
  BY PlacesOf
<1> HIDE DEF Q
<1>2. ASSUME NEW i \in 1..2 * Q
      PROVE  (IF i % 2 = 1 THEN half[(i + 1) \div 2] ELSE 2 * Q + 1 - half[i \div 2]) \in Int
  <2>1. i % 2 = 1 => (i + 1) \div 2 \in 1..Q
    BY <1>1
  <2>2. i % 2 # 1 => i \div 2 \in 1..Q
    BY <1>1
  <2>3. \A j \in 1..Q : half[j] \in Int
    BY DEF Q
  <2>4. CASE i % 2 = 1
    BY <2>1, <2>3, <2>4
  <2>5. CASE i % 2 # 1
    BY <1>1, <2>2, <2>3, <2>5
  <2> QED
    BY <2>4, <2>5
<1>3. Doubled(half, k) = [i \in 1..2 * Q |-> IF i % 2 = 1 THEN half[(i + 1) \div 2] ELSE 2 * Q + 1 - half[i \div 2]]
  BY <1>1 DEF Doubled
<1>4. ASSUME NEW i \in 1..Q
      PROVE  /\ Doubled(half, k)[2 * i - 1] = half[i]
             /\ Doubled(half, k)[2 * i] = 2 * Q + 1 - half[i]
  <2>1. /\ 2 * i - 1 \in 1..2 * Q /\ 2 * i \in 1..2 * Q
        /\ (2 * i - 1) % 2 = 1 /\ (2 * i) % 2 = 0
        /\ ((2 * i - 1) + 1) \div 2 = i /\ (2 * i) \div 2 = i
    BY <1>1
  <2> QED
    BY <1>3, <2>1
<1>5. Doubled(half, k) \in [1..2 * Q -> Int]
  BY <1>2, <1>3
<1> QED
  BY <1>1, <1>4, <1>5 DEF Q

\* The seed order of a bracket from that of half its size.
LEMMA SeedOrderOf ==
  /\ SeedOrder[1] = <<1, 2>>
  /\ \A k \in Nat : k > 1 => SeedOrder[k] = Doubled(SeedOrder[k - 1], k)
<1> DEFINE V == UNION {[1..n -> Int] : n \in Nat}
           Step(f, k) == IF k <= 1 THEN <<1, 2>> ELSE Doubled(f[k - 1], k)
           Whole(f, k) == k > 1 /\ f[k - 1] \in [1..Places[k - 1] -> Int]
           G == [x \in Nat \X [Nat -> V] |-> IF Whole(x[2], x[1]) THEN Doubled(x[2][x[1] - 1], x[1]) ELSE <<1, 2>>]
<1>1. <<1, 2>> \in [1..2 -> Int] /\ <<1, 2>> \in V
  <2>1. <<1, 2>> \in [1..2 -> Int]
    OBVIOUS
  <2> QED
    BY <2>1
<1>2. \A k \in Nat : \A h : k > 1 /\ h \in [1..Places[k - 1] -> Int] => Doubled(h, k) \in V
  <2> SUFFICES ASSUME NEW k \in Nat, NEW h, k > 1, h \in [1..Places[k - 1] -> Int]
               PROVE  Doubled(h, k) \in V
    OBVIOUS
  <2>1. Doubled(h, k) \in [1..Places[k] -> Int]
    BY DoubledOf
  <2>2. Places[k] \in Nat
    BY PlacesOf
  <2> QED
    BY <2>1, <2>2
<1> HIDE DEF V
<1>3. IsRule(V, <<1, 2>>, G)
  <2> SUFFICES ASSUME NEW n \in Nat, NEW f \in [Nat -> V]
               PROVE  (IF Whole(f, n) THEN Doubled(f[n - 1], n) ELSE <<1, 2>>) \in V
    BY <1>1 DEF IsRule
  <2> QED
    BY <1>1, <1>2
<1>4. PICK F : Follows(F, V, <<1, 2>>, G)
  <2> HIDE DEF G
  <2> QED
    BY <1>3, RecursionExists
<1>5. ASSUME NEW n \in Nat
      PROVE  F[n] = IF Whole(F, n) THEN Doubled(F[n - 1], n) ELSE <<1, 2>>
  <2> DEFINE f == [i \in Nat |-> IF i < n THEN F[i] ELSE <<1, 2>>]
  <2>1. f \in [Nat -> V] /\ (n > 1 => f[n - 1] = F[n - 1])
    BY <1>1, <1>4 DEF Follows
  <2>2. F[n] = G[<<n, f>>]
    BY <1>4 DEF Follows
  <2> HIDE DEF f
  <2>3. F[n] = IF Whole(f, n) THEN Doubled(f[n - 1], n) ELSE <<1, 2>>
    BY <2>1, <2>2
  <2> QED
    BY <2>1, <2>3
<1>6. \A k \in Nat : k >= 1 => F[k] \in [1..Places[k] -> Int]
  <2> DEFINE S == {k \in Nat : k >= 1 /\ F[k] \notin [1..Places[k] -> Int]}
  <2> SUFFICES ASSUME S # {} PROVE FALSE
    OBVIOUS
  <2>1. PICK k \in S : \A i \in S : k <= i
    BY LeastOf
  <2>2. k \in Nat /\ k >= 1 /\ F[k] \notin [1..Places[k] -> Int]
    BY <2>1
  <2>3. CASE k = 1
    <3>1. Places[1] = 2
      BY PlacesGrow
    <3>2. ~Whole(F, 1)
      OBVIOUS
    <3>3. F[1] = <<1, 2>>
      BY <1>5, <3>2
    <3> QED
      BY <1>1, <2>2, <2>3, <3>1, <3>3
  <2>4. CASE k # 1
    <3>1. k - 1 \in Nat /\ k - 1 >= 1 /\ k - 1 \notin S
      BY <2>1, <2>2, <2>4
    <3>2. F[k - 1] \in [1..Places[k - 1] -> Int]
      BY <3>1
    <3>3. F[k] = Doubled(F[k - 1], k)
      BY <1>5, <2>2, <2>4, <3>2
    <3> QED
      BY <2>2, <2>4, <3>2, <3>3, DoubledOf
  <2> QED
    BY <2>3, <2>4
<1>7. ASSUME NEW k \in Nat PROVE F[k] = Step(F, k)
  <2>1. k > 1 => F[k - 1] \in [1..Places[k - 1] -> Int]
    BY <1>6
  <2> QED
    BY <1>5, <2>1
<1>8. F = [k \in Nat |-> Step(F, k)]
  <2>1. F \in [Nat -> V]
    BY <1>4 DEF Follows
  <2> HIDE DEF Step
  <2> QED
    BY <1>7, <2>1
<1>9. SeedOrder = CHOOSE f : f = [k \in Nat |-> Step(f, k)]
  BY DEF SeedOrder, Doubled
<1>10. SeedOrder = [k \in Nat |-> Step(SeedOrder, k)]
  <2> HIDE DEF SeedOrder, Step
  <2> QED
    BY <1>8, <1>9
<1> HIDE DEF SeedOrder
<1> QED
  BY <1>10

\* The order names every seed of 1..Places[k] once, the pairs add up to one
\* more than the places, the better seed of a pair is the first, and the two
\* best seeds are in different halves.
LEMMA SeedOrderIs ==
  ASSUME NEW k \in Nat, k >= 1
  PROVE  /\ SeedOrder[k] \in [1..Places[k] -> 1..Places[k]]
         /\ \A i, j \in 1..Places[k] : SeedOrder[k][i] = SeedOrder[k][j] => i = j
         /\ \A i \in 1..Places[k - 1] : /\ SeedOrder[k][2 * i - 1] <= Places[k - 1]
                                        /\ SeedOrder[k][2 * i] = Places[k] + 1 - SeedOrder[k][2 * i - 1]
         /\ SeedOrder[k][1] = 1 /\ SeedOrder[k][Places[k - 1] + 1] = 2
<1> DEFINE O(n) == SeedOrder[n]
           P(n) == Places[n]
           Good(n) ==
             /\ O(n) \in [1..P(n) -> 1..P(n)]
             /\ \A i, j \in 1..P(n) : O(n)[i] = O(n)[j] => i = j
             /\ \A i \in 1..P(n - 1) : /\ O(n)[2 * i - 1] <= P(n - 1)
                                       /\ O(n)[2 * i] = P(n) + 1 - O(n)[2 * i - 1]
             /\ O(n)[1] = 1 /\ O(n)[P(n - 1) + 1] = 2
<1>1. Good(1)
  <2>1. P(1) = 2 /\ P(1 - 1) = 1 /\ O(1) = <<1, 2>>
    BY PlacesOf, SeedOrderOf
  <2> HIDE DEF O, P
  <2>2. O(1) \in [1..2 -> 1..2] /\ O(1)[1] = 1 /\ O(1)[2] = 2
    BY <2>1
  <2>3. \A i, j \in 1..2 : O(1)[i] = O(1)[j] => i = j
    BY <2>2
  <2>4. \A i \in 1..1 : O(1)[2 * i - 1] <= 1 /\ O(1)[2 * i] = 2 + 1 - O(1)[2 * i - 1]
    BY <2>2
  <2>5. 1..P(1) = 1..2 /\ 1..P(1 - 1) = 1..1 /\ P(1 - 1) + 1 = 2
    BY <2>1
  <2>6. O(1) \in [1..P(1) -> 1..P(1)] /\ \A i, j \in 1..P(1) : O(1)[i] = O(1)[j] => i = j
    BY Zenon, <2>2, <2>3, <2>5
  <2>7. ASSUME NEW i \in 1..P(1 - 1)
        PROVE  O(1)[2 * i - 1] <= P(1 - 1) /\ O(1)[2 * i] = P(1) + 1 - O(1)[2 * i - 1]
    BY <2>1, <2>4
  <2> QED
    BY Zenon, <2>2, <2>5, <2>6, <2>7
<1>2. ASSUME NEW n \in Nat, n > 1, Good(n - 1) PROVE Good(n)
  <2> DEFINE Q == P(n - 1)
             H == O(n - 1)
             D == O(n)
  <2>1. Q \in Nat /\ Q >= 1 /\ P(n) = 2 * Q /\ n - 1 \in Nat /\ n - 1 >= 1
    <3>0. n > 1
      <4> HIDE DEF Good
      <4> QED
        BY <1>2
    <3>1. n - 1 \in Nat /\ n - 1 >= 1
      BY <3>0
    <3>2. Places[n] = 2 * Places[n - 1] /\ Places[n - 1] \in Nat
      BY <3>0, <3>1, PlacesGrow
    <3>3. Places[n - 1] > n - 1
      BY <3>1, PlacesGrow
    <3> QED
      BY <3>1, <3>2, <3>3
  <2>2. P(n - 1 - 1) \in Nat /\ Q = 2 * P(n - 1 - 1)
    <3>1. n - 1 - 1 \in Nat /\ n - 1 - 1 = n - 2 /\ (n - 2) + 1 = n - 1
      BY <1>2
    <3> QED
      BY <3>1, PlacesGrow
  <2>3. H \in [1..Q -> 1..Q] /\ (\A i, j \in 1..Q : H[i] = H[j] => i = j) /\ H[1] = 1
    <3> HIDE DEF O, P
    <3> QED
      BY <1>2
  <2>4. H[P(n - 1 - 1) + 1] = 2
    <3> HIDE DEF O, P
    <3> QED
      BY <1>2
  <2>5. D \in [1..2 * Q -> Int] /\ \A i \in 1..Q : D[2 * i - 1] = H[i] /\ D[2 * i] = 2 * Q + 1 - H[i]
    <3>1. D = Doubled(H, n)
      BY <1>2, SeedOrderOf
    <3>2. H \in [1..Q -> Int]
      <4> HIDE DEF Q, H
      <4> QED
        BY <2>1, <2>3
    <3>3. /\ Doubled(H, n) \in [1..P(n) -> Int]
          /\ \A i \in 1..Q : /\ Doubled(H, n)[2 * i - 1] = H[i]
                              /\ Doubled(H, n)[2 * i] = P(n) + 1 - H[i]
      <4> HIDE DEF H, D, O
      <4> QED
        BY <1>2, <3>2, DoubledOf
    <3> HIDE DEF H, D, O, P, Q
    <3> QED
      BY <2>1, <3>1, <3>3
  <2> HIDE DEF H, D, Q
  <2>6. \A i \in 1..Q : /\ H[i] \in 1..Q /\ D[2 * i - 1] \in 1..Q
                        /\ D[2 * i] = 2 * Q + 1 - D[2 * i - 1] /\ D[2 * i] \in (Q + 1)..2 * Q
    <3> SUFFICES ASSUME NEW i \in 1..Q
                 PROVE  /\ H[i] \in 1..Q /\ D[2 * i - 1] \in 1..Q
                        /\ D[2 * i] = 2 * Q + 1 - D[2 * i - 1] /\ D[2 * i] \in (Q + 1)..2 * Q
      OBVIOUS
    <3>1. H[i] \in 1..Q /\ D[2 * i - 1] = H[i] /\ D[2 * i] = 2 * Q + 1 - H[i]
      BY <2>3, <2>5
    <3> QED
      BY <2>1, <3>1
  <2>7. \A x \in 1..2 * Q : \E i \in 1..Q : x = 2 * i - 1 \/ x = 2 * i
    <3> SUFFICES ASSUME NEW x \in 1..2 * Q PROVE \E i \in 1..Q : x = 2 * i - 1 \/ x = 2 * i
      OBVIOUS
    <3>1. (x + 1) \div 2 \in 1..Q /\ (x = 2 * ((x + 1) \div 2) - 1 \/ x = 2 * ((x + 1) \div 2))
      BY <2>1
    <3> QED
      BY <3>1
  <2>8. ASSUME NEW x \in 1..2 * Q PROVE D[x] \in 1..2 * Q
    <3>1. PICK i \in 1..Q : x = 2 * i - 1 \/ x = 2 * i
      BY <2>7
    <3>2. D[2 * i - 1] \in 1..Q /\ D[2 * i] \in (Q + 1)..2 * Q
      BY <2>6
    <3> QED
      BY <2>1, <3>1, <3>2
  <2>9. ASSUME NEW x \in 1..2 * Q, NEW y \in 1..2 * Q, D[x] = D[y] PROVE x = y
    <3>1. PICK i \in 1..Q : x = 2 * i - 1 \/ x = 2 * i
      BY <2>7
    <3>2. PICK j \in 1..Q : y = 2 * j - 1 \/ y = 2 * j
      BY <2>7
    <3>3. /\ D[2 * i - 1] = H[i] /\ D[2 * i] = 2 * Q + 1 - H[i]
          /\ D[2 * j - 1] = H[j] /\ D[2 * j] = 2 * Q + 1 - H[j]
          /\ H[i] \in 1..Q /\ H[j] \in 1..Q /\ (H[i] = H[j] => i = j)
      BY <2>3, <2>5, <2>6
    <3>4. H[i] = H[j]
      BY <2>1, <2>9, <3>1, <3>2, <3>3
    <3> QED
      BY <2>1, <2>9, <3>1, <3>2, <3>3, <3>4
  <2>10. D[1] = 1 /\ D[Q + 1] = 2
    <3>1. 1 \in 1..Q /\ 2 * 1 - 1 = 1 /\ P(n - 1 - 1) + 1 \in 1..Q /\ 2 * (P(n - 1 - 1) + 1) - 1 = Q + 1
      <4> HIDE DEF P
      <4> QED
        BY <2>1, <2>2
    <3> HIDE DEF P
    <3> QED
      BY <2>3, <2>4, <2>5, <3>1
  <2>11. D \in [1..2 * Q -> 1..2 * Q]
    BY <2>5, <2>8
  <2>12. /\ O(n) \in [1..P(n) -> 1..P(n)]
         /\ \A i, j \in 1..P(n) : O(n)[i] = O(n)[j] => i = j
    <3> HIDE DEF O, P
    <3> QED
      BY <2>1, <2>9, <2>11 DEF D
  <2>13. \A i \in 1..P(n - 1) : /\ O(n)[2 * i - 1] <= P(n - 1)
                                /\ O(n)[2 * i] = P(n) + 1 - O(n)[2 * i - 1]
    <3> HIDE DEF O, P
    <3> QED
      BY <2>1, <2>6 DEF D, Q
  <2>14. O(n)[1] = 1 /\ O(n)[P(n - 1) + 1] = 2
    <3> HIDE DEF O, P
    <3> QED
      BY <2>10 DEF D, Q
  <2> QED
    BY <2>12, <2>13, <2>14
<1> HIDE DEF Good
<1>3. \A n \in Nat : n >= 1 => Good(n)
  <2> DEFINE S == {n \in Nat : n >= 1 /\ ~Good(n)}
  <2> SUFFICES ASSUME S # {} PROVE FALSE
    OBVIOUS
  <2>1. PICK n \in S : \A i \in S : n <= i
    BY LeastOf
  <2>2. n \in Nat /\ n >= 1 /\ ~Good(n) /\ n # 1
    BY <1>1, <2>1
  <2>3. n - 1 \in Nat /\ n - 1 >= 1 /\ n - 1 \notin S
    BY <2>1, <2>2
  <2>4. Good(n - 1) /\ n > 1
    BY <2>2, <2>3
  <2> QED
    BY <1>2, <2>2, <2>4
<1>4. Good(k)
  BY <1>3
<1> QED
  BY <1>4 DEF Good

(***************************************************************************)
(* Sorting.                                                                *)
(***************************************************************************)

\* A function that separates its arguments has room for them, and when it has
\* no more than that it reaches everything.
LEMMA OneToOne ==
  ASSUME NEW S, NEW T, IsFiniteSet(T), NEW f \in [S -> T], \A x, y \in S : f[x] = f[y] => x = y
  PROVE  /\ IsFiniteSet(S) /\ Cardinality(S) <= Cardinality(T)
         /\ Cardinality(S) = Cardinality(T) => \A t \in T : \E s \in S : f[s] = t
<1>1. f \in Injection(S, T)
  BY DEF Injection, IsInjective
<1>2. /\ IsFiniteSet(S) /\ Cardinality(S) <= Cardinality(T)
      /\ Cardinality(S) = Cardinality(T) <=> f \in Surjection(S, T)
  BY <1>1, FS_Injection
<1> QED
  BY <1>2 DEF Surjection

\* A list of the members of a set, each of them once.
IsListing(f, S) ==
    /\ f \in [1..Cardinality(S) -> S]
    /\ \A i, j \in 1..Cardinality(S) : f[i] = f[j] => i = j
    /\ \A a \in S : \E i \in 1..Cardinality(S) : f[i] = a

IsStrictOrder(Lt, S) ==
    /\ \A a \in S : <<a, a>> \notin Lt
    /\ \A a, b \in S : a # b => <<a, b>> \in Lt \/ <<b, a>> \in Lt
    /\ \A a, b, c \in S : <<a, b>> \in Lt /\ <<b, c>> \in Lt => <<a, c>> \in Lt

\* The member with i - 1 members before it is the i-th of a listing.
SortedBy(Lt, S) ==
    [i \in 1..Cardinality(S) |-> CHOOSE a \in S : Cardinality({b \in S : <<b, a>> \in Lt}) = i - 1]

\* A sort by a strict order lists the set.
LEMMA SortedLists ==
  ASSUME NEW S, IsFiniteSet(S), NEW Lt, IsStrictOrder(Lt, S)
  PROVE  IsListing(SortedBy(Lt, S), S)
<1> DEFINE N == Cardinality(S)
           Before(a) == {b \in S : <<b, a>> \in Lt}
           rank == [a \in S |-> Cardinality(Before(a))]
           at == [i \in 1..N |-> CHOOSE a \in S : Cardinality(Before(a)) = i - 1]
<1>1. N \in Nat
  BY FS_CardinalityType
<1>2. ASSUME NEW a \in S
      PROVE  IsFiniteSet(Before(a)) /\ Cardinality(Before(a)) \in Nat /\ Cardinality(Before(a)) < N
  <2>1. Before(a) \in SUBSET S /\ a \notin Before(a)
    BY DEF IsStrictOrder
  <2> HIDE DEF Before
  <2>2. /\ IsFiniteSet(Before(a)) /\ Cardinality(Before(a)) <= N
        /\ N = Cardinality(Before(a)) => S = Before(a)
    BY <2>1, FS_Subset
  <2>3. Cardinality(Before(a)) \in Nat
    BY <2>2, FS_CardinalityType
  <2> HIDE DEF N
  <2> QED
    BY <1>1, <2>1, <2>2, <2>3
<1>3. ASSUME NEW a \in S, NEW b \in S, <<a, b>> \in Lt
      PROVE  Cardinality(Before(a)) < Cardinality(Before(b))
  <2>1. Before(a) \in SUBSET Before(b) /\ a \in Before(b) /\ a \notin Before(a)
    BY <1>3 DEF IsStrictOrder
  <2> HIDE DEF Before
  <2>2. /\ Cardinality(Before(a)) <= Cardinality(Before(b))
        /\ Cardinality(Before(b)) = Cardinality(Before(a)) => Before(b) = Before(a)
    BY <1>2, <2>1, FS_Subset
  <2> QED
    BY <1>2, <2>1, <2>2
<1>4. \A a, b \in S : rank[a] = rank[b] => a = b
  <2> SUFFICES ASSUME NEW a \in S, NEW b \in S, a # b,
                      Cardinality(Before(a)) = Cardinality(Before(b))
               PROVE  FALSE
    OBVIOUS
  <2>1. <<a, b>> \in Lt \/ <<b, a>> \in Lt
    BY DEF IsStrictOrder
  <2> HIDE DEF Before
  <2> QED
    BY <1>2, <1>3, <2>1
<1>5. rank \in [S -> 0..(N - 1)]
  <2> HIDE DEF Before, N
  <2> QED
    BY <1>1, <1>2
<1>6. IsFiniteSet(0..(N - 1)) /\ Cardinality(0..(N - 1)) = N
  <2> HIDE DEF N
  <2>1. 0 \in Int /\ N - 1 \in Int
    BY <1>1
  <2>2. IsFiniteSet(0..(N - 1)) /\ Cardinality(0..(N - 1)) = IF 0 > N - 1 THEN 0 ELSE (N - 1) - 0 + 1
    BY <2>1, FS_Interval
  <2> QED
    BY <1>1, <2>2
<1>7. \A t \in 0..(N - 1) : \E a \in S : rank[a] = t
  <2> DEFINE T == 0..(N - 1)
  <2>1. IsFiniteSet(T) /\ Cardinality(S) = Cardinality(T) /\ rank \in [S -> T]
    BY <1>5, <1>6
  <2>2. \A t \in T : \E a \in S : rank[a] = t
    <3> HIDE DEF T, rank
    <3> QED
      BY <1>4, <2>1, OneToOne
  <2> QED
    BY <2>2
<1>8. ASSUME NEW i \in 1..N PROVE at[i] \in S /\ rank[at[i]] = i - 1
  <2>1. i - 1 \in 0..(N - 1)
    <3> HIDE DEF N
    <3> QED
      BY <1>1
  <2>2. \E a \in S : Cardinality(Before(a)) = i - 1
    <3> HIDE DEF N, Before
    <3> QED
      BY <1>7, <2>1
  <2>3. at[i] = CHOOSE a \in S : Cardinality(Before(a)) = i - 1
    OBVIOUS
  <2>4. at[i] \in S /\ Cardinality(Before(at[i])) = i - 1
    <3> HIDE DEF at, Before
    <3> QED
      BY <2>2, <2>3
  <2> HIDE DEF at, Before
  <2> QED
    BY <2>4
<1>9. at \in [1..N -> S]
  <2>1. \A i \in 1..N : (CHOOSE a \in S : Cardinality(Before(a)) = i - 1) \in S
    BY <1>8
  <2> HIDE DEF Before, N
  <2> QED
    BY <2>1
<1> HIDE DEF at, N, rank
<1>10. \A i, j \in 1..N : at[i] = at[j] => i = j
  BY <1>1, <1>8
<1>11. ASSUME NEW a \in S PROVE \E i \in 1..N : at[i] = a
  <2>1. rank[a] + 1 \in 1..N /\ (rank[a] + 1) - 1 = rank[a]
    BY <1>1, <1>5
  <2> QED
    BY <1>4, <1>8, <2>1
<1>12. IsListing(at, S)
  BY <1>9, <1>10, <1>11 DEF IsListing, N
<1> QED
  BY <1>12 DEF at, N, SortedBy

\* The seeds list the entries, and the qualified entries are listed too.
LEMMA SeedsList ==
  ASSUME NEW n \in Nat, \A a \in 1..n : OverallRank[a] \in Int
  PROVE  IsListing(Seeds(n), 1..n) /\ Cardinality(1..n) = n
<1> DEFINE Lt == {x \in (1..n) \X (1..n) : SeededBefore(x[1], x[2])}
<1>1. IsFiniteSet(1..n) /\ Cardinality(1..n) = n
  <2>1. IsFiniteSet(1..n) /\ Cardinality(1..n) = IF 1 > n THEN 0 ELSE n - 1 + 1
    BY FS_Interval
  <2> QED
    BY <2>1
<1>2. \A a, b \in 1..n : <<a, b>> \in Lt <=> SeededBefore(a, b)
  OBVIOUS
<1> HIDE DEF Lt
<1>3. IsStrictOrder(Lt, 1..n)
  <2>1. \A a \in 1..n : ~SeededBefore(a, a)
    BY DEF SeededBefore
  <2>2. \A a, b \in 1..n : a # b => SeededBefore(a, b) \/ SeededBefore(b, a)
    BY DEF SeededBefore
  <2>3. \A a, b, c \in 1..n : SeededBefore(a, b) /\ SeededBefore(b, c) => SeededBefore(a, c)
    BY DEF SeededBefore
  <2> QED
    BY <1>2, <2>1, <2>2, <2>3 DEF IsStrictOrder
<1>4. \A a \in 1..n : {b \in 1..n : <<b, a>> \in Lt} = {b \in 1..n : SeededBefore(b, a)}
  BY <1>2
<1>5. IsListing(SortedBy(Lt, 1..n), 1..n)
  BY <1>1, <1>3, SortedLists
<1>6. \A i : (CHOOSE a \in 1..n : Cardinality({b \in 1..n : <<b, a>> \in Lt}) = i - 1)
           = (CHOOSE a \in 1..n : Cardinality({b \in 1..n : SeededBefore(b, a)}) = i - 1)
  BY <1>4
<1>7. Seeds(n) = [i \in 1..Cardinality(1..n) |->
                    CHOOSE a \in 1..n : Cardinality({b \in 1..n : SeededBefore(b, a)}) = i - 1]
  BY DEF Seeds, Sorted
<1>8. Seeds(n) = SortedBy(Lt, 1..n)
  BY <1>6, <1>7 DEF SortedBy
<1> QED
  BY <1>1, <1>5, <1>8

\* The qualified entries in the order in which they are seeded.
LEMMA QualifiedList ==
  ASSUME Entries \in SUBSET Nat, IsFiniteSet(Entries), \A a \in Entries : OverallRank[a] \in Int,
         \A a \in Entries : standing[a].rank \in Nat /\ drawn[a] \in Nat
  PROVE  IsListing(Sorted(Qualified, QualifiedBefore), Qualified)
<1> DEFINE Q == Qualified
           Lt == {x \in Q \X Q : QualifiedBefore(x[1], x[2])}
<1>1. IsFiniteSet(Q) /\ Q \subseteq Entries
  <2>1. Q \in SUBSET Entries
    BY DEF Qualified
  <2> HIDE DEF Q
  <2> QED
    BY <2>1, FS_Subset
<1> HIDE DEF Q
<1>2. \A a, b \in Q : <<a, b>> \in Lt <=> QualifiedBefore(a, b)
  OBVIOUS
<1> HIDE DEF Lt
<1>3. IsStrictOrder(Lt, Q)
  <2> DEFINE r(a) == standing[a].rank
             d(a) == drawn[a]
             o(a) == OverallRank[a]
  <2>1. \A a \in Q : a \in Nat /\ r(a) \in Nat /\ d(a) \in Nat /\ o(a) \in Int
    BY <1>1
  <2>2. \A a, b : QualifiedBefore(a, b) <=>
                    \/ r(a) < r(b)
                    \/ r(a) = r(b) /\ d(a) < d(b)
                    \/ r(a) = r(b) /\ d(a) = d(b) /\ (o(a) < o(b) \/ (o(a) = o(b) /\ a < b))
    BY DEF QualifiedBefore, SeededBefore
  <2> HIDE DEF r, d, o
  <2>3. \A a \in Q : ~QualifiedBefore(a, a)
    BY <2>1, <2>2
  <2>4. \A a, b \in Q : a # b => QualifiedBefore(a, b) \/ QualifiedBefore(b, a)
    BY <2>1, <2>2
  <2>5. \A a, b, c \in Q : QualifiedBefore(a, b) /\ QualifiedBefore(b, c) => QualifiedBefore(a, c)
    BY SMTT(30), <2>1, <2>2
  <2> QED
    BY <1>2, <2>3, <2>4, <2>5 DEF IsStrictOrder
<1>4. \A a \in Q : {b \in Q : <<b, a>> \in Lt} = {b \in Q : QualifiedBefore(b, a)}
  BY <1>2
<1>5. IsListing(SortedBy(Lt, Q), Q)
  BY <1>1, <1>3, SortedLists
<1>6. \A i : (CHOOSE a \in Q : Cardinality({b \in Q : <<b, a>> \in Lt}) = i - 1)
           = (CHOOSE a \in Q : Cardinality({b \in Q : QualifiedBefore(b, a)}) = i - 1)
  BY <1>4
<1>7. Sorted(Q, QualifiedBefore) = [i \in 1..Cardinality(Q) |->
                    CHOOSE a \in Q : Cardinality({b \in Q : QualifiedBefore(b, a)}) = i - 1]
  BY DEF Sorted
<1>8. Sorted(Q, QualifiedBefore) = SortedBy(Lt, Q)
  BY <1>6, <1>7 DEF SortedBy
<1> QED
  BY <1>5, <1>8 DEF Q

(***************************************************************************)
(* Rounds, ties and events.                                                *)
(***************************************************************************)

HasBracket == plan.legs \in {1, 2} /\ Rounds \in Nat /\ Rounds >= 1

\* Where the ties of the rounds start.
LEMMA Starts ==
  ASSUME HasBracket
  PROVE  /\ RoundStart(1) = 1 /\ RoundStart(Rounds + 1) = Places[Rounds]
         /\ \A k \in 1..(Rounds + 1) : RoundStart(k) \in Nat /\ RoundStart(k) >= 1
         /\ \A k \in 1..Rounds : /\ Places[Rounds - k] \in Nat /\ Places[Rounds - k] >= 1
                                 /\ RoundStart(k + 1) = RoundStart(k) + Places[Rounds - k]
         /\ \A j, k \in 1..(Rounds + 1) : j <= k => RoundStart(j) <= RoundStart(k)
<1> DEFINE R == Rounds
<1>0. R \in Nat /\ R >= 1
  BY DEF HasBracket
<1> HIDE DEF R
<1>1. \A k \in Nat : Places[k] \in Nat /\ Places[k] >= 1
  BY PlacesGrow
<1>2. \A k : RoundStart(k) = 1 + Places[R] - Places[R - k + 1]
  BY DEF RoundStart, R
<1>3. RoundStart(1) = 1 /\ RoundStart(R + 1) = Places[R]
  <2>1. R - 1 + 1 = R /\ R - (R + 1) + 1 = 0 /\ Places[0] = 1
    BY <1>0, PlacesGrow
  <2> QED
    BY <1>0, <1>1, <1>2, <2>1
<1>4. ASSUME NEW k \in 1..(R + 1) PROVE RoundStart(k) \in Nat /\ RoundStart(k) >= 1
  <2>1. R - k + 1 \in Nat /\ R - k + 1 <= R
    BY <1>0
  <2>2. Places[R - k + 1] <= Places[R]
    BY <1>0, <2>1, PlacesGrow
  <2> QED
    BY <1>0, <1>1, <1>2, <2>1, <2>2
<1>5. ASSUME NEW k \in 1..R
      PROVE  /\ Places[R - k] \in Nat /\ Places[R - k] >= 1
             /\ RoundStart(k + 1) = RoundStart(k) + Places[R - k]
  <2>1. R - k \in Nat /\ R - k + 1 \in Nat /\ R - (k + 1) + 1 = R - k
    BY <1>0
  <2>2. Places[R - k + 1] = 2 * Places[R - k]
    BY <2>1, PlacesGrow
  <2>3. RoundStart(k) = 1 + Places[R] - Places[R - k + 1] /\ RoundStart(k + 1) = 1 + Places[R] - Places[R - k]
    BY <1>2, <2>1
  <2>4. Places[R] \in Nat /\ Places[R - k] \in Nat /\ Places[R - k] >= 1
    BY <1>0, <1>1, <2>1
  <2> QED
    BY <2>2, <2>3, <2>4
<1>6. ASSUME NEW j \in 1..(R + 1), NEW k \in 1..(R + 1), j <= k PROVE RoundStart(j) <= RoundStart(k)
  <2>1. R - k + 1 \in Nat /\ R - j + 1 \in Nat /\ R - k + 1 <= R - j + 1
    BY <1>0, <1>6
  <2>2. Places[R - k + 1] <= Places[R - j + 1]
    BY <2>1, PlacesGrow
  <2>3. RoundStart(k) = 1 + Places[R] - Places[R - k + 1] /\ RoundStart(j) = 1 + Places[R] - Places[R - j + 1]
    BY <1>2
  <2>4. Places[R] \in Nat /\ Places[R - k + 1] \in Nat /\ Places[R - j + 1] \in Nat
    BY <1>0, <1>1, <2>1
  <2> QED
    BY <2>2, <2>3, <2>4
<1> QED
  BY <1>3, <1>4, <1>5, <1>6 DEF R

\* A tie belongs to one round: the one whose ties start before it last.
LEMMA RoundOfIs ==
  ASSUME HasBracket
  PROVE  /\ \A m \in Ties : /\ RoundOf(m) \in 1..Rounds
                            /\ RoundStart(RoundOf(m)) <= m /\ m < RoundStart(RoundOf(m) + 1)
         /\ \A k \in 1..Rounds, m \in Nat :
               RoundStart(k) <= m /\ m < RoundStart(k + 1) => m \in Ties /\ RoundOf(m) = k
<1> DEFINE R == Rounds
           In(m, k) == RoundStart(k) <= m /\ m < RoundStart(k + 1)
<1>0. R \in Nat /\ R >= 1 /\ Places[R] \in Nat
  BY PlacesGrow DEF HasBracket
<1>1. \A m : RoundOf(m) = CHOOSE k \in 1..R : In(m, k)
  <2>1. \A m, k : k \in 1..R => (RoundStart(k) <= m /\ m < RoundStart(k) + Places[R - k] <=> In(m, k))
    BY Starts
  <2> QED
    BY <2>1 DEF RoundOf
<1>2. ASSUME NEW m \in Nat, NEW k \in 1..R, NEW j \in 1..R, In(m, k), In(m, j) PROVE j = k
  <2>1. /\ k + 1 \in 1..(R + 1) /\ j + 1 \in 1..(R + 1) /\ k \in 1..(R + 1) /\ j \in 1..(R + 1)
        /\ k \in Nat /\ j \in Nat
    BY <1>0
  <2>2. /\ k + 1 <= j => RoundStart(k + 1) <= RoundStart(j)
        /\ j + 1 <= k => RoundStart(j + 1) <= RoundStart(k)
        /\ RoundStart(k) \in Nat /\ RoundStart(j) \in Nat /\ RoundStart(k + 1) \in Nat /\ RoundStart(j + 1) \in Nat
    BY <2>1, Starts
  <2>3. RoundStart(k) <= m /\ m < RoundStart(k + 1) /\ RoundStart(j) <= m /\ m < RoundStart(j + 1)
    BY <1>2
  <2>4. ~(k + 1 <= j) /\ ~(j + 1 <= k)
    BY <2>2, <2>3
  <2> QED
    BY <2>1, <2>4
<1>3. ASSUME NEW m \in Ties PROVE \E k \in 1..R : In(m, k)
  <2> DEFINE S == {k \in Nat : k \in 1..R /\ m < RoundStart(k + 1)}
  <2>1. m \in Nat /\ m >= 1 /\ m < Places[R]
    BY <1>0 DEF Ties
  <2>2. R \in S
    BY <1>0, <2>1, Starts
  <2>3. PICK k \in S : \A i \in S : k <= i
    BY <2>2, LeastOf
  <2>4. k \in 1..R /\ m < RoundStart(k + 1) /\ k \in Nat
    BY <2>3
  <2>5. RoundStart(k) <= m
    <3>1. CASE k = 1
      BY <2>1, <3>1, Starts
    <3>2. CASE k # 1
      <4>1. k - 1 \in 1..R /\ k - 1 \notin S /\ k - 1 \in Nat /\ (k - 1) + 1 = k /\ k \in 1..(R + 1)
        BY <1>0, <2>3, <2>4, <3>2
      <4>2. RoundStart(k) \in Nat
        BY <4>1, Starts
      <4>3. ~(m < RoundStart(k))
        BY <4>1
      <4> QED
        BY <2>1, <4>2, <4>3
    <3> QED
      BY <3>1, <3>2
  <2> QED
    BY <2>4, <2>5
<1>4. ASSUME NEW m \in Ties PROVE RoundOf(m) \in 1..R /\ In(m, RoundOf(m))
  <2> HIDE DEF In
  <2> QED
    BY <1>1, <1>3
<1>5. ASSUME NEW k \in 1..R, NEW m \in Nat, In(m, k) PROVE m \in Ties /\ RoundOf(m) = k
  <2>1. k + 1 \in 1..(R + 1) /\ R + 1 \in 1..(R + 1) /\ k + 1 <= R + 1 /\ k \in 1..(R + 1)
    BY <1>0
  <2>2. RoundStart(k + 1) <= Places[R] /\ RoundStart(k) >= 1 /\ RoundStart(k) \in Nat /\ RoundStart(k + 1) \in Nat
    BY <2>1, Starts
  <2>3. RoundStart(k) <= m /\ m < RoundStart(k + 1)
    BY <1>5
  <2>4. m \in Ties
    <3>1. m \in 1..(Places[R] - 1)
      BY <1>0, <2>2, <2>3
    <3> QED
      BY <3>1 DEF Ties
  <2>5. RoundOf(m) \in 1..R /\ In(m, RoundOf(m))
    <3> HIDE DEF In
    <3> QED
      BY <1>4, <2>4
  <2>6. RoundOf(m) = k
    <3> HIDE DEF In
    <3> QED
      BY <1>2, <1>5, <2>5
  <2> QED
    BY <2>4, <2>6
<1> QED
  BY <1>4, <1>5

\* The two ties whose winners meet in a tie: the first of them is odd.
Feeder(m) == RoundStart(RoundOf(m) - 1) + 2 * (m - RoundStart(RoundOf(m)))

LEMMA FeederOf ==
  ASSUME HasBracket, NEW m \in Ties, RoundOf(m) > 1
  PROVE  /\ Feeder(m) \in Ties /\ RoundOf(Feeder(m)) = RoundOf(m) - 1
         /\ Feeder(m) + 1 \in Ties /\ RoundOf(Feeder(m) + 1) = RoundOf(m) - 1
         /\ Feeder(m) + 1 < m /\ Feeder(m) % 2 = 1 /\ (Feeder(m) + 1) % 2 = 0
         /\ {f \in TiesOf(RoundOf(m) - 1) : NextTie(f) = m /\ f % 2 = 1} = {Feeder(m)}
         /\ {f \in TiesOf(RoundOf(m) - 1) : NextTie(f) = m /\ f % 2 = 0} = {Feeder(m) + 1}
<1> DEFINE R == Rounds
           k == RoundOf(m)
           a == RoundStart(k - 1)
           b == RoundStart(k)
           c == RoundStart(k + 1)
           n == Places[R - k]
           f == Feeder(m)
<1>0. R \in Nat /\ R >= 1
  BY DEF HasBracket
<1>1. k \in 1..R /\ k > 1 /\ b <= m /\ m < c /\ m \in Nat
  <2>1. m \in Nat
    BY <1>0, PlacesGrow DEF Ties
  <2> QED
    BY <2>1, RoundOfIs
<1> HIDE DEF k
<1>2. k - 1 \in 1..R /\ k \in 1..(R + 1) /\ k + 1 \in 1..(R + 1) /\ (k - 1) + 1 = k /\ k - 1 \in 1..(R + 1)
      /\ R - (k - 1) \in Nat /\ R - (k - 1) # 0 /\ R - (k - 1) - 1 = R - k /\ R - k \in Nat
  BY <1>0, <1>1
<1>3. Places[R - (k - 1)] = 2 * n
  BY <1>2, PlacesGrow
<1>4. n \in Nat /\ n >= 1 /\ a \in Nat /\ a >= 1 /\ b = a + 2 * n /\ c = b + n
  <2>1. c = b + n /\ n \in Nat /\ n >= 1
    BY <1>1, Starts
  <2>2. RoundStart((k - 1) + 1) = RoundStart(k - 1) + Places[R - (k - 1)]
    BY <1>2, Starts
  <2>3. a \in Nat /\ a >= 1
    BY <1>2, Starts
  <2> QED
    BY <1>2, <1>3, <2>1, <2>2, <2>3
<1>5. a % 2 = 1
  <2>1. R - (k - 1) + 1 \in Nat /\ R - (k - 1) + 1 # 0 /\ R - (k - 1) + 1 - 1 = R - (k - 1)
    BY <1>2
  <2>2. Places[R] = 2 * Places[R - 1] /\ Places[R - 1] \in Nat
    BY <1>0, PlacesGrow
  <2>3. Places[R - (k - 1) + 1] = 2 * (2 * n)
    <3>1. Places[(R - (k - 1)) + 1] = 2 * Places[R - (k - 1)]
      BY <1>2, PlacesGrow
    <3> QED
      BY <1>3, <3>1
  <2>4. a = 1 + 2 * Places[R - 1] - 2 * (2 * n)
    BY <2>2, <2>3 DEF RoundStart
  <2> HIDE DEF a, n
  <2> QED
    BY <1>4, <2>2, <2>4
<1>6. f = a + 2 * (m - b)
  BY DEF Feeder, k
<1> HIDE DEF a, b, c, n, f
<1>7. f \in Nat /\ a <= f /\ f + 1 < b /\ f % 2 = 1 /\ (f + 1) % 2 = 0 /\ f + 1 < m
  BY <1>1, <1>4, <1>5, <1>6
<1>8. \A g \in Nat : a <= g /\ g < b => g \in Ties /\ RoundOf(g) = k - 1
  BY <1>2, RoundOfIs DEF a, b
<1>9. f \in Ties /\ RoundOf(f) = k - 1 /\ f + 1 \in Ties /\ RoundOf(f + 1) = k - 1
  <2>1. f + 1 \in Nat /\ f < b /\ a <= f + 1
    BY <1>4, <1>7
  <2> QED
    BY <1>7, <1>8, <2>1
<1>10. \A g \in TiesOf(k - 1) : g \in Nat /\ a <= g /\ g < b /\ NextTie(g) = b + (g - a) \div 2
  <2> SUFFICES ASSUME NEW g \in TiesOf(k - 1)
               PROVE  g \in Nat /\ a <= g /\ g < b /\ NextTie(g) = b + (g - a) \div 2
    OBVIOUS
  <2>1. g \in Ties /\ RoundOf(g) = k - 1
    BY DEF TiesOf
  <2>2. g \in Nat
    BY <1>0, <2>1, PlacesGrow DEF Ties
  <2>3. a <= g /\ g < b
    BY <1>2, <2>1, RoundOfIs DEF a, b
  <2> QED
    BY <1>2, <2>1, <2>2, <2>3 DEF NextTie, a, b
<1>11. NextTie(f) = m /\ NextTie(f + 1) = m
  <2>1. f \in TiesOf(k - 1) /\ f + 1 \in TiesOf(k - 1)
    BY <1>9 DEF TiesOf
  <2>2. NextTie(f) = b + (f - a) \div 2 /\ NextTie(f + 1) = b + ((f + 1) - a) \div 2
    <3>1. NextTie(f) = b + (f - a) \div 2
      BY Zenon, <1>10, <2>1
    <3>2. NextTie(f + 1) = b + ((f + 1) - a) \div 2
      BY Zenon, <1>10, <2>1
    <3> QED
      BY <3>1, <3>2
  <2>3. b \in Nat /\ (f - a) \div 2 = m - b /\ ((f + 1) - a) \div 2 = m - b
    BY <1>1, <1>4, <1>6, <1>7
  <2> QED
    BY <1>1, <2>2, <2>3
<1>12. ASSUME NEW g \in TiesOf(k - 1), NextTie(g) = m
       PROVE  (g % 2 = 1 => g = f) /\ (g % 2 = 0 => g = f + 1)
  <2>1. g \in Nat /\ a <= g /\ g < b /\ m = b + (g - a) \div 2
    BY <1>10, <1>12
  <2> QED
    BY <1>1, <1>4, <1>5, <1>6, <2>1
<1>13. /\ {g \in TiesOf(k - 1) : NextTie(g) = m /\ g % 2 = 1} = {f}
       /\ {g \in TiesOf(k - 1) : NextTie(g) = m /\ g % 2 = 0} = {f + 1}
  <2>1. f \in TiesOf(k - 1) /\ f + 1 \in TiesOf(k - 1)
    BY <1>9 DEF TiesOf
  <2>2. f % 2 = 1 /\ (f + 1) % 2 = 0
    BY <1>7
  <2> QED
    BY <1>11, <1>12, <2>1, <2>2
<1> QED
  BY <1>7, <1>9, <1>13 DEF f, k

(***************************************************************************)
(* The draw.                                                               *)
(***************************************************************************)

\* The pairs of round one: the better seed of a pair is there, and the other
\* one unless it is missing.
LEMMA PairsOf ==
  ASSUME NEW n \in Nat, n >= 2, NEW list, NEW k, k = RoundsFor(n)
  PROVE  /\ k \in Nat /\ k >= 1 /\ n <= Places[k] /\ Places[k - 1] < n
         /\ \A i \in 1..Places[k - 1] :
               /\ SeedOrder[k][2 * i - 1] \in 1..n /\ SeedOrder[k][2 * i] \in 1..Places[k]
               /\ Pairs(list, n)[i] = <<list[SeedOrder[k][2 * i - 1]],
                                        IF SeedOrder[k][2 * i] <= n THEN list[SeedOrder[k][2 * i]] ELSE 0>>
<1>1. k \in Nat /\ k >= 1 /\ n <= Places[k] /\ Places[k - 1] < n
  BY RoundsForOf
<1> DEFINE Q == Places[k - 1]
           O == SeedOrder[k]
<1>2. Q \in Nat /\ Places[k] = 2 * Q /\ Q < n
  BY <1>1, PlacesGrow
<1>3. Pairs(list, n) = [i \in 1..Q |-> <<IF O[2 * i - 1] <= n THEN list[O[2 * i - 1]] ELSE 0,
                                         IF O[2 * i] <= n THEN list[O[2 * i]] ELSE 0>>]
  BY DEF Pairs
<1>4. O \in [1..2 * Q -> 1..2 * Q] /\ \A i \in 1..Q : O[2 * i - 1] <= Q
  BY <1>1, <1>2, SeedOrderIs
<1> HIDE DEF Q, O
<1> SUFFICES ASSUME NEW i \in 1..Q
             PROVE  /\ O[2 * i - 1] \in 1..n /\ O[2 * i] \in 1..2 * Q
                    /\ Pairs(list, n)[i] = <<list[O[2 * i - 1]], IF O[2 * i] <= n THEN list[O[2 * i]] ELSE 0>>
  BY <1>1, <1>2 DEF Q, O
<1>5. 2 * i - 1 \in 1..2 * Q /\ 2 * i \in 1..2 * Q
  BY <1>2
<1>6. O[2 * i - 1] \in 1..2 * Q /\ O[2 * i] \in 1..2 * Q /\ O[2 * i - 1] <= Q
  BY <1>4, <1>5
<1>7. O[2 * i - 1] \in 1..n /\ O[2 * i - 1] <= n
  BY <1>2, <1>6
<1>8. Pairs(list, n)[i] = <<IF O[2 * i - 1] <= n THEN list[O[2 * i - 1]] ELSE 0,
                            IF O[2 * i] <= n THEN list[O[2 * i]] ELSE 0>>
  BY <1>3
<1> QED
  BY <1>6, <1>7, <1>8

\* The ties of round one come first.
LEMMA RoundOneIs == ASSUME HasBracket PROVE TiesOf(1) = 1..Places[Rounds - 1]
<1>1. Rounds \in Nat /\ Rounds >= 1 /\ Places[Rounds - 1] \in Nat
  BY PlacesGrow DEF HasBracket
<1>2. RoundStart(1) = 1 /\ RoundStart(1 + 1) = 1 + Places[Rounds - 1]
  BY <1>1, Starts
<1>3. ASSUME NEW m \in 1..Places[Rounds - 1] PROVE m \in TiesOf(1)
  <2>1. RoundStart(1) <= m /\ m < RoundStart(1 + 1) /\ m \in Nat /\ 1 \in 1..Rounds
    BY <1>1, <1>2
  <2> QED
    BY <2>1, RoundOfIs DEF TiesOf
<1>4. ASSUME NEW m \in TiesOf(1) PROVE m \in 1..Places[Rounds - 1]
  <2>1. m \in Ties /\ RoundOf(m) = 1
    BY DEF TiesOf
  <2>2. m \in Nat
    BY <1>1, <2>1, PlacesGrow DEF Ties
  <2>3. RoundStart(1) <= m /\ m < RoundStart(1 + 1)
    BY <2>1, RoundOfIs
  <2> QED
    BY <1>1, <1>2, <2>2, <2>3
<1> QED
  BY <1>3, <1>4

\* A bracket of the seeds is fair.
LEMMA BracketDrawFair ==
  ASSUME HasBracket, plan.groups = 0, plan.teams \in Nat, plan.teams >= 2,
         \A a \in Entries : OverallRank[a] \in Int,
         \A m \in TiesOf(1) : tie[m].sides = Pairs(Seeds(plan.teams), plan.teams)[m]
  PROVE  DrawFair
<1> DEFINE R == Rounds
           T == plan.teams
           P == Places[R]
           H == Places[R - 1]
           O == SeedOrder[R]
           best == Seeds(T)
<1>1. R = RoundsFor(T)
  BY DEF Rounds, HasBracket, KnockoutTeams
<1>2. R \in Nat /\ R >= 1 /\ T <= P /\ H < T /\ H \in Nat /\ P = 2 * H /\ P \in Nat /\ T \in Nat /\ T >= 2
  <2>1. R \in Nat /\ R >= 1 /\ T <= P /\ H < T
    BY <1>1, RoundsForOf
  <2>2. R - 1 \in Nat /\ R # 0
    BY <2>1
  <2>3. Places[R] = 2 * Places[R - 1] /\ Places[R - 1] \in Nat
    BY <2>1, <2>2, PlacesGrow
  <2> QED
    BY <2>1, <2>3
<1>3. best \in [1..T -> 1..T] /\ (\A i, j \in 1..T : best[i] = best[j] => i = j)
      /\ \A a \in 1..T : \E i \in 1..T : best[i] = a
  <2>1. IsListing(best, 1..T) /\ Cardinality(1..T) = T
    BY SeedsList DEF Entries
  <2> HIDE DEF best
  <2> QED
    BY <2>1 DEF IsListing
<1>4. /\ O \in [1..P -> 1..P] /\ (\A i, j \in 1..P : O[i] = O[j] => i = j)
      /\ \A i \in 1..H : O[2 * i - 1] <= H /\ O[2 * i] = P + 1 - O[2 * i - 1]
      /\ O[1] = 1 /\ O[H + 1] = 2
  BY <1>2, SeedOrderIs
<1>5. \A i \in 1..P : \E p \in 1..P : O[p] = i
  <2> HIDE DEF O, P
  <2> DEFINE S == 1..P
             U == 1..P
  <2>1. /\ IsFiniteSet(U) /\ O \in [S -> U] /\ \A i, j \in S : O[i] = O[j] => i = j
        /\ Cardinality(S) = Cardinality(U)
    <3>1. 1 \in Int /\ P \in Int
      BY <1>2
    <3> QED
      BY <1>4, <3>1, FS_Interval
  <2>2. \A i \in U : \E p \in S : O[p] = i
    <3> HIDE DEF S, U
    <3> QED
      BY <2>1, OneToOne
  <2> QED
    BY <2>2
<1>6. TiesOf(1) = 1..H
  BY RoundOneIs
<1>7. \A m \in 1..H : /\ O[2 * m - 1] \in 1..T /\ O[2 * m] \in 1..P
                      /\ tie[m].sides = <<best[O[2 * m - 1]], IF O[2 * m] <= T THEN best[O[2 * m]] ELSE 0>>
  <2> SUFFICES ASSUME NEW m \in 1..H
               PROVE  /\ O[2 * m - 1] \in 1..T /\ O[2 * m] \in 1..P
                      /\ Pairs(best, T)[m] = <<best[O[2 * m - 1]], IF O[2 * m] <= T THEN best[O[2 * m]] ELSE 0>>
    BY ZenonT(40), <1>6
  <2> QED
    BY <1>1, PairsOf
<1>8. Entries = 1..T
  BY DEF Entries
<1> HIDE DEF R, P, H, O, T, best
<1>0. \A i \in 1..T : best[i] \in 1..T /\ best[i] # 0
  <2>1. best \in [1..T -> 1..T]
    BY <1>3
  <2>2. \A a \in 1..T : a # 0
    BY <1>2
  <2>3. \A i \in 1..T : best[i] \in 1..T
    BY <2>1
  <2> QED
    BY <2>2, <2>3
<1> DEFINE seedOf(n) == CHOOSE i \in Entries : best[i] = n
           plays(n, m) == n \in {tie[m].sides[1], tie[m].sides[2]}
           firstHalf(m) == m <= Places[R - 2]
           placed == {x \in TiesOf(1) \X {1, 2} : tie[x[1]].sides[x[2]] # 0}
\* The seed at a side, by its position in the order.
<1>9. ASSUME NEW m \in 1..H, NEW s \in {1, 2}
      PROVE  /\ 2 * m + s - 2 \in 1..P
             /\ tie[m].sides[s] = IF O[2 * m + s - 2] <= T THEN best[O[2 * m + s - 2]] ELSE 0
  <2>1. CASE s = 1
    <3>1. 2 * m + s - 2 = 2 * m - 1 /\ 2 * m - 1 \in 1..P
      BY <1>2, <2>1
    <3>2. O[2 * m - 1] \in 1..T /\ tie[m].sides[1] = best[O[2 * m - 1]]
      BY <1>7
    <3>3. O[2 * m - 1] <= T
      BY <3>2
    <3> QED
      BY <2>1, <3>1, <3>2, <3>3
  <2>2. CASE s = 2
    <3>1. 2 * m + s - 2 = 2 * m /\ 2 * m \in 1..P
      BY <1>2, <2>2
    <3>2. tie[m].sides[2] = IF O[2 * m] <= T THEN best[O[2 * m]] ELSE 0
      BY <1>7
    <3> QED
      BY <2>2, <3>1, <3>2
  <2> QED
    BY <2>1, <2>2
<1>10. ASSUME NEW m \in 1..H, NEW s \in {1, 2}, NEW i \in 1..T, tie[m].sides[s] = best[i]
       PROVE  O[2 * m + s - 2] = i
  <2>1. best[i] # 0 /\ best[i] \in 1..T
    BY <1>0
  <2>2. O[2 * m + s - 2] \in 1..P
    BY <1>4, <1>9
  <2>3. O[2 * m + s - 2] <= T /\ best[O[2 * m + s - 2]] = best[i]
    BY <1>9, <1>10, <2>1
  <2>4. O[2 * m + s - 2] \in 1..T
    BY <1>2, <2>2, <2>3
  <2> QED
    BY <1>3, <2>3, <2>4
<1>11. ASSUME NEW n \in Entries PROVE Cardinality({x \in placed : tie[x[1]].sides[x[2]] = n}) = 1
  <2>1. PICK i \in 1..T : best[i] = n
    BY <1>3, <1>8
  <2>2. PICK p \in 1..P : O[p] = i
    BY <1>2, <1>5
  <2> DEFINE y == <<(p + 1) \div 2, 2 - (p % 2)>>
  <2>3. y[1] \in 1..H /\ y[2] \in {1, 2} /\ 2 * y[1] + y[2] - 2 = p
    BY <1>2
  <2>4. tie[y[1]].sides[y[2]] = best[i]
    <3> HIDE DEF y
    <3>1. tie[y[1]].sides[y[2]] = IF O[2 * y[1] + y[2] - 2] <= T THEN best[O[2 * y[1] + y[2] - 2]] ELSE 0
      BY <1>9, <2>3
    <3>2. i <= T
      BY <1>2
    <3> QED
      BY <2>2, <2>3, <3>1, <3>2
  <2>5. y \in placed
    <3>1. best[i] # 0
      BY <1>0
    <3>2. y \in TiesOf(1) \X {1, 2}
      BY <1>6, <2>3
    <3> HIDE DEF y
    <3> QED
      BY <2>4, <3>1, <3>2
  <2>6. ASSUME NEW x \in placed, tie[x[1]].sides[x[2]] = n PROVE x = y
    <3>1. x \in (1..H) \X {1, 2}
      BY <1>6
    <3>2. x[1] \in 1..H /\ x[2] \in {1, 2} /\ x = <<x[1], x[2]>>
      BY <3>1
    <3>3. O[2 * x[1] + x[2] - 2] = i
      BY <1>10, <2>1, <2>6, <3>2
    <3>4. 2 * x[1] + x[2] - 2 = p
      BY <1>4, <1>9, <2>2, <3>2, <3>3
    <3>5. x[1] = (p + 1) \div 2 /\ x[2] = 2 - (p % 2)
      BY <1>2, <3>2, <3>4
    <3> QED
      BY <3>2, <3>5
  <2>7. {x \in placed : tie[x[1]].sides[x[2]] = n} = {y}
    <3> HIDE DEF y, placed
    <3> QED
      BY <2>1, <2>4, <2>5, <2>6
  <2> HIDE DEF y, placed
  <2> QED
    BY <2>7, FS_Singleton
<1>12. ASSUME NEW m \in TiesOf(1) PROVE tie[m].sides # Unseeded
  <2>0. m \in 1..H
    BY <1>6
  <2>1. O[2 * m - 1] \in 1..T /\ tie[m].sides[1] = best[O[2 * m - 1]]
    BY <1>7, <2>0
  <2>2. tie[m].sides[1] # 0
    BY <1>0, <2>1
  <2> QED
    BY <2>2 DEF Unseeded
<1>13. ASSUME NEW m \in TiesOf(1), NEW n \in Entries, tie[m].sides = <<n, 0>>
       PROVE  seedOf(n) <= P - T
  <2> DEFINE i == O[2 * m - 1]
             j == O[2 * m]
  <2>1. /\ i \in 1..T /\ j \in 1..P /\ j = P + 1 - i
        /\ tie[m].sides = <<best[i], IF j <= T THEN best[j] ELSE 0>>
    BY <1>4, <1>6, <1>7
  <2> HIDE DEF i, j
  <2>2. n = best[i] /\ (IF j <= T THEN best[j] ELSE 0) = 0
    BY <1>13, <2>1
  <2>3. ~(j <= T)
    <3>1. j <= T => j \in 1..T
      BY <1>2, <2>1
    <3> QED
      BY <1>0, <2>2, <3>1
  <2>4. \E s \in Entries : best[s] = n
    BY <1>8, <2>1, <2>2
  <2>5. seedOf(n) \in Entries /\ best[seedOf(n)] = n
    BY <2>4
  <2>6. seedOf(n) = i
    <3> HIDE DEF seedOf
    <3> QED
      BY <1>3, <1>8, <2>1, <2>2, <2>5
  <2> HIDE DEF seedOf
  <2> QED
    BY <1>2, <2>1, <2>3, <2>6
<1>14. ASSUME R > 1, NEW m \in TiesOf(1), NEW o \in TiesOf(1), plays(best[1], m), plays(best[2], o)
       PROVE  firstHalf(m) <=> ~firstHalf(o)
  <2>1. Places[R - 2] \in Nat /\ Places[R - 2] >= 1 /\ H = 2 * Places[R - 2]
    <3>1. R - 2 \in Nat /\ R - 2 + 1 = R - 1 /\ (R - 2) + 1 = R - 1
      BY <1>2, <1>14
    <3> QED
      BY <3>1, PlacesGrow DEF H
  <2>2. 1 \in 1..T /\ 2 \in 1..T
    BY <1>2
  <2>3. PICK s \in {1, 2} : tie[m].sides[s] = best[1]
    BY <1>14
  <2>4. PICK u \in {1, 2} : tie[o].sides[u] = best[2]
    BY <1>14
  <2>5. O[2 * m + s - 2] = 1 /\ 2 * m + s - 2 \in 1..P
    <3>1. m \in 1..H /\ 1 \in 1..T
      BY <1>6, <2>2
    <3> QED
      BY <1>9, <1>10, <2>3, <3>1
  <2>6. O[2 * o + u - 2] = 2 /\ 2 * o + u - 2 \in 1..P
    <3>1. o \in 1..H /\ 2 \in 1..T
      BY <1>6, <2>2
    <3> QED
      BY <1>9, <1>10, <2>4, <3>1
  <2>7. 1 \in 1..P /\ H + 1 \in 1..P
    BY <1>2, <2>1
  <2>8. 2 * m + s - 2 = 1
    <3>1. O[1] = 1
      BY <1>4
    <3> QED
      BY <1>4, <2>5, <2>7, <3>1
  <2>9. 2 * o + u - 2 = H + 1
    <3>1. O[H + 1] = 2
      BY <1>4
    <3> QED
      BY <1>4, <2>6, <2>7, <3>1
  <2>10. m \in Nat /\ o \in Nat
    BY <1>2, <1>6
  <2>11. m = 1 /\ o = Places[R - 2] + 1
    BY <2>1, <2>8, <2>9, <2>10
  <2> HIDE DEF plays
  <2> QED
    BY <2>1, <2>11
<1> QED
  BY <1>11, <1>12, <1>13, <1>14 DEF DrawFair, R, P, T, best

LEMMA Quotient ==
  ASSUME NEW G \in Nat, NEW c \in Nat, NEW o \in Nat, o < G
  PROVE  (G * c + o) \div G = c /\ (G * c + o) % G = o
BY SMTT(30)

\* Division with a remainder, by a number that is not fixed.
LEMMA Division ==
  ASSUME NEW G \in Nat, G > 0, NEW x \in Nat
  PROVE  x \div G \in Nat /\ x % G \in 0..(G - 1) /\ x = G * (x \div G) + (x % G)
<1> DEFINE S == {c \in Nat : x < G * c + G}
<1>1. x \in S
  BY SMTT(30)
<1>2. PICK c \in S : \A i \in S : c <= i
  BY <1>1, LeastOf
<1>3. G * c <= x /\ G * c \in Nat /\ c \in Nat /\ x < G * c + G
  <2>1. c \in Nat /\ x < G * c + G
    BY <1>2
  <2>2. CASE c = 0
    BY <2>1, <2>2
  <2>3. CASE c # 0
    <3>1. c - 1 \in Nat /\ c - 1 \notin S
      BY <1>2, <2>1, <2>3
    <3>2. ~(x < G * (c - 1) + G)
      BY <3>1
    <3>3. G * (c - 1) + G = G * c /\ G * c \in Nat /\ G * (c - 1) \in Nat
      BY <2>1, <3>1
    <3> QED
      BY <2>1, <3>2, <3>3
  <2> QED
    BY <2>2, <2>3
<1> DEFINE o == x - G * c
<1>4. o \in Nat /\ o < G /\ x = G * c + o
  BY <1>3
<1>5. x \div G = c /\ x % G = o
  <2> HIDE DEF o, S
  <2>1. (G * c + o) \div G = c /\ (G * c + o) % G = o
    BY <1>3, <1>4, Quotient
  <2> QED
    BY <1>4, <2>1
<1> HIDE DEF o, S
<1> QED
  BY <1>3, <1>4, <1>5

\* The snake puts one entry of every full cycle in every group, and one of the
\* rest at most: a group has the quotient of the teams, or one more.
LEMMA SnakeOf ==
  ASSUME plan.groups \in Nat, plan.groups > 0, NEW i \in Nat, i >= 1
  PROVE  /\ SnakeGroup(plan, i) \in 1..plan.groups
         /\ (i - 1) % plan.groups = IF ((i - 1) \div plan.groups) % 2 = 0 THEN SnakeGroup(plan, i) - 1
                                    ELSE plan.groups - SnakeGroup(plan, i)
<1> DEFINE G == plan.groups
           o == (i - 1) % G
           c == (i - 1) \div G
<1>1. i - 1 \in Nat /\ G \in Nat /\ G > 0
  OBVIOUS
<1>2. o \in 0..(G - 1)
  <2> HIDE DEF G
  <2> QED
    BY <1>1, Division
<1>3. SnakeGroup(plan, i) = IF c % 2 = 0 THEN o + 1 ELSE G - o
  BY DEF SnakeGroup
<1> HIDE DEF G, o, c
<1>4. /\ SnakeGroup(plan, i) \in 1..G
      /\ o = IF c % 2 = 0 THEN SnakeGroup(plan, i) - 1 ELSE G - SnakeGroup(plan, i)
  BY <1>1, <1>2, <1>3
<1> QED
  BY <1>4 DEF G, o, c

\* The entries drawn in a group.
InGroup(g) == {n \in Entries : drawn[n] = g}

\* The snake fills every group with the rounded share of the entries.
LEMMA GroupSizes ==
  ASSUME plan.teams \in Nat, plan.groups \in Nat, plan.groups > 0, NEW idx \in [Entries -> Entries],
         \A n \in Entries : drawn[n] = SnakeGroup(plan, idx[n]),
         \A n, a \in Entries : idx[n] = idx[a] => n = a,
         \A i \in Entries : \E n \in Entries : idx[n] = i,
         NEW g \in 1..plan.groups
  PROVE  /\ Cardinality(InGroup(g)) \in Nat
         /\ plan.teams \div plan.groups <= Cardinality(InGroup(g))
         /\ Cardinality(InGroup(g)) <= plan.teams \div plan.groups + 1
<1> DEFINE G == plan.groups
           T == plan.teams
           q == T \div G
           B == InGroup(g)
           cycle == [n \in B |-> (idx[n] - 1) \div G]
<1>1. T \in Nat /\ G \in Nat /\ G > 0 /\ q \in Nat /\ T = G * q + (T % G) /\ T % G \in 0..(G - 1) /\ g \in 1..G
  BY Division
<1>2. Entries = 1..T
  BY DEF Entries
<1>3. \A n \in B : /\ n \in Entries /\ idx[n] \in 1..T /\ SnakeGroup(plan, idx[n]) = g
  BY <1>2 DEF InGroup
<1> HIDE DEF G, T, q, B
<1>4. ASSUME NEW n \in B
      PROVE  /\ (idx[n] - 1) \div G \in 0..q
             /\ idx[n] - 1 = G * ((idx[n] - 1) \div G)
                             + (IF ((idx[n] - 1) \div G) % 2 = 0 THEN g - 1 ELSE G - g)
  <2> DEFINE x == idx[n] - 1
             c == x \div G
  <2>1. idx[n] \in Nat /\ idx[n] >= 1 /\ x \in Nat /\ x < T
    BY <1>1, <1>3
  <2>2. x = G * c + (x % G) /\ c \in Nat /\ x % G \in 0..(G - 1)
    <3> HIDE DEF x
    <3> QED
      BY <1>1, <2>1, Division
  <2>3. x % G = IF c % 2 = 0 THEN g - 1 ELSE G - g
    BY <1>1, <1>3, <2>1, SnakeOf DEF G
  <2>4. c <= q
    <3> HIDE DEF x, c
    <3>1. q < c => G * q + G <= G * c
      BY SMTT(30), <1>1, <2>2
    <3>2. G * q \in Nat /\ G * c \in Nat
      BY <1>1, <2>2
    <3> QED
      BY <1>1, <2>1, <2>2, <3>1, <3>2
  <2>5. c \in 0..q
    <3> HIDE DEF c, x
    <3> QED
      BY <1>1, <2>2, <2>4
  <2>6. x = G * c + (IF c % 2 = 0 THEN g - 1 ELSE G - g)
    <3> HIDE DEF c, x
    <3> QED
      BY <2>2, <2>3
  <2> QED
    BY <2>5, <2>6
<1>5. cycle \in [B -> 0..q]
  BY <1>4
<1>6. \A n, a \in B : cycle[n] = cycle[a] => n = a
  <2> SUFFICES ASSUME NEW n \in B, NEW a \in B, cycle[n] = cycle[a] PROVE n = a
    OBVIOUS
  <2>1. (idx[n] - 1) \div G = (idx[a] - 1) \div G
    OBVIOUS
  <2>2. idx[n] - 1 = idx[a] - 1
    BY ZenonT(40), <1>4, <2>1
  <2>3. idx[n] = idx[a]
    BY <1>1, <1>3, <2>2
  <2> QED
    BY <1>3, <2>3
<1>7. IsFiniteSet(B) /\ Cardinality(B) <= q + 1
  <2> DEFINE C == 0..q
  <2>1. 0 \in Int /\ q \in Int
    BY <1>1
  <2>2. IsFiniteSet(C) /\ Cardinality(C) = q + 1
    <3>1. IsFiniteSet(C) /\ Cardinality(C) = IF 0 > q THEN 0 ELSE q - 0 + 1
      BY <2>1, FS_Interval
    <3> QED
      BY <1>1, <3>1
  <2>3. cycle \in [B -> C]
    BY <1>5
  <2> HIDE DEF C, cycle
  <2>4. IsFiniteSet(B) /\ Cardinality(B) <= Cardinality(C)
    BY <1>6, <2>2, <2>3, OneToOne
  <2> QED
    BY <2>2, <2>4
<1> DEFINE at(c) == G * c + (IF c % 2 = 0 THEN g - 1 ELSE G - g) + 1
           entry == [c \in 0..(q - 1) |-> CHOOSE n \in Entries : idx[n] = at(c)]
<1>8. ASSUME NEW c \in 0..(q - 1)
      PROVE  /\ at(c) \in 1..T /\ SnakeGroup(plan, at(c)) = g /\ (at(c) - 1) \div G = c
  <2> DEFINE o == IF c % 2 = 0 THEN g - 1 ELSE G - g
  <2>1. o \in Nat /\ o < G /\ c \in Nat /\ c < q /\ G * c \in Nat
    BY <1>1
  <2>2. G * c + G <= G * q
    BY SMTT(30), <1>1, <2>1
  <2>3. G * q \in Nat /\ G * q <= T
    BY <1>1
  <2>4. at(c) = G * c + o + 1
    OBVIOUS
  <2> HIDE DEF o, at
  <2>5. at(c) \in 1..T /\ at(c) - 1 = G * c + o /\ at(c) \in Nat /\ at(c) >= 1
    BY <1>1, <2>1, <2>2, <2>3, <2>4
  <2>6. (at(c) - 1) \div G = c /\ (at(c) - 1) % G = o
    <3>1. (G * c + o) \div G = c /\ (G * c + o) % G = o
      BY <1>1, <2>1, Quotient
    <3> QED
      BY <2>5, <3>1
  <2>7. /\ SnakeGroup(plan, at(c)) \in 1..G
        /\ o = IF c % 2 = 0 THEN SnakeGroup(plan, at(c)) - 1 ELSE G - SnakeGroup(plan, at(c))
    <3>1. /\ SnakeGroup(plan, at(c)) \in 1..G
          /\ (at(c) - 1) % G = IF ((at(c) - 1) \div G) % 2 = 0 THEN SnakeGroup(plan, at(c)) - 1
                               ELSE G - SnakeGroup(plan, at(c))
      BY <1>1, <2>5, SnakeOf DEF G
    <3> QED
      BY <2>6, <3>1
  <2>8. SnakeGroup(plan, at(c)) = g
    BY <1>1, <2>7 DEF o
  <2> QED
    BY <2>5, <2>6, <2>8
<1>9. ASSUME NEW c \in 0..(q - 1) PROVE entry[c] \in B /\ idx[entry[c]] = at(c)
  <2> HIDE DEF at
  <2>1. at(c) \in Entries
    BY <1>2, <1>8
  <2>2. \E n \in Entries : idx[n] = at(c)
    BY <2>1
  <2>3. entry[c] = CHOOSE n \in Entries : idx[n] = at(c)
    OBVIOUS
  <2> HIDE DEF entry
  <2>4. entry[c] \in Entries /\ idx[entry[c]] = at(c)
    BY <2>2, <2>3
  <2>5. drawn[entry[c]] = g
    BY <1>8, <2>4
  <2> QED
    BY <2>4, <2>5 DEF InGroup, B
<1>10. entry \in [0..(q - 1) -> B]
  <2> HIDE DEF at
  <2>1. \A c \in 0..(q - 1) : (CHOOSE n \in Entries : idx[n] = at(c)) \in B
    BY <1>9
  <2> QED
    BY <2>1
<1>11. \A c, d \in 0..(q - 1) : entry[c] = entry[d] => c = d
  <2> SUFFICES ASSUME NEW c \in 0..(q - 1), NEW d \in 0..(q - 1), entry[c] = entry[d] PROVE c = d
    OBVIOUS
  <2> HIDE DEF at, entry
  <2>1. at(c) = at(d)
    BY <1>9
  <2> QED
    BY <1>8, <2>1
<1>12. q <= Cardinality(B)
  <2> DEFINE C == 0..(q - 1)
  <2>1. 0 \in Int /\ q - 1 \in Int
    BY <1>1
  <2>2. Cardinality(C) = q
    <3>1. Cardinality(C) = IF 0 > q - 1 THEN 0 ELSE (q - 1) - 0 + 1
      BY <2>1, FS_Interval
    <3> QED
      BY <1>1, <3>1
  <2>3. entry \in [C -> B] /\ \A c, d \in C : entry[c] = entry[d] => c = d
    BY <1>10, <1>11
  <2> HIDE DEF C, entry
  <2>4. Cardinality(C) <= Cardinality(B)
    BY <1>7, <2>3, OneToOne
  <2> QED
    BY <2>2, <2>4
<1>13. Cardinality(B) \in Nat
  BY <1>7, FS_CardinalityType
<1> QED
  BY <1>7, <1>12, <1>13 DEF B, q, T, G

\* The groups of buildGroupRows are fair.
LEMMA GroupDrawFair ==
  ASSUME plan \in PlanRequest, Accepted(plan), plan.groups # 0, \A a \in Entries : OverallRank[a] \in Int,
         drawn = [n \in Entries |-> SnakeGroup(plan, CHOOSE i \in Entries : Seeds(plan.teams)[i] = n)]
  PROVE  DrawFair /\ drawn \in [Entries -> 0..plan.groups]
<1> DEFINE T == plan.teams
           G == plan.groups
           best == Seeds(T)
           idx == [n \in Entries |-> CHOOSE i \in Entries : best[i] = n]
<1>1. T \in Nat /\ G \in Nat /\ G > 0 /\ plan.qualify \in Nat
  BY CompetitionAssumption
<1>2. best \in [1..T -> 1..T] /\ (\A i, j \in 1..T : best[i] = best[j] => i = j)
      /\ \A a \in 1..T : \E i \in 1..T : best[i] = a
  <2>1. IsListing(best, 1..T) /\ Cardinality(1..T) = T
    BY <1>1, SeedsList DEF Entries
  <2> HIDE DEF best
  <2> QED
    BY <2>1 DEF IsListing
<1>3. Entries = 1..T
  BY DEF Entries
<1>4. \A n \in Entries : drawn[n] = SnakeGroup(plan, idx[n])
  OBVIOUS
<1> HIDE DEF best
<1>5. ASSUME NEW n \in Entries PROVE idx[n] \in Entries /\ best[idx[n]] = n
  <2>1. \E i \in Entries : best[i] = n
    BY <1>2, <1>3
  <2> QED
    BY <2>1
<1>6. idx \in [Entries -> Entries]
  BY <1>5
<1> HIDE DEF idx
<1>7. \A n, a \in Entries : idx[n] = idx[a] => n = a
  BY <1>5
<1>8. \A i \in Entries : \E n \in Entries : idx[n] = i
  <2> SUFFICES ASSUME NEW i \in Entries PROVE \E n \in Entries : idx[n] = i
    OBVIOUS
  <2>1. best[i] \in Entries
    BY <1>2, <1>3
  <2>2. idx[best[i]] = i
    BY <1>2, <1>3, <1>5, <2>1
  <2> QED
    BY <2>1, <2>2
<1>9. drawn \in [Entries -> 0..G]
  <2> SUFFICES ASSUME NEW n \in Entries PROVE drawn[n] \in 0..G
    OBVIOUS
  <2>1. idx[n] \in Nat /\ idx[n] >= 1
    BY <1>1, <1>3, <1>5
  <2>2. SnakeGroup(plan, idx[n]) \in 1..G
    BY <1>1, <2>1, SnakeOf
  <2>3. drawn[n] \in 1..G
    BY <1>4, <2>2
  <2> QED
    BY <1>1, <2>3
<1>10. ASSUME NEW g \in 1..G
       PROVE  /\ Cardinality(InGroup(g)) \in Nat /\ T \div G <= Cardinality(InGroup(g))
              /\ Cardinality(InGroup(g)) <= T \div G + 1
  BY <1>1, <1>4, <1>6, <1>7, <1>8, GroupSizes
<1>11. T \div G \in Nat
  BY <1>1, Division
<1>12. plan.legs # 0 => plan.qualify <= T \div G
  <2> SUFFICES ASSUME plan.legs # 0 PROVE plan.qualify <= T \div G
    OBVIOUS
  <2> DEFINE w == plan.qualify
             q == T \div G
  <2>1. G * w <= T
    BY DEF Accepted
  <2>2. T = G * q + (T % G) /\ T % G \in 0..(G - 1) /\ q \in Nat /\ w \in Nat
    BY <1>1, Division
  <2> HIDE DEF w, q, T, G
  <2>3. q < w => G * q + G <= G * w
    BY SMTT(30), <1>1, <2>2
  <2>4. G * q \in Nat /\ G * w \in Nat
    BY <1>1, <2>2
  <2>5. w <= q
    BY <1>1, <2>1, <2>2, <2>3, <2>4
  <2> QED
    BY <2>5 DEF w, q, T, G
<1>13. ASSUME NEW g \in 1..G, NEW h \in 1..G
       PROVE  /\ Cardinality(InGroup(g)) <= Cardinality(InGroup(h)) + 1
              /\ plan.legs # 0 => Cardinality(InGroup(g)) >= plan.qualify
  <2> HIDE DEF T, G
  <2> QED
    BY <1>1, <1>10, <1>11, <1>12
<1> QED
  BY <1>9, <1>13 DEF DrawFair, InGroup

(***************************************************************************)
(* The bracket's invariant.                                                *)
(***************************************************************************)

Scores == Int \X Int \X Int
Sides == (0..plan.teams) \X (0..plan.teams)
TieRow == [sides : Sides, winner : 0..plan.teams]
LegRow == [sides : Sides, got : Scores \X Scores, winner : 0..plan.teams]

ScoreAt(e, n) == IF n = 0 THEN NoScore ELSE score[e][n]
EventOf(k, l) == KnockoutStart(plan) + (k - 1) * plan.legs + l - 1

\* A leg with the results of an event.
PlayedAt(e, lr) ==
    /\ lr.got = <<ScoreAt(e, lr.sides[1]), ScoreAt(e, lr.sides[2])>>
    /\ lr.winner = MatchWinner(lr.sides, lr.got)

BracketTyped(ts, ls) == ts \in [Ties -> TieRow] /\ ls \in [Ties -> [1..plan.legs -> LegRow]]
LegsFollow(ts, ls) == \A m \in Ties : \A l \in 1..plan.legs : ls[m][l].sides = Swapped(l, ts[m].sides)

\* After the events up to p were synced in order: the winners have entered the
\* next round, the legs have their results, and the rounds their winners.
Entered(ts, p) ==
    \A m \in Ties : RoundOf(m) > 1 /\ EndOf(RoundOf(m) - 1) <= p =>
        ts[m].sides = <<ts[Feeder(m)].winner, ts[Feeder(m) + 1].winner>>
LegsPlayed(ls, p) ==
    \A m \in Ties : \A l \in 1..plan.legs :
        EventOf(RoundOf(m), l) <= p => PlayedAt(EventOf(RoundOf(m), l), ls[m][l])
RoundsDecided(ts, ls, p) ==
    \A m \in Ties : EndOf(RoundOf(m)) <= p =>
        ts[m].winner = RoundWinner(ls[m], ts[m].sides) /\ ts[m].winner # 0

BracketIs(ts, ls, p) ==
    /\ BracketTyped(ts, ls) /\ LegsFollow(ts, ls)
    /\ Entered(ts, p) /\ LegsPlayed(ls, p) /\ RoundsDecided(ts, ls, p)

\* The draw is still the one the tournament started with.
DrawKept ==
    /\ plan.groups = 0 /\ plan.legs # 0 =>
          \A m \in TiesOf(1) : tie[m].sides = Pairs(Seeds(plan.teams), plan.teams)[m]
    /\ drawn = [n \in Entries |->
                  IF plan.groups = 0 THEN 0
                  ELSE SnakeGroup(plan, CHOOSE i \in Entries : Seeds(plan.teams)[i] = n)]

\* Events are synced in order only after they were played, and before the
\* bracket is seeded none was.
PassFits ==
    /\ pass \in (KnockoutStart(plan) - 1)..LastGameweek
    /\ pass >= KnockoutStart(plan) => pass <= Len(score)
    /\ plan.legs # 0 /\ ~RoundOneSeeded => pass = KnockoutStart(plan) - 1

\* The inductive invariant behind CompetitionInv.
CompetitionIInv ==
    /\ StandingsIInv /\ Accepted(plan) /\ DrawKept /\ PassFits
    /\ standing \in [Entries -> [rank : 0..plan.teams, qualified : BOOLEAN]]
    /\ corrections \in 0..MaxCorrections
    /\ plan.legs # 0 => BracketIs(tie, leg, pass)

\* What an accepted plan says of the bracket.
LEMMA PlanFacts ==
  ASSUME plan \in PlanRequest, Accepted(plan)
  PROVE  /\ plan.teams \in Nat /\ plan.teams >= 2 /\ plan.groups \in Nat /\ plan.qualify \in Nat
         /\ plan.legs \in {0, 1, 2} /\ LastGameweek \in Nat
         /\ KnockoutStart(plan) \in Nat /\ KnockoutStart(plan) >= 1 /\ KnockoutStart(plan) - 1 \in 0..LastGameweek
         /\ plan.legs # 0 => /\ HasBracket /\ KnockoutTeams(plan) \in Nat /\ KnockoutTeams(plan) >= 2
                             /\ Rounds = RoundsFor(KnockoutTeams(plan))
                             /\ KnockoutEnd(plan) = KnockoutStart(plan) + Rounds * plan.legs - 1
                             /\ KnockoutEnd(plan) <= LastGameweek
<1>1. /\ plan \in [teams : Nat, groups : Nat, groupEnd : Nat, qualify : Nat, legs : 0..2]
      /\ LastGameweek \in Nat
  BY CompetitionAssumption
<1>2. plan.teams \in Nat /\ plan.groups \in Nat /\ plan.qualify \in Nat /\ plan.groupEnd \in Nat
      /\ plan.legs \in {0, 1, 2}
  BY <1>1
<1>3. plan.teams >= 2 /\ plan.groupEnd \in 1..LastGameweek
  BY DEF Accepted
<1>4. KnockoutStart(plan) \in Nat /\ KnockoutStart(plan) >= 1 /\ KnockoutStart(plan) - 1 \in 0..LastGameweek
  BY <1>1, <1>2, <1>3 DEF KnockoutStart
<1>5. ASSUME plan.legs # 0
      PROVE  /\ HasBracket /\ KnockoutTeams(plan) \in Nat /\ KnockoutTeams(plan) >= 2
             /\ Rounds = RoundsFor(KnockoutTeams(plan))
             /\ KnockoutEnd(plan) = KnockoutStart(plan) + Rounds * plan.legs - 1
             /\ KnockoutEnd(plan) <= LastGameweek
  <2>1. KnockoutTeams(plan) >= 2 /\ KnockoutEnd(plan) <= LastGameweek
    BY <1>5 DEF Accepted, FitsSeason
  <2>2. KnockoutTeams(plan) \in Nat
    <3>1. plan.groups * plan.qualify \in Nat
      BY <1>2
    <3> QED
      BY <1>2, <3>1 DEF KnockoutTeams
  <2>3. Rounds = RoundsFor(KnockoutTeams(plan))
    BY <1>5 DEF Rounds
  <2>4. Rounds \in Nat /\ Rounds >= 1
    BY <2>1, <2>2, <2>3, RoundsForOf
  <2>5. KnockoutEnd(plan) = KnockoutStart(plan) + Rounds * plan.legs - 1
    BY <2>3 DEF KnockoutEnd
  <2> QED
    BY <1>2, <1>5, <2>1, <2>2, <2>3, <2>4, <2>5 DEF HasBracket
<1> QED
  BY <1>1, <1>2, <1>3, <1>4, <1>5

\* The round and the leg of an event, and what was played before it.
LEMMA EventsOf ==
  ASSUME HasBracket, KnockoutStart(plan) \in Nat,
         KnockoutEnd(plan) = KnockoutStart(plan) + Rounds * plan.legs - 1,
         NEW e \in KnockoutStart(plan)..KnockoutEnd(plan)
  PROVE  /\ e \in Nat /\ RoundAt(e) \in 1..Rounds /\ LegAt(e) \in 1..plan.legs
         /\ EventOf(RoundAt(e), LegAt(e)) = e
         /\ LegAt(e) < plan.legs \/ (LegAt(e) = plan.legs /\ EndOf(RoundAt(e)) = e)
         /\ \A j \in Nat : \A i \in 1..plan.legs :
               /\ EventOf(j, i) \in Int
               /\ EventOf(j, i) = e => j = RoundAt(e) /\ i = LegAt(e)
               /\ EventOf(j, i) < e => j <= RoundAt(e)
         /\ \A j \in Nat : /\ EndOf(j) \in Int
                           /\ EndOf(j) < e => j < RoundAt(e)
                           /\ EndOf(j) = e => j = RoundAt(e) /\ LegAt(e) = plan.legs
<1> DEFINE S == KnockoutStart(plan)
           L == plan.legs
           R == Rounds
           k == RoundAt(e)
           l == LegAt(e)
<1>1. k = ((e - S) \div L) + 1 /\ l = ((e - S) % L) + 1
  BY DEF RoundAt, LegAt
<1>2. /\ \A j, i : EventOf(j, i) = S + (j - 1) * L + i - 1
      /\ \A j : EndOf(j) = S + j * L - 1
  BY DEF EventOf, EndOf
<1>3. L \in {1, 2} /\ R \in Nat /\ R >= 1 /\ S \in Nat /\ e \in S..(S + R * L - 1)
  BY DEF HasBracket
<1> HIDE DEF S, L, R, k, l
<1>4. e \in Nat /\ e >= S /\ e <= S + R * L - 1
  <2>1. R * L \in Nat
    BY <1>3
  <2> QED
    BY <1>3, <2>1
<1>5. CASE L = 1
  <2>1. k = e - S + 1 /\ l = 1
    BY <1>1, <1>3, <1>4, <1>5
  <2>2. \A j \in Nat : EventOf(j, 1) = S + j - 1 /\ EndOf(j) = S + j - 1
    BY <1>2, <1>3, <1>5
  <2>3. k \in 1..R /\ l \in 1..L /\ 1..L = {1}
    BY <1>3, <1>4, <1>5, <2>1
  <2>4. k \in Nat
    BY <1>3, <2>3
  <2>5. EventOf(k, l) = e /\ EndOf(k) = e
    BY <1>3, <1>4, <2>1, <2>2, <2>4
  <2>6. ASSUME NEW j \in Nat, NEW i \in 1..L
        PROVE  /\ EventOf(j, i) \in Int
               /\ EventOf(j, i) = e => j = k /\ i = l
               /\ EventOf(j, i) < e => j <= k
    <3>1. i = 1 /\ EventOf(j, i) = S + j - 1
      BY <2>2, <2>3
    <3> QED
      BY <1>3, <1>4, <2>1, <3>1
  <2>7. ASSUME NEW j \in Nat
        PROVE  EndOf(j) \in Int /\ (EndOf(j) < e => j < k) /\ (EndOf(j) = e => j = k /\ l = L)
    <3>1. EndOf(j) = S + j - 1
      BY <2>2
    <3> QED
      BY <1>3, <1>4, <1>5, <2>1, <3>1
  <2> QED
    BY <1>4, <1>5, <2>1, <2>3, <2>5, <2>6, <2>7 DEF S, L, R, k, l
<1>6. CASE L = 2
  <2>1. e - S = 2 * (k - 1) + (l - 1) /\ k \in Int /\ l \in {1, 2}
    BY <1>1, <1>3, <1>4, <1>6
  <2>2. \A j \in Int, i \in {1, 2} : EventOf(j, i) = S + 2 * (j - 1) + i - 1
    BY <1>2, <1>3, <1>6
  <2>3. \A j \in Int : EndOf(j) = S + 2 * j - 1
    BY <1>2, <1>3, <1>6
  <2>4. e <= S + 2 * R - 1
    BY <1>3, <1>4, <1>6
  <2>5. k \in 1..R /\ 1..L = {1, 2}
    BY <1>3, <1>4, <1>6, <2>1, <2>4
  <2>6. EventOf(k, l) = e /\ (l < 2 \/ (l = 2 /\ EndOf(k) = e))
    <3>1. EventOf(k, l) = S + 2 * (k - 1) + l - 1 /\ EndOf(k) = S + 2 * k - 1
      BY <2>1, <2>2, <2>3
    <3> QED
      BY <1>3, <1>4, <2>1, <3>1
  <2>7. ASSUME NEW j \in Nat, NEW i \in {1, 2}
        PROVE  /\ EventOf(j, i) \in Int
               /\ EventOf(j, i) = e => j = k /\ i = l
               /\ EventOf(j, i) < e => j <= k
    <3>1. EventOf(j, i) = S + 2 * (j - 1) + i - 1
      BY <2>2
    <3> QED
      BY <1>3, <1>4, <2>1, <3>1
  <2>8. ASSUME NEW j \in Nat
        PROVE  EndOf(j) \in Int /\ (EndOf(j) < e => j < k) /\ (EndOf(j) = e => j = k /\ l = L)
    <3>1. EndOf(j) = S + 2 * j - 1
      BY <2>3
    <3> QED
      BY <1>3, <1>4, <1>6, <2>1, <3>1
  <2> QED
    BY <1>4, <1>6, <2>1, <2>5, <2>6, <2>7, <2>8 DEF S, L, R, k, l
<1> QED
  BY <1>3, <1>5, <1>6

\* Winners come from the sides.
LEMMA MatchWinnerIs ==
  ASSUME NEW sides \in Sides, NEW got
  PROVE  /\ MatchWinner(sides, got) \in {sides[1], sides[2]} /\ MatchWinner(sides, got) \in 0..plan.teams
         /\ sides # Unseeded => MatchWinner(sides, got) # 0
<1>1. sides[1] \in 0..plan.teams /\ sides[2] \in 0..plan.teams /\ sides = <<sides[1], sides[2]>>
  BY DEF Sides
<1>2. MatchWinner(sides, got) \in {sides[1], sides[2]}
  BY DEF MatchWinner
<1>3. sides # Unseeded => sides[1] # 0 \/ sides[2] # 0
  BY <1>1 DEF Unseeded
<1>4. sides[1] # 0 \/ sides[2] # 0 => MatchWinner(sides, got) # 0
  BY DEF MatchWinner
<1> QED
  BY <1>1, <1>2, <1>3, <1>4

\* A round whose last leg has a winner has one.
LEMMA RoundWinnerIs ==
  ASSUME plan.legs \in {1, 2}, NEW legs \in [1..plan.legs -> LegRow], NEW sides \in Sides,
         sides # Unseeded, legs[plan.legs].winner # 0
  PROVE  RoundWinner(legs, sides) # 0 /\ RoundWinner(legs, sides) \in 0..plan.teams
<1>1. CASE plan.legs = 1
  <2>1. legs[1] \in LegRow
    BY <1>1
  <2>2. RoundWinner(legs, sides) = legs[1].winner
    BY <1>1 DEF RoundWinner
  <2> QED
    BY <1>1, <2>1, <2>2 DEF LegRow
<1>2. CASE plan.legs = 2
  <2> DEFINE W == {legs[l].winner : l \in 1..plan.legs} \ {0}
             both == <<OverLegs(legs, sides[1]), OverLegs(legs, sides[2])>>
  <2>1. \A w \in W : w # 0 /\ w \in 0..plan.teams
    BY DEF LegRow
  <2>2. RoundWinner(legs, sides) = IF Cardinality(W) = 1 THEN CHOOSE w \in W : TRUE
                                   ELSE MatchWinner(sides, both)
    BY <1>2 DEF RoundWinner
  <2>3. W # {}
    BY <1>2
  <2> HIDE DEF W, both
  <2>4. (CHOOSE w \in W : TRUE) \in W
    BY <2>3
  <2>5. MatchWinner(sides, both) # 0 /\ MatchWinner(sides, both) \in 0..plan.teams
    BY MatchWinnerIs
  <2> QED
    BY <2>1, <2>2, <2>4, <2>5
<1> QED
  BY <1>1, <1>2

(***************************************************************************)
(* The sync of an event.                                                   *)
(***************************************************************************)

\* What syncKnockoutForTournament writes, from rows whose first round is seeded.
ScoredAt(e, lr) ==
    LET both == <<ScoreAt(e, lr.sides[1]), ScoreAt(e, lr.sides[2])>>
    IN  [lr EXCEPT !.got = both, !.winner = MatchWinner(lr.sides, both)]
LegsScored(ls, e) ==
    [m \in Ties |-> IF m \in TiesOf(RoundAt(e)) THEN [ls[m] EXCEPT ![LegAt(e)] = ScoredAt(e, @)] ELSE ls[m]]
TiesDecided(ts, ls, k) ==
    [m \in Ties |-> IF m \in TiesOf(k) THEN [ts[m] EXCEPT !.winner = RoundWinner(ls[m], ts[m].sides)]
                    ELSE ts[m]]
TiesSynced(ts, ls, e) ==
    IF LegAt(e) < plan.legs THEN ts
    ELSE Advanced(TiesDecided(ts, LegsScored(ls, e), RoundAt(e)), RoundAt(e))
LegsSynced(ts, ls, e) ==
    LET scored == LegsScored(ls, e)
        entered == TiesSynced(ts, ls, e)
    IN  IF LegAt(e) < plan.legs THEN scored
        ELSE [m \in Ties |->
                IF m \in TiesOf(RoundAt(e) + 1) /\ entered[m].sides[1] # 0 /\ entered[m].sides[2] # 0
                THEN [j \in 1..plan.legs |-> [scored[m][j] EXCEPT !.sides = Swapped(j, entered[m].sides)]]
                ELSE scored[m]]

\* The rows a sync starts from.
TiesToSync == IF ToSeed THEN SeededTies(tie, Draw) ELSE tie
LegsToSync == IF ToSeed THEN SeededLegs(leg, Draw) ELSE leg

\* A sync, in terms of the rows it starts from.
LEMMA SyncWrites ==
  ASSUME NEW e, SyncKnockout(e)
  PROVE  /\ plan.legs # 0 /\ e \in KnockoutStart(plan)..KnockoutEnd(plan) /\ e <= Len(score)
         /\ tie' = TiesSynced(TiesToSync, LegsToSync, e)
         /\ leg' = LegsSynced(TiesToSync, LegsToSync, e)
         /\ \A m \in TiesOf(RoundAt(e)) : LegsToSync[m][LegAt(e)].sides # Unseeded
         /\ pass' = IF e = pass + 1 THEN e ELSE pass
         /\ UNCHANGED <<plan, drawn, score, standing, corrections>>
<1> DEFINE ts == TiesToSync
           ls == LegsToSync
           k == RoundAt(e)
           l == LegAt(e)
           got(n) == IF n = 0 THEN NoScore ELSE score[e][n]
           scored(r) == LET both == <<got(r.sides[1]), got(r.sides[2])>>
                        IN  [r EXCEPT !.got = both, !.winner = MatchWinner(r.sides, both)]
           legs == [m \in Ties |-> IF m \in TiesOf(k) THEN [ls[m] EXCEPT ![l] = scored(@)] ELSE ls[m]]
           decided == [m \in Ties |->
                         IF m \in TiesOf(k) THEN [ts[m] EXCEPT !.winner = RoundWinner(legs[m], ts[m].sides)]
                         ELSE ts[m]]
<1>1. /\ plan.legs # 0 /\ e \in KnockoutStart(plan)..KnockoutEnd(plan) /\ e <= Len(score)
      /\ pass' = IF e = pass + 1 THEN e ELSE pass
      /\ UNCHANGED <<plan, drawn, score, standing, corrections>>
  BY ZenonT(40) DEF SyncKnockout
<1>2. /\ \A m \in TiesOf(k) : ls[m][l].sides # Unseeded
      /\ IF l < plan.legs
         THEN tie' = ts /\ leg' = legs
         ELSE /\ tie' = Advanced(decided, k)
              /\ leg' = [m \in Ties |->
                          IF m \in TiesOf(k + 1) /\ tie'[m].sides[1] # 0 /\ tie'[m].sides[2] # 0
                          THEN [j \in 1..plan.legs |-> [legs[m][j] EXCEPT !.sides = Swapped(j, tie'[m].sides)]]
                          ELSE legs[m]]
  BY DEF SyncKnockout, TiesToSync, LegsToSync
<1>3. legs = LegsScored(ls, e)
  BY DEF LegsScored, ScoredAt, ScoreAt
<1> HIDE DEF ts, ls, legs
<1>4. decided = TiesDecided(ts, LegsScored(ls, e), k)
  BY <1>3 DEF TiesDecided
<1> HIDE DEF decided, k, l
<1>5. tie' = TiesSynced(ts, ls, e)
  BY <1>2, <1>4 DEF TiesSynced, k, l
<1>6. leg' = LegsSynced(ts, ls, e)
  <2>1. CASE l < plan.legs
    BY <1>2, <1>3, <2>1 DEF LegsSynced, l
  <2>2. CASE ~(l < plan.legs)
    BY <1>2, <1>3, <1>5, <2>2 DEF LegsSynced, k, l
  <2> QED
    BY <2>1, <2>2
<1> QED
  BY SMTT(30), <1>1, <1>2, <1>5, <1>6 DEF ts, ls, k, l

\* The winners of a round enter the next round's ties, and nothing else moves.
LEMMA AdvancedIs ==
  ASSUME HasBracket, NEW k \in 1..Rounds, NEW ts \in [Ties -> TieRow],
         \A f \in TiesOf(k) : ts[f].winner # 0, NEW m \in Ties
  PROVE  Advanced(ts, k)[m] =
           IF RoundOf(m) = k + 1
           THEN [ts[m] EXCEPT !.sides = <<ts[Feeder(m)].winner, ts[Feeder(m) + 1].winner>>]
           ELSE ts[m]
<1> DEFINE from(i, parity) == {f \in TiesOf(k) : NextTie(f) = i /\ f % 2 = parity /\ ts[f].winner # 0}
           entrant(i, parity, old) ==
              IF from(i, parity) = {} THEN old ELSE ts[CHOOSE f \in from(i, parity) : TRUE].winner
<1>1. Advanced(ts, k)[m] =
        IF RoundOf(m) = k + 1
        THEN [ts[m] EXCEPT !.sides = <<entrant(m, 1, @[1]), entrant(m, 0, @[2])>>]
        ELSE ts[m]
  BY DEF Advanced
<1> SUFFICES ASSUME RoundOf(m) = k + 1
             PROVE  \A old : /\ entrant(m, 1, old) = ts[Feeder(m)].winner
                             /\ entrant(m, 0, old) = ts[Feeder(m) + 1].winner
  <2> HIDE DEF entrant
  <2> QED
    BY <1>1
<1>2. RoundOf(m) > 1 /\ RoundOf(m) - 1 = k
  BY DEF HasBracket
<1>3. /\ {f \in TiesOf(k) : NextTie(f) = m /\ f % 2 = 1} = {Feeder(m)}
      /\ {f \in TiesOf(k) : NextTie(f) = m /\ f % 2 = 0} = {Feeder(m) + 1}
  BY <1>2, FeederOf
<1>4. from(m, 1) = {Feeder(m)} /\ from(m, 0) = {Feeder(m) + 1}
  BY <1>3
<1> HIDE DEF from
<1> QED
  BY <1>4

\* A scored leg has its sides, its results and a winner.
LEMMA ScoredRow ==
  ASSUME NEW e, NEW r \in LegRow, \A n \in 0..plan.teams : ScoreAt(e, n) \in Scores
  PROVE  /\ ScoredAt(e, r) \in LegRow /\ ScoredAt(e, r).sides = r.sides /\ PlayedAt(e, ScoredAt(e, r))
         /\ r.sides # Unseeded => ScoredAt(e, r).winner # 0
<1> DEFINE both == <<ScoreAt(e, r.sides[1]), ScoreAt(e, r.sides[2])>>
           w == MatchWinner(r.sides, both)
<1>1. r.sides \in Sides /\ r.sides[1] \in 0..plan.teams /\ r.sides[2] \in 0..plan.teams
  BY DEF LegRow, Sides
<1>2. both \in Scores \X Scores
  BY <1>1
<1>3. w \in 0..plan.teams /\ (r.sides # Unseeded => w # 0)
  BY <1>1, MatchWinnerIs
<1>4. ScoredAt(e, r) = [r EXCEPT !.got = both, !.winner = w]
  BY DEF ScoredAt
<1> HIDE DEF both, w
<1>5. ScoredAt(e, r) \in LegRow /\ ScoredAt(e, r).sides = r.sides
      /\ ScoredAt(e, r).got = both /\ ScoredAt(e, r).winner = w
  BY <1>2, <1>3, <1>4 DEF LegRow
<1> QED
  BY <1>3, <1>5 DEF PlayedAt, both, w

LEMMA ScoredLegs ==
  ASSUME NEW e, NEW ls \in [Ties -> [1..plan.legs -> LegRow]], LegAt(e) \in 1..plan.legs,
         \A n \in 0..plan.teams : ScoreAt(e, n) \in Scores
  PROVE  /\ LegsScored(ls, e) \in [Ties -> [1..plan.legs -> LegRow]]
         /\ \A m \in Ties : \A j \in 1..plan.legs :
               LegsScored(ls, e)[m][j] = IF RoundOf(m) = RoundAt(e) /\ j = LegAt(e)
                                         THEN ScoredAt(e, ls[m][j]) ELSE ls[m][j]
<1> DEFINE k == RoundAt(e)
           l == LegAt(e)
<1>1. \A m \in Ties : LegsScored(ls, e)[m] = IF RoundOf(m) = k THEN [ls[m] EXCEPT ![l] = ScoredAt(e, ls[m][l])]
                                             ELSE ls[m]
  BY DEF LegsScored, TiesOf
<1>2. \A m \in Ties : ls[m] \in [1..plan.legs -> LegRow] /\ ls[m][l] \in LegRow
  OBVIOUS
<1>3. \A m \in Ties : ScoredAt(e, ls[m][l]) \in LegRow
  BY <1>2, ScoredRow
<1>4. \A m \in Ties : LegsScored(ls, e)[m] \in [1..plan.legs -> LegRow]
  BY <1>1, <1>2, <1>3
<1>5. LegsScored(ls, e) = [m \in Ties |-> LegsScored(ls, e)[m]]
  BY DEF LegsScored
<1>6. LegsScored(ls, e) \in [Ties -> [1..plan.legs -> LegRow]]
  BY <1>4, <1>5
<1>7. \A m \in Ties : \A j \in 1..plan.legs :
        LegsScored(ls, e)[m][j] = IF RoundOf(m) = k /\ j = l THEN ScoredAt(e, ls[m][j]) ELSE ls[m][j]
  BY <1>1, <1>2
<1> QED
  BY <1>6, <1>7

\* Row by row what a sync changes: the results of one leg; with the last leg
\* the winners of the round, and the sides of the next.
SyncedAs(ts, ls, us, vs, e) ==
    /\ BracketTyped(us, vs) /\ LegsFollow(us, vs)
    /\ \A m \in Ties :
          /\ RoundOf(m) # RoundAt(e) + 1 \/ LegAt(e) < plan.legs => us[m].sides = ts[m].sides
          /\ RoundOf(m) = RoundAt(e) + 1 /\ LegAt(e) = plan.legs =>
                us[m].sides = <<us[Feeder(m)].winner, us[Feeder(m) + 1].winner>>
          /\ RoundOf(m) # RoundAt(e) \/ LegAt(e) < plan.legs => us[m].winner = ts[m].winner
          /\ RoundOf(m) = RoundAt(e) /\ LegAt(e) = plan.legs =>
                us[m].winner = RoundWinner(vs[m], us[m].sides) /\ us[m].winner # 0
          /\ \A j \in 1..plan.legs :
                IF RoundOf(m) = RoundAt(e) /\ j = LegAt(e) THEN PlayedAt(e, vs[m][j])
                ELSE vs[m][j].got = ls[m][j].got /\ vs[m][j].winner = ls[m][j].winner

LEMMA SwappedIs ==
  ASSUME NEW pair \in Sides, NEW l \in {1, 2}
  PROVE  Swapped(l, pair) \in Sides /\ (Swapped(l, pair) # Unseeded => pair # Unseeded)
BY DEF Swapped, Sides, Unseeded

\* Every sync writes rows of this kind.
LEMMA SyncedRows ==
  ASSUME HasBracket, NEW e, RoundAt(e) \in 1..Rounds, LegAt(e) \in 1..plan.legs,
         \A n \in 0..plan.teams : ScoreAt(e, n) \in Scores,
         NEW ts, NEW ls, BracketTyped(ts, ls), LegsFollow(ts, ls),
         \A m \in TiesOf(RoundAt(e)) : ls[m][LegAt(e)].sides # Unseeded
  PROVE  SyncedAs(ts, ls, TiesSynced(ts, ls, e), LegsSynced(ts, ls, e), e)
<1> DEFINE k == RoundAt(e)
           l == LegAt(e)
           L == plan.legs
           us == TiesSynced(ts, ls, e)
           vs == LegsSynced(ts, ls, e)
           sc == LegsScored(ls, e)
<1>0. k \in 1..Rounds /\ l \in 1..L /\ L \in {1, 2} /\ k \in Nat /\ k + 1 # k
  BY DEF HasBracket
<1>1. ts \in [Ties -> TieRow] /\ ls \in [Ties -> [1..L -> LegRow]]
  BY DEF BracketTyped
<1>2. /\ sc \in [Ties -> [1..L -> LegRow]]
      /\ \A m \in Ties : \A j \in 1..L :
            sc[m][j] = IF RoundOf(m) = k /\ j = l THEN ScoredAt(e, ls[m][j]) ELSE ls[m][j]
  BY <1>0, <1>1, ScoredLegs
<1>3. \A m \in Ties : \A j \in 1..L :
         /\ sc[m][j].sides = Swapped(j, ts[m].sides)
         /\ IF RoundOf(m) = k /\ j = l THEN PlayedAt(e, sc[m][j]) /\ sc[m][j].winner # 0
            ELSE sc[m][j].got = ls[m][j].got /\ sc[m][j].winner = ls[m][j].winner
  <2> SUFFICES ASSUME NEW m \in Ties, NEW j \in 1..L
               PROVE  /\ sc[m][j].sides = Swapped(j, ts[m].sides)
                      /\ IF RoundOf(m) = k /\ j = l THEN PlayedAt(e, sc[m][j]) /\ sc[m][j].winner # 0
                         ELSE sc[m][j].got = ls[m][j].got /\ sc[m][j].winner = ls[m][j].winner
    OBVIOUS
  <2>1. ls[m][j] \in LegRow /\ ls[m][j].sides = Swapped(j, ts[m].sides)
    BY <1>1 DEF LegsFollow
  <2>2. CASE RoundOf(m) = k /\ j = l
    <3>1. ls[m][j].sides # Unseeded
      BY <2>2 DEF TiesOf
    <3>2. sc[m][j] = ScoredAt(e, ls[m][j])
      BY <1>2, <2>2
    <3> HIDE DEF sc, k, l
    <3> QED
      BY <2>1, <2>2, <3>1, <3>2, ScoredRow
  <2>3. CASE ~(RoundOf(m) = k /\ j = l)
    <3>1. sc[m][j] = ls[m][j]
      BY <1>2, <2>3
    <3> HIDE DEF sc, k, l
    <3> QED
      BY <2>1, <2>3, <3>1
  <2> QED
    BY <2>2, <2>3
<1> HIDE DEF sc
<1>4. CASE l < L
  <2>1. us = ts /\ vs = sc
    BY <1>4 DEF TiesSynced, LegsSynced, sc
  <2>2. BracketTyped(us, vs) /\ LegsFollow(us, vs)
    BY <1>1, <1>2, <1>3, <2>1 DEF BracketTyped, LegsFollow
  <2>3. l # L
    BY <1>0, <1>4
  <2> HIDE DEF us, vs
  <2>4. SyncedAs(ts, ls, us, vs, e)
    BY <1>3, <1>4, <2>1, <2>2, <2>3 DEF SyncedAs
  <2> QED
    BY <2>4 DEF us, vs
<1>5. CASE ~(l < L)
  <2> DEFINE ds == TiesDecided(ts, sc, k)
  <2>0. l = L
    BY <1>0, <1>5
  <2>1. us = Advanced(ds, k)
    BY <1>5 DEF TiesSynced, sc
  <2>2. \A m \in Ties : ds[m] = IF RoundOf(m) = k THEN [ts[m] EXCEPT !.winner = RoundWinner(sc[m], ts[m].sides)]
                                ELSE ts[m]
    BY DEF TiesDecided, TiesOf
  <2>3. ASSUME NEW m \in Ties, RoundOf(m) = k
        PROVE  RoundWinner(sc[m], ts[m].sides) # 0 /\ RoundWinner(sc[m], ts[m].sides) \in 0..plan.teams
    <3>1. sc[m] \in [1..L -> LegRow] /\ ts[m].sides \in Sides
      BY <1>1, <1>2 DEF TieRow
    <3>2. sc[m][L].winner # 0 /\ sc[m][L].sides = Swapped(L, ts[m].sides)
      BY <1>0, <1>3, <2>0, <2>3
    <3>3. ts[m].sides # Unseeded
      <4>1. ls[m][l].sides # Unseeded /\ ls[m][l].sides = Swapped(l, ts[m].sides)
        BY <1>0, <2>3 DEF TiesOf, LegsFollow
      <4>2. l \in {1, 2}
        BY <1>0
      <4> QED
        BY <3>1, <4>1, <4>2, SwappedIs
    <3> QED
      BY <1>0, <3>1, <3>2, <3>3, RoundWinnerIs
  <2>4. \A m \in Ties : /\ ds[m] \in TieRow /\ ds[m].sides = ts[m].sides
                        /\ ds[m].winner = IF RoundOf(m) = k THEN RoundWinner(sc[m], ts[m].sides) ELSE ts[m].winner
    <3> SUFFICES ASSUME NEW m \in Ties
                 PROVE  /\ ds[m] \in TieRow /\ ds[m].sides = ts[m].sides
                        /\ ds[m].winner = IF RoundOf(m) = k THEN RoundWinner(sc[m], ts[m].sides) ELSE ts[m].winner
      OBVIOUS
    <3>1. ts[m] \in TieRow
      BY <1>1
    <3> HIDE DEF ds
    <3> QED
      BY <2>2, <2>3, <3>1 DEF TieRow
  <2>5. ds \in [Ties -> TieRow]
    <3>1. ds = [m \in Ties |-> ds[m]]
      BY DEF TiesDecided
    <3> HIDE DEF ds
    <3> QED
      BY <2>4, <3>1
  <2> HIDE DEF ds, us
  <2>6. \A f \in TiesOf(k) : ds[f].winner # 0
    BY <2>3, <2>4 DEF TiesOf
  <2>7. \A m \in Ties : us[m] = IF RoundOf(m) = k + 1
                                THEN [ds[m] EXCEPT !.sides = <<ds[Feeder(m)].winner, ds[Feeder(m) + 1].winner>>]
                                ELSE ds[m]
    BY <1>0, <2>1, <2>5, <2>6, AdvancedIs
  <2>8. ASSUME NEW m \in Ties, RoundOf(m) = k + 1
        PROVE  /\ Feeder(m) \in Ties /\ RoundOf(Feeder(m)) = k
               /\ Feeder(m) + 1 \in Ties /\ RoundOf(Feeder(m) + 1) = k
    <3>1. RoundOf(m) > 1 /\ RoundOf(m) - 1 = k
      BY <1>0, <2>8
    <3> QED
      BY <3>1, FeederOf
  <2>9. ASSUME NEW m \in Ties, RoundOf(m) = k + 1
        PROVE  /\ us[m] \in TieRow /\ us[m].winner = ts[m].winner
               /\ us[m].sides = <<us[Feeder(m)].winner, us[Feeder(m) + 1].winner>>
               /\ us[m].sides[1] # 0 /\ us[m].sides[2] # 0
    <3> DEFINE f == Feeder(m)
               g == Feeder(m) + 1
    <3>1. f \in Ties /\ RoundOf(f) = k /\ g \in Ties /\ RoundOf(g) = k
      BY <2>8, <2>9
    <3>2. us[m] = [ds[m] EXCEPT !.sides = <<ds[f].winner, ds[g].winner>>]
      BY <2>7, <2>9
    <3> HIDE DEF f, g
    <3>3. us[f] = ds[f] /\ us[g] = ds[g]
      BY <1>0, <2>7, <3>1
    <3>4. ds[f].winner # 0 /\ ds[g].winner # 0 /\ ds[f].winner \in 0..plan.teams /\ ds[g].winner \in 0..plan.teams
      BY <2>3, <2>4, <3>1
    <3>5. ds[m] \in TieRow /\ ds[m].winner = ts[m].winner
      BY <1>0, <2>4, <2>9
    <3>6. /\ us[m] \in TieRow /\ us[m].winner = ts[m].winner
          /\ us[m].sides = <<us[f].winner, us[g].winner>> /\ us[m].sides[1] # 0 /\ us[m].sides[2] # 0
      BY <3>2, <3>3, <3>4, <3>5 DEF TieRow, Sides
    <3> QED
      BY <3>6 DEF f, g
  <2>10. ASSUME NEW m \in Ties, RoundOf(m) # k + 1
         PROVE  us[m] \in TieRow /\ us[m].sides = ts[m].sides /\ us[m] = ds[m]
    BY <2>4, <2>7, <2>10
  <2>11. \A m \in Ties :
           vs[m] = IF RoundOf(m) = k + 1 THEN [j \in 1..L |-> [sc[m][j] EXCEPT !.sides = Swapped(j, us[m].sides)]]
                   ELSE sc[m]
    <3>1. \A m \in Ties :
            vs[m] = IF m \in TiesOf(k + 1) /\ us[m].sides[1] # 0 /\ us[m].sides[2] # 0
                    THEN [j \in 1..L |-> [sc[m][j] EXCEPT !.sides = Swapped(j, us[m].sides)]] ELSE sc[m]
      BY <1>5 DEF LegsSynced, us, sc
    <3> HIDE DEF vs
    <3> QED
      BY <2>9, <3>1 DEF TiesOf
  <2>12. vs = [m \in Ties |-> vs[m]]
    BY <1>5 DEF LegsSynced
  <2> HIDE DEF vs
  <2>13. ASSUME NEW m \in Ties
         PROVE  /\ vs[m] \in [1..L -> LegRow]
                /\ \A j \in 1..L : /\ vs[m][j].sides = Swapped(j, us[m].sides)
                                   /\ vs[m][j].got = sc[m][j].got /\ vs[m][j].winner = sc[m][j].winner
    <3>1. sc[m] \in [1..L -> LegRow]
      BY <1>2
    <3>2. CASE RoundOf(m) = k + 1
      <4>1. us[m].sides \in Sides
        BY <2>9, <3>2 DEF TieRow
      <4>2. \A j \in 1..L : sc[m][j] \in LegRow /\ Swapped(j, us[m].sides) \in Sides
        <5>1. \A j \in 1..L : j \in {1, 2}
          BY <1>0
        <5> QED
          BY <3>1, <4>1, <5>1, SwappedIs
      <4>3. vs[m] = [j \in 1..L |-> [sc[m][j] EXCEPT !.sides = Swapped(j, us[m].sides)]]
        BY <2>11, <3>2
      <4>4. \A j \in 1..L : /\ [sc[m][j] EXCEPT !.sides = Swapped(j, us[m].sides)] \in LegRow
                            /\ vs[m][j].sides = Swapped(j, us[m].sides)
                            /\ vs[m][j].got = sc[m][j].got /\ vs[m][j].winner = sc[m][j].winner
        BY <4>2, <4>3 DEF LegRow
      <4> QED
        BY <4>3, <4>4
    <3>3. CASE RoundOf(m) # k + 1
      <4>1. vs[m] = sc[m] /\ us[m].sides = ts[m].sides
        BY <2>10, <2>11, <3>3
      <4> QED
        BY <1>3, <3>1, <4>1
    <3> QED
      BY <3>2, <3>3
  <2>14. BracketTyped(us, vs) /\ LegsFollow(us, vs)
    <3>1. us \in [Ties -> TieRow]
      <4>1. us = [m \in Ties |-> us[m]]
        BY <2>1 DEF Advanced
      <4> QED
        BY <2>9, <2>10, <4>1
    <3>2. vs \in [Ties -> [1..L -> LegRow]]
      BY <2>12, <2>13
    <3> QED
      BY <2>13, <3>1, <3>2 DEF BracketTyped, LegsFollow
  <2>15. ASSUME NEW m \in Ties, RoundOf(m) = k
         PROVE  us[m].winner = RoundWinner(vs[m], us[m].sides) /\ us[m].winner # 0
    <3>1. us[m] = ds[m] /\ us[m].sides = ts[m].sides /\ vs[m] = sc[m]
      BY <1>0, <2>10, <2>11, <2>15
    <3> QED
      BY <2>3, <2>4, <2>15, <3>1
  <2>16. ASSUME NEW m \in Ties, RoundOf(m) # k PROVE us[m].winner = ts[m].winner
    BY <2>4, <2>9, <2>10, <2>16
  <2>17. ASSUME NEW m \in Ties, NEW j \in 1..L
         PROVE  IF RoundOf(m) = k /\ j = l THEN PlayedAt(e, vs[m][j])
                ELSE vs[m][j].got = ls[m][j].got /\ vs[m][j].winner = ls[m][j].winner
    <3>1. RoundOf(m) = k => vs[m] = sc[m]
      BY <1>0, <2>11
    <3> QED
      BY <1>3, <2>13, <3>1
  <2>18. SyncedAs(ts, ls, us, vs, e)
    BY <1>5, <2>0, <2>9, <2>10, <2>14, <2>15, <2>16, <2>17 DEF SyncedAs
  <2> QED
    BY <2>18 DEF us, vs
<1> QED
  BY <1>4, <1>5

\* Syncing an event again that was already synced in order changes nothing.
LEMMA SameAgain ==
  ASSUME HasBracket, KnockoutStart(plan) \in Nat,
         KnockoutEnd(plan) = KnockoutStart(plan) + Rounds * plan.legs - 1,
         NEW e \in KnockoutStart(plan)..KnockoutEnd(plan), NEW p \in Nat, e <= p,
         NEW ts, NEW ls, NEW us, NEW vs, BracketIs(ts, ls, p), SyncedAs(ts, ls, us, vs, e)
  PROVE  us = ts /\ vs = ls
<1> DEFINE k == RoundAt(e)
           l == LegAt(e)
           L == plan.legs
<1>1. /\ k \in 1..Rounds /\ l \in 1..L /\ EventOf(k, l) = e
      /\ l < L \/ (l = L /\ EndOf(k) = e)
  BY EventsOf
<1>2. k \in Nat /\ k + 1 # k /\ L \in {1, 2} /\ Rounds \in Nat /\ 1..L \subseteq {1, 2} /\ (l < L => l # L)
  BY <1>1 DEF HasBracket
<1>3. /\ ts \in [Ties -> TieRow] /\ ls \in [Ties -> [1..L -> LegRow]]
      /\ us \in [Ties -> TieRow] /\ vs \in [Ties -> [1..L -> LegRow]]
  BY DEF BracketIs, SyncedAs, BracketTyped
<1>4. /\ \A m \in Ties : \A j \in 1..L : ls[m][j].sides = Swapped(j, ts[m].sides)
      /\ \A m \in Ties : \A j \in 1..L : vs[m][j].sides = Swapped(j, us[m].sides)
  BY DEF BracketIs, SyncedAs, LegsFollow
<1>5. \A m \in Ties :
          /\ RoundOf(m) # k + 1 \/ l < L => us[m].sides = ts[m].sides
          /\ RoundOf(m) = k + 1 /\ l = L => us[m].sides = <<us[Feeder(m)].winner, us[Feeder(m) + 1].winner>>
          /\ RoundOf(m) # k \/ l < L => us[m].winner = ts[m].winner
          /\ RoundOf(m) = k /\ l = L => us[m].winner = RoundWinner(vs[m], us[m].sides)
          /\ \A j \in 1..L : IF RoundOf(m) = k /\ j = l THEN PlayedAt(e, vs[m][j])
                             ELSE vs[m][j].got = ls[m][j].got /\ vs[m][j].winner = ls[m][j].winner
  BY DEF SyncedAs
<1>6. \A m \in Ties : RoundOf(m) = k => PlayedAt(e, ls[m][l])
  BY <1>1 DEF BracketIs, LegsPlayed
<1>7. \A m \in Ties : RoundOf(m) = k /\ l = L => ts[m].winner = RoundWinner(ls[m], ts[m].sides)
  BY <1>1 DEF BracketIs, RoundsDecided
<1>8. \A m \in Ties : RoundOf(m) = k + 1 /\ l = L => ts[m].sides = <<ts[Feeder(m)].winner, ts[Feeder(m) + 1].winner>>
  <2> SUFFICES ASSUME NEW m \in Ties, RoundOf(m) = k + 1, l = L
               PROVE  ts[m].sides = <<ts[Feeder(m)].winner, ts[Feeder(m) + 1].winner>>
    OBVIOUS
  <2>1. RoundOf(m) > 1 /\ RoundOf(m) - 1 = k
    BY <1>1, <1>2
  <2>2. EndOf(RoundOf(m) - 1) <= p
    BY <1>1, <1>2, <2>1
  <2> QED
    BY <2>1, <2>2 DEF BracketIs, Entered
<1> HIDE DEF k, l, L
<1>9. ASSUME NEW m \in Ties, us[m].sides = ts[m].sides PROVE vs[m] = ls[m]
  <2>1. ASSUME NEW j \in 1..L PROVE vs[m][j] = ls[m][j]
    <3>1. vs[m][j] \in LegRow /\ ls[m][j] \in LegRow /\ vs[m][j].sides = ls[m][j].sides
      BY <1>3, <1>4, <1>9
    <3>2. vs[m][j].got = ls[m][j].got /\ vs[m][j].winner = ls[m][j].winner
      <4>1. CASE RoundOf(m) = k /\ j = l
        <5>1. PlayedAt(e, vs[m][j]) /\ PlayedAt(e, ls[m][j])
          BY <1>5, <1>6, <4>1
        <5> QED
          BY <3>1, <5>1 DEF PlayedAt
      <4>2. CASE ~(RoundOf(m) = k /\ j = l)
        BY <1>5, <4>2
      <4> QED
        BY <4>1, <4>2
    <3> QED
      BY <3>1, <3>2 DEF LegRow
  <2>2. vs[m] \in [1..L -> LegRow] /\ ls[m] \in [1..L -> LegRow]
    BY <1>3
  <2>3. vs[m] = [j \in 1..L |-> vs[m][j]] /\ ls[m] = [j \in 1..L |-> ls[m][j]]
    BY <2>2
  <2>4. [j \in 1..L |-> vs[m][j]] = [j \in 1..L |-> ls[m][j]]
    BY <2>1
  <2> QED
    BY <2>3, <2>4
<1>10. ASSUME NEW m \in Ties, RoundOf(m) # k + 1 \/ l < L PROVE us[m] = ts[m] /\ vs[m] = ls[m]
  <2>1. us[m].sides = ts[m].sides
    BY <1>5, <1>10
  <2>2. vs[m] = ls[m]
    BY <1>9, <2>1
  <2>3. us[m].winner = ts[m].winner
    <3>1. CASE RoundOf(m) = k /\ l = L
      BY <1>5, <1>7, <2>1, <2>2, <3>1
    <3>2. CASE ~(RoundOf(m) = k /\ l = L)
      BY <1>1, <1>5, <3>2
    <3> QED
      BY <3>1, <3>2
  <2>4. us[m] \in TieRow /\ ts[m] \in TieRow
    BY <1>3
  <2> QED
    BY <2>1, <2>2, <2>3, <2>4 DEF TieRow
<1>11. ASSUME NEW m \in Ties, RoundOf(m) = k + 1, l = L PROVE us[m] = ts[m] /\ vs[m] = ls[m]
  <2>1. /\ Feeder(m) \in Ties /\ RoundOf(Feeder(m)) = k
        /\ Feeder(m) + 1 \in Ties /\ RoundOf(Feeder(m) + 1) = k
    <3>1. RoundOf(m) > 1 /\ RoundOf(m) - 1 = k
      BY <1>1, <1>2, <1>11
    <3> QED
      BY <3>1, FeederOf
  <2>2. us[Feeder(m)] = ts[Feeder(m)] /\ us[Feeder(m) + 1] = ts[Feeder(m) + 1]
    BY <1>2, <1>10, <2>1
  <2>3. us[m].sides = ts[m].sides
    BY <1>5, <1>8, <1>11, <2>2
  <2>4. us[m].winner = ts[m].winner
    BY <1>2, <1>5, <1>11
  <2>5. us[m] \in TieRow /\ ts[m] \in TieRow
    BY <1>3
  <2>6. vs[m] = ls[m]
    BY <1>9, <2>3
  <2> QED
    BY <2>3, <2>4, <2>5, <2>6 DEF TieRow
<1>12. \A m \in Ties : us[m] = ts[m] /\ vs[m] = ls[m]
  BY <1>1, <1>10, <1>11
<1> QED
  BY <1>3, <1>12

\* Syncing another one leaves what was synced in order, and the next one
\* in order extends it.
LEMMA NextInOrder ==
  ASSUME HasBracket, KnockoutStart(plan) \in Nat,
         KnockoutEnd(plan) = KnockoutStart(plan) + Rounds * plan.legs - 1,
         NEW e \in KnockoutStart(plan)..KnockoutEnd(plan), NEW p \in Nat, p < e,
         NEW q \in Nat, q = p \/ (e = p + 1 /\ q = e),
         NEW ts, NEW ls, NEW us, NEW vs, BracketIs(ts, ls, p), SyncedAs(ts, ls, us, vs, e)
  PROVE  BracketIs(us, vs, q)
<1> DEFINE k == RoundAt(e)
           l == LegAt(e)
           L == plan.legs
<1>1. e \in Nat /\ k \in 1..Rounds /\ l \in 1..L /\ EventOf(k, l) = e
  BY EventsOf
<1>2. \A j \in Nat : \A i \in 1..L : /\ EventOf(j, i) \in Int
                                     /\ EventOf(j, i) = e => j = k /\ i = l
                                     /\ EventOf(j, i) < e => j <= k
  BY EventsOf
<1>3. \A j \in Nat : /\ EndOf(j) \in Int
                     /\ EndOf(j) < e => j < k
                     /\ EndOf(j) = e => j = k /\ l = L
  BY EventsOf
<1>4. \A x \in Int : x <= q => (x <= p /\ x < e) \/ x = e
  BY <1>1
<1>5. \A m \in Ties : RoundOf(m) \in Nat
  BY RoundOfIs DEF HasBracket
<1>6. k \in Nat /\ L \in {1, 2} /\ l \in 1..L
  BY <1>1 DEF HasBracket
<1>7. \A m \in Ties :
          /\ RoundOf(m) # k + 1 \/ l < L => us[m].sides = ts[m].sides
          /\ RoundOf(m) = k + 1 /\ l = L => us[m].sides = <<us[Feeder(m)].winner, us[Feeder(m) + 1].winner>>
          /\ RoundOf(m) # k \/ l < L => us[m].winner = ts[m].winner
          /\ RoundOf(m) = k /\ l = L => us[m].winner = RoundWinner(vs[m], us[m].sides) /\ us[m].winner # 0
          /\ \A j \in 1..L : IF RoundOf(m) = k /\ j = l THEN PlayedAt(e, vs[m][j])
                             ELSE vs[m][j].got = ls[m][j].got /\ vs[m][j].winner = ls[m][j].winner
  BY DEF SyncedAs
<1>8. /\ ls \in [Ties -> [1..L -> LegRow]] /\ vs \in [Ties -> [1..L -> LegRow]]
      /\ \A m \in Ties : \A j \in 1..L : ls[m][j].sides = Swapped(j, ts[m].sides)
      /\ \A m \in Ties : \A j \in 1..L : vs[m][j].sides = Swapped(j, us[m].sides)
  BY DEF BracketIs, SyncedAs, LegsFollow, BracketTyped
<1> HIDE DEF k, l
<1>9. Entered(us, q)
  <2> SUFFICES ASSUME NEW m \in Ties, RoundOf(m) > 1, EndOf(RoundOf(m) - 1) <= q
               PROVE  us[m].sides = <<us[Feeder(m)].winner, us[Feeder(m) + 1].winner>>
    BY DEF Entered
  <2>1. RoundOf(m) - 1 \in Nat /\ RoundOf(m) \in Nat
    BY <1>5
  <2>2. CASE EndOf(RoundOf(m) - 1) = e
    <3>1. RoundOf(m) = k + 1 /\ l = L
      BY <1>3, <1>6, <2>1, <2>2
    <3> QED
      BY <1>7, <3>1
  <2>3. CASE EndOf(RoundOf(m) - 1) <= p /\ EndOf(RoundOf(m) - 1) < e
    <3>1. RoundOf(m) - 1 < k
      BY <1>3, <2>1, <2>3
    <3>2. RoundOf(m) # k + 1 /\ RoundOf(m) - 1 # k
      BY <1>6, <2>1, <3>1
    <3>3. ts[m].sides = <<ts[Feeder(m)].winner, ts[Feeder(m) + 1].winner>>
      BY <2>3 DEF BracketIs, Entered
    <3>4. /\ Feeder(m) \in Ties /\ RoundOf(Feeder(m)) = RoundOf(m) - 1
          /\ Feeder(m) + 1 \in Ties /\ RoundOf(Feeder(m) + 1) = RoundOf(m) - 1
      BY FeederOf
    <3>5. us[Feeder(m)].winner = ts[Feeder(m)].winner /\ us[Feeder(m) + 1].winner = ts[Feeder(m) + 1].winner
      BY Zenon, <1>7, <3>2, <3>4
    <3> QED
      BY <1>7, <3>2, <3>3, <3>5
  <2> QED
    BY <1>3, <1>4, <2>1, <2>2, <2>3
<1>10. LegsPlayed(vs, q)
  <2> SUFFICES ASSUME NEW m \in Ties, NEW j \in 1..L, EventOf(RoundOf(m), j) <= q
               PROVE  PlayedAt(EventOf(RoundOf(m), j), vs[m][j])
    BY DEF LegsPlayed
  <2> DEFINE x == EventOf(RoundOf(m), j)
  <2>1. RoundOf(m) \in Nat /\ x \in Int
    BY <1>2, <1>5
  <2>2. CASE x = e
    <3>1. RoundOf(m) = k /\ j = l
      BY <1>2, <2>1, <2>2
    <3> QED
      BY <1>7, <2>2, <3>1
  <2>3. CASE x <= p /\ x < e
    <3>1. RoundOf(m) <= k /\ ~(RoundOf(m) = k /\ j = l)
      <4>1. x # e
        BY <1>1, <2>1, <2>3
      <4> QED
        BY <1>1, <1>2, <2>1, <2>3, <4>1 DEF k, l
    <3>2. RoundOf(m) # k + 1
      BY <1>6, <2>1, <3>1
    <3>3. us[m].sides = ts[m].sides
      BY <1>7, <3>2
    <3>4. PlayedAt(x, ls[m][j])
      BY <2>3 DEF BracketIs, LegsPlayed
    <3>5. vs[m][j].sides = ls[m][j].sides
      BY <1>8, <3>3
    <3>6. vs[m][j].got = ls[m][j].got /\ vs[m][j].winner = ls[m][j].winner
      BY <1>7, <3>1
    <3> HIDE DEF x
    <3>7. PlayedAt(x, vs[m][j])
      BY <3>4, <3>5, <3>6 DEF PlayedAt
    <3> QED
      BY <3>7 DEF x
  <2> QED
    BY <1>4, <2>1, <2>2, <2>3
<1>11. RoundsDecided(us, vs, q)
  <2> SUFFICES ASSUME NEW m \in Ties, EndOf(RoundOf(m)) <= q
               PROVE  us[m].winner = RoundWinner(vs[m], us[m].sides) /\ us[m].winner # 0
    BY DEF RoundsDecided
  <2>1. RoundOf(m) \in Nat
    BY <1>5
  <2>2. CASE EndOf(RoundOf(m)) = e
    BY <1>3, <1>7, <2>1, <2>2
  <2>3. CASE EndOf(RoundOf(m)) <= p /\ EndOf(RoundOf(m)) < e
    <3>1. RoundOf(m) < k
      BY <1>3, <2>1, <2>3
    <3>2. RoundOf(m) # k /\ RoundOf(m) # k + 1
      BY <1>6, <2>1, <3>1
    <3>3. us[m].sides = ts[m].sides /\ us[m].winner = ts[m].winner
      BY <1>7, <3>2
    <3>4. ts[m].winner = RoundWinner(ls[m], ts[m].sides) /\ ts[m].winner # 0
      BY <2>3 DEF BracketIs, RoundsDecided
    <3>5. ASSUME NEW j \in 1..L PROVE vs[m][j] = ls[m][j]
      <4>1. vs[m][j] \in LegRow /\ ls[m][j] \in LegRow /\ vs[m][j].sides = ls[m][j].sides
        BY <1>8, <3>3
      <4>2. vs[m][j].got = ls[m][j].got /\ vs[m][j].winner = ls[m][j].winner
        BY <1>7, <3>2
      <4> QED
        BY <4>1, <4>2 DEF LegRow
    <3>6. vs[m] = ls[m]
      <4>1. vs[m] \in [1..L -> LegRow] /\ ls[m] \in [1..L -> LegRow]
        BY <1>8
      <4>2. vs[m] = [j \in 1..L |-> vs[m][j]] /\ ls[m] = [j \in 1..L |-> ls[m][j]]
        BY <4>1
      <4>3. [j \in 1..L |-> vs[m][j]] = [j \in 1..L |-> ls[m][j]]
        BY <3>5
      <4> QED
        BY <4>2, <4>3
    <3> QED
      BY <3>3, <3>4, <3>6
  <2> QED
    BY <1>3, <1>4, <2>1, <2>2, <2>3
<1> QED
  BY <1>9, <1>10, <1>11 DEF BracketIs, SyncedAs

(***************************************************************************)
(* The invariant's steps.                                                  *)
(***************************************************************************)

\* What the invariant says of the plan, the entries and the results.
LEMMA InvFacts ==
  ASSUME CompetitionIInv
  PROVE  /\ plan \in PlanRequest /\ Accepted(plan) /\ StandingsIInv
         /\ Entries = 1..plan.teams /\ Entries \in SUBSET Nat /\ IsFiniteSet(Entries)
         /\ \A a \in Entries : OverallRank[a] \in Int
         /\ pass \in Nat /\ Len(score) \in Nat
         /\ \A e \in 1..Len(score) : \A n \in 0..plan.teams : ScoreAt(e, n) \in Scores
<1>1. plan \in PlanRequest /\ Accepted(plan) /\ StandingsIInv /\ PassFits
  BY DEF CompetitionIInv, StandingsIInv, GroupsPlayed
<1>2. Entries = 1..plan.teams /\ Entries \in SUBSET Nat
  BY <1>1, PlanFacts DEF Entries
<1>3. pass \in Nat
  BY <1>1, PlanFacts DEF PassFits
<1>4. ASSUME NEW e \in 1..Len(score), NEW n \in 0..plan.teams PROVE ScoreAt(e, n) \in Scores
  <2>1. CASE n = 0
    BY <2>1 DEF ScoreAt, NoScore, Scores
  <2>2. CASE n # 0
    <3>1. n \in 1..plan.teams
      BY <1>1, <2>2, PlanFacts
    <3>2. score[e] \in [1..plan.teams -> Int \X Int \X Int]
      <4>1. score[e] \in ResultsOf(plan.teams)
        BY <1>1, PlanParts
      <4> QED
        BY <1>1, <4>1, CompetitionAssumption
    <3>3. ScoreAt(e, n) = score[e][n]
      BY <2>2 DEF ScoreAt
    <3> QED
      BY <3>1, <3>2, <3>3 DEF Scores
  <2> QED
    BY <2>1, <2>2
<1> QED
  BY <1>1, <1>2, <1>3, <1>4, PlanParts

\* The draw of the first day is fair and stays.
LEMMA DrawIsFair ==
  ASSUME CompetitionIInv
  PROVE  /\ DrawFair /\ drawn \in [Entries -> 0..plan.groups]
         /\ plan.groups = 0 /\ plan.legs # 0 => RoundOneSeeded
<1>1. plan \in PlanRequest /\ Accepted(plan) /\ DrawKept /\ \A a \in Entries : OverallRank[a] \in Int
  BY InvFacts DEF CompetitionIInv
<1>2. plan.teams \in Nat /\ plan.teams >= 2 /\ plan.groups \in Nat /\ (plan.legs # 0 => HasBracket)
  BY <1>1, PlanFacts
<1>3. CASE plan.groups # 0
  <2>1. drawn = [n \in Entries |-> SnakeGroup(plan, CHOOSE i \in Entries : Seeds(plan.teams)[i] = n)]
    BY <1>1, <1>3 DEF DrawKept
  <2> QED
    BY <1>1, <1>3, <2>1, GroupDrawFair
<1>4. CASE plan.groups = 0
  <2>1. drawn = [n \in Entries |-> 0]
    BY <1>1, <1>4 DEF DrawKept
  <2>2. drawn \in [Entries -> 0..plan.groups]
    BY <1>2, <2>1
  <2>3. CASE plan.legs = 0
    BY <1>4, <2>2, <2>3 DEF DrawFair
  <2>4. CASE plan.legs # 0
    <3>1. DrawFair
      BY <1>1, <1>2, <1>4, <2>4, BracketDrawFair DEF DrawKept
    <3>2. RoundOneSeeded
      BY <1>4, <2>4, <3>1 DEF DrawFair, RoundOneSeeded
    <3> QED
      BY <2>2, <3>1, <3>2
  <2> QED
    BY <2>3, <2>4
<1> QED
  BY <1>3, <1>4

\* No event of the knockout comes before its start.
LEMMA EventsStart ==
  ASSUME HasBracket, KnockoutStart(plan) \in Nat, NEW k \in Nat, k >= 1
  PROVE  /\ EndOf(k) \in Int /\ EndOf(k) >= KnockoutStart(plan)
         /\ \A l \in 1..plan.legs : EventOf(k, l) \in Int /\ EventOf(k, l) >= KnockoutStart(plan)
<1> DEFINE S == KnockoutStart(plan)
           L == plan.legs
<1>1. L \in {1, 2} /\ S \in Nat
  BY DEF HasBracket
<1>2. EndOf(k) = S + k * L - 1 /\ \A l : EventOf(k, l) = S + (k - 1) * L + l - 1
  BY DEF EndOf, EventOf
<1> HIDE DEF S, L
<1>3. CASE L = 1
  BY <1>1, <1>2, <1>3 DEF S, L
<1>4. CASE L = 2
  BY <1>1, <1>2, <1>4 DEF S, L
<1> QED
  BY <1>1, <1>3, <1>4

\* The pairs of qualified entries.
LEMMA DrawTyped ==
  ASSUME CompetitionIInv, plan.legs # 0, Cardinality(Qualified) >= KnockoutTeams(plan)
  PROVE  \A m \in TiesOf(1) : Draw[m] \in Sides
<1> DEFINE n == KnockoutTeams(plan)
           list == Sorted(Qualified, QualifiedBefore)
           N == Cardinality(Qualified)
<1>1. plan.teams \in Nat /\ HasBracket /\ n \in Nat /\ n >= 2 /\ Rounds = RoundsFor(n)
  BY InvFacts, PlanFacts
<1>2. IsListing(list, Qualified)
  <2>1. \A a \in Entries : standing[a].rank \in Nat /\ drawn[a] \in Nat
    <3>1. standing \in [Entries -> [rank : 0..plan.teams, qualified : BOOLEAN]]
      BY DEF CompetitionIInv
    <3>2. drawn \in [Entries -> 0..plan.groups] /\ plan.groups \in Nat
      BY DrawIsFair, InvFacts, PlanFacts
    <3> QED
      BY <1>1, <3>1, <3>2
  <2> QED
    BY <2>1, InvFacts, QualifiedList
<1>3. Qualified \in SUBSET (1..plan.teams) /\ N \in Nat /\ n <= N
  <2>1. Qualified \in SUBSET Entries /\ IsFiniteSet(Entries)
    BY InvFacts DEF Qualified
  <2>2. N \in Nat
    BY <2>1, FS_Subset, FS_CardinalityType
  <2> QED
    BY <1>1, <2>1, <2>2, InvFacts
<1>4. \A s \in 1..n : list[s] \in 0..plan.teams
  <2>1. \A s \in 1..N : list[s] \in Qualified
    BY <1>2 DEF IsListing
  <2> HIDE DEF n, list, N
  <2>2. \A s \in 1..n : s \in 1..N
    BY <1>1, <1>3
  <2>3. \A q \in Qualified : q \in 0..plan.teams
    BY <1>1, <1>3
  <2> QED
    BY Zenon, <2>1, <2>2, <2>3
<1>5. Draw = Pairs(list, n)
  BY DEF Draw
<1> HIDE DEF n, list
<1> SUFFICES ASSUME NEW m \in TiesOf(1) PROVE Pairs(list, n)[m] \in Sides
  BY <1>5
<1>6. m \in 1..Places[Rounds - 1]
  BY <1>1, RoundOneIs
<1> DEFINE i == SeedOrder[Rounds][2 * m - 1]
           j == SeedOrder[Rounds][2 * m]
<1>7. i \in 1..n /\ j \in 1..Places[Rounds] /\ Pairs(list, n)[m] = <<list[i], IF j <= n THEN list[j] ELSE 0>>
  BY <1>1, <1>6, PairsOf
<1> HIDE DEF i, j
<1>8. j <= n => j \in 1..n
  <2>1. Places[Rounds] \in Nat
    BY <1>1, PlacesGrow DEF HasBracket
  <2> QED
    BY <1>1, <1>7, <2>1
<1>9. list[i] \in 0..plan.teams /\ (IF j <= n THEN list[j] ELSE 0) \in 0..plan.teams
  BY <1>1, <1>4, <1>7, <1>8
<1> QED
  BY <1>7, <1>9 DEF Sides

\* Seeding the first round, before an event was synced, gives a bracket.
LEMMA SeedingKeeps ==
  ASSUME CompetitionIInv, plan.legs # 0
  PROVE  /\ BracketIs(TiesToSync, LegsToSync, pass)
         /\ RoundOneSeeded => TiesToSync = tie
<1>1. HasBracket /\ KnockoutStart(plan) \in Nat
  BY InvFacts, PlanFacts
<1>2. BracketIs(tie, leg, pass)
  BY DEF CompetitionIInv
<1>3. CASE ~ToSeed
  BY <1>2, <1>3 DEF TiesToSync, LegsToSync
<1>4. CASE ToSeed
  <2> DEFINE ts == SeededTies(tie, Draw)
             ls == SeededLegs(leg, Draw)
             L == plan.legs
  <2>1. ~RoundOneSeeded /\ Cardinality(Qualified) >= KnockoutTeams(plan)
    BY <1>4 DEF ToSeed
  <2>2. pass = KnockoutStart(plan) - 1
    BY <2>1 DEF CompetitionIInv, PassFits
  <2>3. TiesToSync = ts /\ LegsToSync = ls
    BY <1>4 DEF TiesToSync, LegsToSync
  <2>4. \A m \in Ties : RoundOf(m) = 1 => Draw[m] \in Sides
    BY <2>1, DrawTyped DEF TiesOf
  <2>5. tie \in [Ties -> TieRow] /\ leg \in [Ties -> [1..L -> LegRow]] /\ L \in {1, 2}
    BY <1>1, <1>2 DEF BracketIs, BracketTyped, HasBracket
  <2>6. \A m \in Ties : \A l \in 1..L : leg[m][l].sides = Swapped(l, tie[m].sides)
    BY <1>2 DEF BracketIs, LegsFollow
  <2>7. \A m \in Ties : /\ ts[m] \in TieRow
                        /\ ts[m].sides = IF RoundOf(m) = 1 THEN Draw[m] ELSE tie[m].sides
    <3> SUFFICES ASSUME NEW m \in Ties
                 PROVE  /\ ts[m] \in TieRow
                        /\ ts[m].sides = IF RoundOf(m) = 1 THEN Draw[m] ELSE tie[m].sides
      OBVIOUS
    <3>1. ts[m] = IF RoundOf(m) = 1 THEN [tie[m] EXCEPT !.sides = Draw[m]] ELSE tie[m]
      BY DEF SeededTies
    <3>2. tie[m] \in TieRow
      BY <2>5
    <3> HIDE DEF ts
    <3> QED
      BY <2>4, <3>1, <3>2 DEF TieRow
  <2>8. \A m \in Ties, l \in 1..L :
           /\ ls[m][l] \in LegRow
           /\ ls[m][l].sides = IF RoundOf(m) = 1 THEN Swapped(l, Draw[m]) ELSE leg[m][l].sides
    <3> SUFFICES ASSUME NEW m \in Ties, NEW l \in 1..L
                 PROVE  /\ ls[m][l] \in LegRow
                        /\ ls[m][l].sides = IF RoundOf(m) = 1 THEN Swapped(l, Draw[m]) ELSE leg[m][l].sides
      OBVIOUS
    <3>1. ls[m][l] = IF RoundOf(m) = 1 THEN [leg[m][l] EXCEPT !.sides = Swapped(l, Draw[m])] ELSE leg[m][l]
      BY DEF SeededLegs
    <3>2. leg[m][l] \in LegRow /\ l \in {1, 2}
      BY <2>5
    <3>3. RoundOf(m) = 1 => Swapped(l, Draw[m]) \in Sides
      BY <2>4, <3>2, SwappedIs
    <3> HIDE DEF ls
    <3> QED
      BY <3>1, <3>2, <3>3 DEF LegRow
  <2>9. BracketTyped(ts, ls)
    <3>1. ts = [m \in Ties |-> ts[m]]
      BY DEF SeededTies
    <3>2. ls = [m \in Ties |-> [l \in 1..L |-> ls[m][l]]]
      BY DEF SeededLegs
    <3> HIDE DEF ts, ls
    <3>3. ts \in [Ties -> TieRow]
      BY <2>7, <3>1
    <3>4. \A m \in Ties : [l \in 1..L |-> ls[m][l]] \in [1..L -> LegRow]
      BY <2>8
    <3>5. ls \in [Ties -> [1..L -> LegRow]]
      BY <3>2, <3>4
    <3> QED
      BY <3>3, <3>5 DEF BracketTyped
  <2> HIDE DEF ts, ls
  <2>10. LegsFollow(ts, ls)
    BY <2>6, <2>7, <2>8 DEF LegsFollow
  <2>11. \A m \in Ties : RoundOf(m) \in Nat /\ RoundOf(m) >= 1 /\ (RoundOf(m) > 1 => RoundOf(m) - 1 \in Nat /\ RoundOf(m) - 1 >= 1)
    BY <1>1, RoundOfIs DEF HasBracket
  <2>12. \A k \in Nat : k >= 1 => /\ ~(EndOf(k) <= pass)
                                  /\ \A l \in 1..L : ~(EventOf(k, l) <= pass)
    BY <1>1, <2>2, EventsStart
  <2>13. Entered(ts, pass) /\ LegsPlayed(ls, pass) /\ RoundsDecided(ts, ls, pass)
    BY <2>11, <2>12 DEF Entered, LegsPlayed, RoundsDecided
  <2> QED
    BY <2>1, <2>3, <2>9, <2>10, <2>13 DEF BracketIs
<1> QED
  BY <1>3, <1>4

\* What a plan determines stays while the plan does.
LEMMA SamePlan ==
  ASSUME plan' = plan
  PROVE  /\ Entries' = Entries /\ Ties' = Ties /\ KnockoutStart(plan)' = KnockoutStart(plan)
         /\ Sides' = Sides /\ TieRow' = TieRow /\ LegRow' = LegRow
         /\ \A m : RoundOf(m)' = RoundOf(m)
         /\ \A k : TiesOf(k)' = TiesOf(k) /\ EndOf(k)' = EndOf(k)
         /\ \A m : Feeder(m)' = Feeder(m)
         /\ \A k, l : EventOf(k, l)' = EventOf(k, l)
         /\ \A ls, sides : RoundWinner(ls, sides)' = RoundWinner(ls, sides)
<1>1. Entries' = Entries
  BY DEF Entries
<1>2. Rounds' = Rounds
  BY DEF Rounds, KnockoutTeams
<1>3. Ties' = Ties
  BY <1>2 DEF Ties
<1>4. KnockoutStart(plan)' = KnockoutStart(plan)
  BY DEF KnockoutStart
<1>5. Sides' = Sides
  BY DEF Sides
<1>6. TieRow' = TieRow /\ LegRow' = LegRow
  BY <1>5 DEF TieRow, LegRow
<1>7. \A k : RoundStart(k)' = RoundStart(k)
  BY <1>2 DEF RoundStart
<1>8. \A m : RoundOf(m)' = RoundOf(m)
  BY <1>2, <1>7 DEF RoundOf
<1>9. \A k : TiesOf(k)' = TiesOf(k)
  BY <1>3, <1>8 DEF TiesOf
<1>10. \A k : EndOf(k)' = EndOf(k)
  BY <1>4 DEF EndOf
<1>11. \A m : Feeder(m)' = Feeder(m)
  BY <1>7, <1>8 DEF Feeder
<1>12. \A k, l : EventOf(k, l)' = EventOf(k, l)
  BY <1>4 DEF EventOf
<1>13. \A ls, n : OverLegs(ls, n)' = OverLegs(ls, n)
  BY DEF OverLegs
<1>14. \A ls, sides : RoundWinner(ls, sides)' = RoundWinner(ls, sides)
  BY <1>13 DEF RoundWinner
<1> QED
  BY <1>1, <1>3, <1>4, <1>5, <1>6, <1>8, <1>9, <1>10, <1>11, <1>12, <1>14

\* A bracket is one for the new state, when the results it stands on are there.
LEMMA BracketGoesOn ==
  ASSUME plan' = plan, BracketIs(tie', leg', pass'),
         \A e : e <= pass' /\ e \in Int /\ e >= KnockoutStart(plan) => score'[e] = score[e],
         HasBracket, KnockoutStart(plan) \in Nat
  PROVE  BracketIs(tie, leg, pass)'
<1>1. BracketTyped(tie, leg)' /\ LegsFollow(tie, leg)'
  BY SamePlan DEF BracketIs, BracketTyped, LegsFollow
<1>2. Entered(tie, pass)'
  BY SamePlan DEF BracketIs, Entered
<1>3. RoundsDecided(tie, leg, pass)'
  BY SamePlan DEF BracketIs, RoundsDecided
<1>4. LegsPlayed(leg, pass)'
  <2> SUFFICES ASSUME NEW m \in Ties, NEW l \in 1..plan.legs, EventOf(RoundOf(m), l) <= pass'
               PROVE  (PlayedAt(EventOf(RoundOf(m), l), leg[m][l]))'
    BY SamePlan DEF LegsPlayed
  <2>1. PlayedAt(EventOf(RoundOf(m), l), leg'[m][l])
    BY DEF BracketIs, LegsPlayed
  <2>2. RoundOf(m) \in Nat /\ RoundOf(m) >= 1
    BY RoundOfIs DEF HasBracket
  <2>3. EventOf(RoundOf(m), l) \in Int /\ EventOf(RoundOf(m), l) >= KnockoutStart(plan)
    BY <2>2, EventsStart
  <2>4. \A n : ScoreAt(EventOf(RoundOf(m), l), n)' = ScoreAt(EventOf(RoundOf(m), l), n)
    BY <2>3, SamePlan DEF ScoreAt
  <2> QED
    BY <2>1, <2>4 DEF PlayedAt
<1> QED
  BY <1>1, <1>2, <1>3, <1>4 DEF BracketIs

\* A bracket synced so far is one synced less far.
LEMMA BracketBefore ==
  ASSUME HasBracket, KnockoutStart(plan) \in Nat, NEW ts, NEW ls, NEW p \in Nat, NEW q \in Int, q <= p, BracketIs(ts, ls, p)
  PROVE  BracketIs(ts, ls, q)
<1>1. \A m \in Ties : RoundOf(m) \in Nat /\ RoundOf(m) >= 1 /\ (RoundOf(m) > 1 => RoundOf(m) - 1 \in Nat /\ RoundOf(m) - 1 >= 1)
  BY RoundOfIs DEF HasBracket
<1>2. \A k \in Nat : k >= 1 => /\ EndOf(k) <= q => EndOf(k) <= p
                               /\ \A l \in 1..plan.legs : EventOf(k, l) <= q => EventOf(k, l) <= p
  BY EventsStart
<1>3. BracketTyped(ts, ls) /\ LegsFollow(ts, ls) /\ Entered(ts, p) /\ LegsPlayed(ls, p) /\ RoundsDecided(ts, ls, p)
  BY DEF BracketIs
<1>4. Entered(ts, q)
  BY <1>1, <1>2, <1>3 DEF Entered
<1>5. LegsPlayed(ls, q)
  BY <1>1, <1>2, <1>3 DEF LegsPlayed
<1>6. RoundsDecided(ts, ls, q)
  BY <1>1, <1>2, <1>3 DEF RoundsDecided
<1> QED
  BY <1>3, <1>4, <1>5, <1>6 DEF BracketIs

\* A sync keeps the bracket, whichever event it is for.
LEMMA SyncStep ==
  ASSUME CompetitionIInv, NEW e, SyncKnockout(e)
  PROVE  BracketIs(tie, leg, pass)' /\ PassFits' /\ DrawKept'
<1> DEFINE S == KnockoutStart(plan)
           ts == TiesToSync
           ls == LegsToSync
           k == RoundAt(e)
           l == LegAt(e)
           L == plan.legs
<1>1. /\ L # 0 /\ e \in S..KnockoutEnd(plan) /\ e <= Len(score)
      /\ tie' = TiesSynced(ts, ls, e) /\ leg' = LegsSynced(ts, ls, e)
      /\ \A m \in TiesOf(k) : ls[m][l].sides # Unseeded
      /\ pass' = IF e = pass + 1 THEN e ELSE pass
      /\ plan' = plan /\ drawn' = drawn /\ score' = score
  BY SyncWrites
<1>2. /\ HasBracket /\ S \in Nat /\ S >= 1 /\ S - 1 \in Nat /\ L \in {1, 2}
      /\ KnockoutEnd(plan) = S + Rounds * L - 1 /\ KnockoutEnd(plan) <= LastGameweek /\ LastGameweek \in Nat
  BY <1>1, InvFacts, PlanFacts
<1>3. BracketIs(ts, ls, pass) /\ (RoundOneSeeded => ts = tie)
  BY <1>1, SeedingKeeps
<1>4. /\ pass \in (S - 1)..LastGameweek /\ (pass >= S => pass <= Len(score)) /\ pass \in Nat
      /\ ~RoundOneSeeded => pass = S - 1
  <2>1. PassFits
    BY DEF CompetitionIInv
  <2> QED
    BY <1>1, <2>1, InvFacts DEF PassFits
<1>5. /\ e \in Nat /\ k \in 1..Rounds /\ l \in 1..L
      /\ \A j \in Nat : \A i \in 1..L : EventOf(j, i) = e => j = k /\ i = l
  BY <1>1, <1>2, EventsOf
<1>6. SyncedAs(ts, ls, tie', leg', e)
  <2>1. e \in 1..Len(score)
    BY <1>1, <1>2, <1>5, InvFacts
  <2>2. \A n \in 0..plan.teams : ScoreAt(e, n) \in Scores
    BY <2>1, InvFacts
  <2>3. BracketTyped(ts, ls) /\ LegsFollow(ts, ls)
    BY <1>3 DEF BracketIs
  <2> QED
    BY <1>1, <1>2, <1>5, <2>2, <2>3, SyncedRows
<1> HIDE DEF S, ts, ls, k, l, L
<1>7. BracketIs(tie', leg', pass')
  <2>1. CASE e <= pass
    <3>1. tie' = ts /\ leg' = ls
      BY <1>1, <1>2, <1>3, <1>4, <1>6, <2>1, SameAgain DEF S, L
    <3>2. pass' = pass
      BY <1>1, <1>4, <1>5, <2>1
    <3> QED
      BY <1>3, <3>1, <3>2
  <2>2. CASE ~(e <= pass)
    <3>1. pass < e /\ pass' \in Nat /\ (pass' = pass \/ (e = pass + 1 /\ pass' = e))
      BY <1>1, <1>4, <1>5, <2>2
    <3> QED
      BY <1>1, <1>2, <1>3, <1>4, <1>6, <3>1, NextInOrder DEF S, L
  <2> QED
    BY <2>1, <2>2
<1>8. BracketIs(tie, leg, pass)'
  BY <1>1, <1>2, <1>7, BracketGoesOn DEF S
<1>9. \A m \in TiesOf(1) : tie'[m].sides = ts[m].sides
  <2> SUFFICES ASSUME NEW m \in TiesOf(1) PROVE tie'[m].sides = ts[m].sides
    OBVIOUS
  <2>1. m \in Ties /\ RoundOf(m) = 1
    BY DEF TiesOf
  <2>2. 1 # k + 1
    BY <1>2, <1>5 DEF HasBracket
  <2> QED
    BY <1>6, <2>1, <2>2 DEF SyncedAs, k
<1>10. ~RoundOneSeeded' => pass' = S - 1
  <2> SUFFICES ASSUME ~RoundOneSeeded', pass' # S - 1 PROVE FALSE
    OBVIOUS
  <2>1. TiesOf(1)' = TiesOf(1)
    BY <1>1, SamePlan
  <2>2. \E m \in TiesOf(1) : tie'[m].sides = Unseeded
    BY <2>1 DEF RoundOneSeeded
  <2>3. ~RoundOneSeeded
    BY <1>3, <1>9, <2>2 DEF RoundOneSeeded
  <2>4. e = S
    BY <1>1, <1>2, <1>4, <2>3
  <2>5. EventOf(1, 1) = S
    <3>1. L \in Nat /\ (1 - 1) * L = 0
      BY <1>2
    <3> QED
      BY <1>2, <3>1 DEF EventOf, S, L
  <2>6. k = 1 /\ l = 1
    BY <1>2, <1>5, <2>4, <2>5
  <2>7. \A m \in TiesOf(1) : ls[m][1].sides = ts[m].sides
    <3> SUFFICES ASSUME NEW m \in TiesOf(1) PROVE ls[m][1].sides = ts[m].sides
      OBVIOUS
    <3>1. m \in Ties /\ 1 \in 1..plan.legs
      BY <1>2 DEF TiesOf, L
    <3>2. ls[m][1].sides = Swapped(1, ts[m].sides)
      BY <1>3, <3>1 DEF BracketIs, LegsFollow
    <3> QED
      BY <3>2 DEF Swapped
  <2> QED
    BY <1>1, <1>9, <2>2, <2>6, <2>7
<1>11. PassFits'
  <2>0. KnockoutEnd(plan) \in Int
    <3>1. Rounds * L \in Nat
      BY <1>2 DEF HasBracket
    <3> QED
      BY <1>2, <3>1
  <2>1. pass' \in (S - 1)..LastGameweek
    BY <1>1, <1>2, <1>4, <1>5, <2>0
  <2>2. pass' >= S => pass' <= Len(score)
    BY <1>1, <1>2, <1>4, <1>5
  <2>3. KnockoutStart(plan)' = S
    BY <1>1, SamePlan DEF S
  <2> QED
    BY <1>1, <1>10, <2>1, <2>2, <2>3 DEF PassFits
<1>12. DrawKept'
  <2>1. Entries' = Entries /\ TiesOf(1)' = TiesOf(1)
    BY <1>1, SamePlan
  <2>2. plan.groups = 0 => \A m \in TiesOf(1) : tie'[m].sides = tie[m].sides
    BY <1>1, <1>3, <1>9, DrawIsFair DEF L
  <2>3. DrawKept
    BY DEF CompetitionIInv
  <2> QED
    BY <1>1, <2>1, <2>2, <2>3 DEF DrawKept
<1> QED
  BY <1>8, <1>11, <1>12

\* The other steps leave the bracket alone, and set the pass back before the
\* first result that changes.
LEMMA OtherSteps ==
  ASSUME CompetitionIInv, plan' = plan, drawn' = drawn, tie' = tie, leg' = leg,
         pass' \in Int, pass' <= pass, pass' >= KnockoutStart(plan) - 1, Len(score) <= Len(score)', Len(score)' \in Nat,
         \A e \in 1..Len(score) : e >= KnockoutStart(plan) /\ e <= pass' => score'[e] = score[e]
  PROVE  (plan.legs # 0 => BracketIs(tie, leg, pass)') /\ PassFits' /\ DrawKept'
<1> DEFINE S == KnockoutStart(plan)
<1>1. S \in Nat /\ S >= 1 /\ LastGameweek \in Nat /\ Len(score) \in Nat /\ (plan.legs # 0 => HasBracket)
  BY InvFacts, PlanFacts
<1>2. /\ pass \in (S - 1)..LastGameweek /\ (pass >= S => pass <= Len(score)) /\ pass \in Nat
      /\ plan.legs # 0 /\ ~RoundOneSeeded => pass = S - 1
  <2>1. PassFits
    BY DEF CompetitionIInv
  <2> QED
    BY <2>1, InvFacts DEF PassFits
<1>3. RoundOneSeeded' = RoundOneSeeded /\ S' = S /\ TiesOf(1)' = TiesOf(1) /\ Entries' = Entries
  BY SamePlan DEF RoundOneSeeded
<1> HIDE DEF S
<1>4. PassFits'
  <2>1. pass' \in (S - 1)..LastGameweek
    BY <1>1, <1>2 DEF S
  <2>2. pass' >= S => pass' <= Len(score)'
    BY <1>1, <1>2
  <2>3. plan.legs # 0 /\ ~RoundOneSeeded => pass' = S - 1
    BY <1>1, <1>2 DEF S
  <2> QED
    BY <1>3, <2>1, <2>2, <2>3 DEF PassFits, S
<1>5. DrawKept'
  BY <1>3 DEF DrawKept, CompetitionIInv
<1>6. ASSUME plan.legs # 0 PROVE BracketIs(tie, leg, pass)'
  <2>1. BracketIs(tie, leg, pass)
    BY <1>6 DEF CompetitionIInv
  <2>2. BracketIs(tie', leg', pass')
    BY <1>1, <1>2, <1>6, <2>1, BracketBefore DEF S
  <2>3. \A e : e <= pass' /\ e \in Int /\ e >= S => score'[e] = score[e]
    <3> SUFFICES ASSUME NEW e, e <= pass', e \in Int, e >= S PROVE score'[e] = score[e]
      OBVIOUS
    <3>1. e \in 1..Len(score)
      BY <1>1, <1>2
    <3> QED
      BY <3>1 DEF S
  <2> QED
    BY <1>1, <1>6, <2>2, <2>3, BracketGoesOn DEF S
<1> QED
  BY <1>4, <1>5, <1>6

\* The invariant is inductive.
LEMMA CompetitionStep ==
  ASSUME CompetitionIInv, [CompetitionNext]_competitionVars
  PROVE  CompetitionIInv'
<1> DEFINE S == KnockoutStart(plan)
<1>1. plan' = plan
  BY ZenonT(40) DEF CompetitionNext, PlayEvent, CorrectScore, SyncGroup, SyncKnockout, competitionVars
<1>2. StandingsIInv' /\ Accepted(plan)'
  <2>1. StandingsIInv'
    BY StandingsStep DEF CompetitionIInv
  <2>2. Accepted(plan)'
    BY <1>1 DEF CompetitionIInv, Accepted, KnockoutTeams, FitsSeason, KnockoutEnd, KnockoutStart
  <2> QED
    BY <2>1, <2>2
<1>3. /\ S \in Nat /\ S >= 1 /\ pass \in Nat /\ pass >= S - 1 /\ Len(score) \in Nat /\ LastGameweek \in Nat
      /\ plan.teams \in Nat /\ IsFiniteSet(Entries) /\ Entries = 1..plan.teams
      /\ score \in Seq(ResultsOf(plan.teams)) /\ MaxCorrections \in Nat
  <2>1. PassFits /\ GroupsPlayed
    BY DEF CompetitionIInv, StandingsIInv
  <2>2. MaxCorrections \in Nat
    BY CompetitionAssumption
  <2> QED
    BY <2>1, <2>2, InvFacts, PlanFacts DEF PassFits, GroupsPlayed
<1>4. /\ standing \in [Entries -> [rank : 0..plan.teams, qualified : BOOLEAN]]
      /\ corrections \in 0..MaxCorrections
  BY DEF CompetitionIInv
<1> DEFINE Fits == /\ (plan.legs # 0 => BracketIs(tie, leg, pass)') /\ PassFits' /\ DrawKept'
                   /\ standing' \in [Entries -> [rank : 0..plan.teams, qualified : BOOLEAN]]
                   /\ corrections' \in 0..MaxCorrections
<1> SUFFICES Fits
  <2>1. Entries' = Entries
    BY <1>1, SamePlan
  <2> QED
    BY <1>1, <1>2, <2>1 DEF CompetitionIInv
<1>5. CASE PlayEvent
  <2>1. PICK s \in ResultsOf(plan.teams) : score' = Append(score, s)
    BY <1>5 DEF PlayEvent
  <2>2. drawn' = drawn /\ tie' = tie /\ leg' = leg /\ pass' = pass /\ standing' = standing
        /\ corrections' = corrections
    BY <1>5 DEF PlayEvent
  <2>3. Len(score)' = Len(score) + 1 /\ \A e \in 1..Len(score) : score'[e] = score[e]
    BY <1>3, <2>1
  <2>4. (plan.legs # 0 => BracketIs(tie, leg, pass)') /\ PassFits' /\ DrawKept'
    BY <1>1, <1>3, <2>2, <2>3, OtherSteps
  <2> QED
    BY <1>4, <2>2, <2>4
<1>6. CASE CorrectScore
  <2>1. PICK c \in 1..Len(score), s \in ResultsOf(plan.teams) :
              /\ score' = [score EXCEPT ![c] = s]
              /\ pass' = IF S <= c /\ c <= pass THEN c - 1 ELSE pass
    BY <1>6 DEF CorrectScore
  <2>2. drawn' = drawn /\ tie' = tie /\ leg' = leg /\ standing' = standing
        /\ corrections' = corrections + 1 /\ corrections < MaxCorrections
    BY <1>6 DEF CorrectScore
  <2>3. Len(score)' = Len(score)
    BY <1>3, <2>1
  <2>4. pass' \in Int /\ pass' <= pass /\ pass' >= S - 1
    BY <1>3, <2>1
  <2>5. \A e \in 1..Len(score) : e >= S /\ e <= pass' => score'[e] = score[e]
    <3> SUFFICES ASSUME NEW e \in 1..Len(score), e >= S, e <= pass' PROVE score'[e] = score[e]
      OBVIOUS
    <3>1. e # c
      BY <1>3, <2>1
    <3> QED
      BY <1>3, <2>1, <3>1
  <2>6. (plan.legs # 0 => BracketIs(tie, leg, pass)') /\ PassFits' /\ DrawKept'
    BY <1>1, <1>3, <2>2, <2>3, <2>4, <2>5, OtherSteps
  <2>7. corrections' \in 0..MaxCorrections
    BY <1>3, <1>4, <2>2
  <2> QED
    BY <1>4, <2>2, <2>6, <2>7
<1>7. ASSUME NEW e \in 1..LastGameweek, SyncGroup(e) PROVE Fits
  <2>1. drawn' = drawn /\ tie' = tie /\ leg' = leg /\ pass' = pass /\ score' = score
        /\ corrections' = corrections
    BY <1>7 DEF SyncGroup
  <2>2. (plan.legs # 0 => BracketIs(tie, leg, pass)') /\ PassFits' /\ DrawKept'
    BY <1>1, <1>3, <2>1, OtherSteps
  <2>3. \A n \in Entries : RankAt(n, e) \in 0..plan.teams
    <3> SUFFICES ASSUME NEW n \in Entries PROVE RankAt(n, e) \in 0..plan.teams
      OBVIOUS
    <3> DEFINE B == {a \in GroupOf(n) : NotBehind(a, n, e)}
    <3>1. B \subseteq Entries
      BY DEF GroupOf
    <3>2. Cardinality(Entries) = plan.teams
      BY <1>3, InvFacts, SeedsList
    <3> HIDE DEF B
    <3>3. Cardinality(B) \in Nat /\ Cardinality(B) <= plan.teams
      BY <1>3, <3>1, <3>2, FS_Subset, FS_CardinalityType
    <3>4. RankAt(n, e) = Cardinality(B)
      BY DEF RankAt, B
    <3> QED
      BY <1>3, <3>3, <3>4
  <2>4. standing' = [n \in Entries |-> [rank |-> RankAt(n, e), qualified |-> RankAt(n, e) <= plan.qualify]]
    BY <1>7 DEF SyncGroup
  <2>5. standing' \in [Entries -> [rank : 0..plan.teams, qualified : BOOLEAN]]
    BY <2>3, <2>4
  <2> QED
    BY <1>4, <2>1, <2>2, <2>5
<1>8. ASSUME NEW e \in 1..LastGameweek, SyncKnockout(e) PROVE Fits
  <2>1. standing' = standing /\ corrections' = corrections
    BY <1>8, SyncWrites
  <2> QED
    BY <1>4, <1>8, <2>1, SyncStep
<1>9. CASE UNCHANGED competitionVars
  <2>1. drawn' = drawn /\ tie' = tie /\ leg' = leg /\ pass' = pass /\ score' = score
        /\ standing' = standing /\ corrections' = corrections
    BY <1>9 DEF competitionVars
  <2>2. (plan.legs # 0 => BracketIs(tie, leg, pass)') /\ PassFits' /\ DrawKept'
    BY <1>1, <1>3, <2>1, OtherSteps
  <2> QED
    BY <1>4, <2>1, <2>2
<1> HIDE DEF Fits
<1> QED
  BY <1>5, <1>6, <1>7, <1>8, <1>9 DEF CompetitionNext

\* It holds for every tournament that was just set up.
LEMMA CompetitionStarts == ASSUME CompetitionInit PROVE CompetitionIInv
<1> DEFINE S == KnockoutStart(plan)
           L == plan.legs
           T == plan.teams
           none == [m \in Ties |-> [sides |-> Unseeded, winner |-> 0]]
           legs == [m \in Ties |-> [l \in 1..L |-> NoLeg]]
           draw == Pairs(Seeds(T), T)
<1>1. /\ plan \in PlanRequest /\ Accepted(plan) /\ score = <<>> /\ corrections = 0 /\ pass = S - 1
      /\ drawn = [n \in Entries |->
                    IF plan.groups = 0 THEN 0
                    ELSE SnakeGroup(plan, CHOOSE i \in Entries : Seeds(T)[i] = n)]
      /\ standing = [n \in Entries |-> [rank |-> 0, qualified |-> FALSE]]
  BY DEF CompetitionInit
<1>2. IF plan.groups = 0 /\ L # 0 THEN tie = SeededTies(none, draw) /\ leg = SeededLegs(legs, draw)
      ELSE tie = none /\ leg = legs
  BY DEF CompetitionInit
<1>3. /\ T \in Nat /\ T >= 2 /\ S \in Nat /\ S >= 1 /\ S - 1 \in 0..LastGameweek /\ LastGameweek \in Nat
      /\ L \in {0, 1, 2} /\ MaxCorrections \in Nat
      /\ L # 0 => HasBracket /\ KnockoutTeams(plan) >= 2 /\ Rounds = RoundsFor(KnockoutTeams(plan))
  BY <1>1, PlanFacts, CompetitionAssumption
<1>4. StandingsIInv
  <2>1. QualificationFair
    BY <1>1 DEF QualificationFair
  <2> QED
    BY <1>1, <2>1 DEF StandingsIInv, GroupsPlayed, Accepted
<1>5. /\ standing \in [Entries -> [rank : 0..T, qualified : BOOLEAN]]
      /\ corrections \in 0..MaxCorrections
  BY <1>1, <1>3
<1>6. PassFits
  <2>1. pass \in (S - 1)..LastGameweek /\ ~(pass >= S)
    BY <1>1, <1>3
  <2> QED
    BY <1>1, <2>1 DEF PassFits
<1>7. <<0, 0>> \in Sides /\ NoScore \in Scores /\ 0 \in 0..T
  BY <1>3 DEF Sides, NoScore, Scores
<1>8. \A m \in Ties : [sides |-> Unseeded, winner |-> 0] \in TieRow
  BY <1>7 DEF TieRow, Unseeded
<1>9. NoLeg \in LegRow
  BY <1>7 DEF NoLeg, LegRow, Unseeded
<1>10. \A l \in {1, 2} : Swapped(l, Unseeded) = Unseeded
  BY DEF Swapped, Unseeded
<1>11. L # 0 => \A m \in Ties : RoundOf(m) = 1 /\ plan.groups = 0 => draw[m] \in Sides
  <2> SUFFICES ASSUME L # 0, NEW m \in Ties, RoundOf(m) = 1, plan.groups = 0 PROVE draw[m] \in Sides
    OBVIOUS
  <2> DEFINE list == Seeds(T)
             i == SeedOrder[Rounds][2 * m - 1]
             j == SeedOrder[Rounds][2 * m]
  <2>1. Rounds = RoundsFor(T)
    BY <1>3 DEF KnockoutTeams
  <2>2. m \in 1..Places[Rounds - 1]
    BY <1>3, RoundOneIs DEF TiesOf
  <2>3. i \in 1..T /\ j \in 1..Places[Rounds] /\ draw[m] = <<list[i], IF j <= T THEN list[j] ELSE 0>>
    BY <1>3, <2>1, <2>2, PairsOf
  <2>4. list \in [1..T -> 1..T]
    <3>1. \A a \in 1..T : OverallRank[a] \in Int
      BY <1>4, PlanParts DEF Entries
    <3> QED
      BY <1>3, <3>1, SeedsList DEF IsListing
  <2>5. Places[Rounds] \in Nat
    BY <1>3, PlacesGrow DEF HasBracket
  <2> HIDE DEF list, i, j, T, draw
  <2>6. j <= T => j \in 1..T
    BY <1>3, <2>3, <2>5
  <2>7. list[i] \in 0..T /\ (IF j <= T THEN list[j] ELSE 0) \in 0..T
    <3>0. \A y \in 1..T : y \in 0..T
      BY <1>3
    <3>1. \A x \in 1..T : list[x] \in 0..T
      BY <2>4, <3>0
    <3> QED
      BY <1>3, <2>3, <2>6, <3>1
  <2> QED
    BY <2>3, <2>7 DEF Sides, T
<1>12. DrawKept
  <2>1. ASSUME plan.groups = 0, L # 0, NEW m \in TiesOf(1) PROVE tie[m].sides = draw[m]
    <3>1. tie = SeededTies(none, draw) /\ m \in Ties /\ RoundOf(m) = 1
      BY <1>2, <2>1 DEF TiesOf
    <3>2. tie[m] = [none[m] EXCEPT !.sides = draw[m]]
      BY <3>1 DEF SeededTies
    <3>3. none[m] = [sides |-> Unseeded, winner |-> 0]
      BY <3>1
    <3> HIDE DEF none, draw
    <3> QED
      BY <3>2, <3>3
  <2> QED
    BY <1>1, <2>1 DEF DrawKept
<1>13. ASSUME L # 0 PROVE BracketIs(tie, leg, pass)
  <2> DEFINE at(m) == IF plan.groups = 0 /\ RoundOf(m) = 1 THEN draw[m] ELSE Unseeded
  <2>0. L \in {1, 2}
    BY <1>3, <1>13
  <2>1. \A m \in Ties : at(m) \in Sides
    BY <1>7, <1>11, <1>13 DEF Unseeded
  <2>2. tie = [m \in Ties |-> [sides |-> at(m), winner |-> 0]]
    <3>1. \A m \in Ties : [none[m] EXCEPT !.sides = draw[m]] = [sides |-> draw[m], winner |-> 0]
      OBVIOUS
    <3>2. CASE plan.groups = 0
      <4>1. tie = [m \in Ties |-> IF RoundOf(m) = 1 THEN [none[m] EXCEPT !.sides = draw[m]] ELSE none[m]]
        BY <1>2, <1>13, <3>2 DEF SeededTies
      <4> HIDE DEF draw
      <4> QED
        BY <3>1, <3>2, <4>1
    <3>3. CASE plan.groups # 0
      BY <1>2, <3>3
    <3> QED
      BY <3>2, <3>3
  <2>3. leg = [m \in Ties |-> [l \in 1..L |-> [sides |-> Swapped(l, at(m)), got |-> <<NoScore, NoScore>>, winner |-> 0]]]
    <3>0. \A l \in 1..L : l \in {1, 2}
      BY <2>0
    <3>1. NoLeg = [sides |-> Unseeded, got |-> <<NoScore, NoScore>>, winner |-> 0]
      BY DEF NoLeg
    <3>2. \A m \in Ties : \A l \in 1..L :
             [legs[m][l] EXCEPT !.sides = Swapped(l, draw[m])]
               = [sides |-> Swapped(l, draw[m]), got |-> <<NoScore, NoScore>>, winner |-> 0]
      BY <3>1
    <3>3. CASE plan.groups = 0
      <4>1. leg = [m \in Ties |-> [l \in 1..L |-> IF RoundOf(m) = 1 THEN [legs[m][l] EXCEPT !.sides = Swapped(l, draw[m])]
                                                  ELSE legs[m][l]]]
        BY <1>2, <1>13, <3>3 DEF SeededLegs
      <4>2. \A m \in Ties : \A l \in 1..L : legs[m][l] = [sides |-> Swapped(l, Unseeded), got |-> <<NoScore, NoScore>>, winner |-> 0]
        BY <1>10, <3>0, <3>1
      <4> HIDE DEF draw, legs
      <4> QED
        BY <3>2, <3>3, <4>1, <4>2
    <3>4. CASE plan.groups # 0
      BY <1>2, <1>10, <3>0, <3>1, <3>4
    <3> QED
      BY <3>3, <3>4
  <2> HIDE DEF at
  <2>4. BracketTyped(tie, leg)
    <3>1. \A m \in Ties : [sides |-> at(m), winner |-> 0] \in TieRow
      BY <1>7, <2>1 DEF TieRow
    <3>2. \A m \in Ties : \A l \in 1..L :
             [sides |-> Swapped(l, at(m)), got |-> <<NoScore, NoScore>>, winner |-> 0] \in LegRow
      <4>1. \A m \in Ties : \A l \in 1..L : Swapped(l, at(m)) \in Sides
        BY <2>0, <2>1, SwappedIs
      <4> QED
        BY <1>7, <4>1 DEF LegRow
    <3>3. tie \in [Ties -> TieRow]
      BY <2>2, <3>1
    <3>4. leg \in [Ties -> [1..L -> LegRow]]
      BY <2>3, <3>2
    <3> QED
      BY <3>3, <3>4 DEF BracketTyped
  <2>5. LegsFollow(tie, leg)
    BY <2>2, <2>3 DEF LegsFollow
  <2>6. \A m \in Ties : RoundOf(m) \in Nat /\ RoundOf(m) >= 1 /\ (RoundOf(m) > 1 => RoundOf(m) - 1 \in Nat /\ RoundOf(m) - 1 >= 1)
    BY <1>3, <1>13, RoundOfIs DEF HasBracket
  <2>7. \A k \in Nat : k >= 1 => /\ ~(EndOf(k) <= pass)
                                 /\ \A l \in 1..L : ~(EventOf(k, l) <= pass)
    <3>1. HasBracket /\ KnockoutStart(plan) \in Nat /\ pass = KnockoutStart(plan) - 1
      BY <1>1, <1>3, <1>13
    <3> QED
      BY <3>1, EventsStart
  <2>8. Entered(tie, pass) /\ LegsPlayed(leg, pass) /\ RoundsDecided(tie, leg, pass)
    BY <2>6, <2>7 DEF Entered, LegsPlayed, RoundsDecided
  <2> QED
    BY <2>4, <2>5, <2>8 DEF BracketIs
<1> QED
  BY <1>1, <1>4, <1>5, <1>6, <1>12, <1>13 DEF CompetitionIInv

(***************************************************************************)
(* The bracket that the results determine.                                 *)
(***************************************************************************)

\* Points add up event by event.
LEMMA TotalsAdd ==
  ASSUME StandingsIInv, NEW n \in Entries
  PROVE  /\ \A e \in 0..Len(score) : \A i \in 1..3 : Totals[e][n][i] \in Int
         /\ \A e \in 1..Len(score) : \A i \in 1..3 :
               Totals[e][n][i] - Totals[e - 1][n][i] = score[e][n][i]
<1>1. /\ Len(score) \in Nat
      /\ \A e \in 1..Len(score) : \A i \in 1..3 : score[e][n][i] \in Int
  <2>1. /\ Len(score) \in Nat /\ \A e \in 1..Len(score) : score[e] \in ResultsOf(plan.teams)
        /\ \A s \in ResultsOf(plan.teams) : s[n][1] \in Int /\ s[n][2] \in Int /\ s[n][3] \in Int
    BY PlanParts
  <2> SUFFICES ASSUME NEW e \in 1..Len(score), NEW i \in 1..3 PROVE score[e][n][i] \in Int
    BY <2>1
  <2>2. score[e][n][1] \in Int /\ score[e][n][2] \in Int /\ score[e][n][3] \in Int
    BY <2>1
  <2> QED
    BY <2>2
<1>2. \A i \in 1..3 : Totals[0][n][i] \in Int
  <2>1. Totals[0] = [a \in Entries |-> NoScore]
    BY TotalsOf DEF Added
  <2> QED
    BY <2>1 DEF NoScore
<1>3. \A e \in Nat : e # 0 => \A i \in 1..3 : Totals[e][n][i] = Totals[e - 1][n][i] + score[e][n][i]
  <2> SUFFICES ASSUME NEW e \in Nat, e # 0, NEW i \in 1..3
               PROVE  Totals[e][n][i] = Totals[e - 1][n][i] + score[e][n][i]
    OBVIOUS
  <2>1. Totals[e] = [a \in Entries |-> Plus(Totals[e - 1][a], score[e][a])]
    BY TotalsOf DEF Added
  <2>2. Totals[e][n] = Plus(Totals[e - 1][n], score[e][n])
    BY <2>1
  <2> QED
    BY <2>2 DEF Plus
<1>4. \A e \in 0..Len(score) : \A i \in 1..3 : Totals[e][n][i] \in Int
  <2> DEFINE B == {e \in Nat : e <= Len(score) /\ ~\A i \in 1..3 : Totals[e][n][i] \in Int}
  <2>0. \A e \in 0..Len(score) : e \in Nat /\ e <= Len(score)
    BY <1>1
  <2> SUFFICES ASSUME B # {} PROVE FALSE
    BY <2>0
  <2>1. PICK e \in B : \A f \in B : e <= f
    BY LeastOf
  <2>2. e # 0 /\ e \in Nat /\ e \in 1..Len(score)
    BY <1>1, <1>2, <2>1
  <2>3. e - 1 \notin B /\ e - 1 \in Nat /\ e - 1 <= Len(score)
    BY <1>1, <2>1, <2>2
  <2>4. \A i \in 1..3 : Totals[e - 1][n][i] \in Int
    BY <2>3
  <2>5. \A i \in 1..3 : Totals[e][n][i] \in Int
    <3> SUFFICES ASSUME NEW i \in 1..3 PROVE Totals[e][n][i] \in Int
      OBVIOUS
    <3>1. Totals[e][n][i] = Totals[e - 1][n][i] + score[e][n][i]
      BY <1>3, <2>2
    <3>2. Totals[e - 1][n][i] \in Int /\ score[e][n][i] \in Int
      BY <1>1, <2>2, <2>4
    <3> QED
      BY <3>1, <3>2
  <2> QED
    BY <2>1, <2>5
<1>5. ASSUME NEW e \in 1..Len(score), NEW i \in 1..3
      PROVE  Totals[e][n][i] - Totals[e - 1][n][i] = score[e][n][i]
  <2>1. e \in Nat /\ e # 0 /\ e \in 0..Len(score) /\ e - 1 \in 0..Len(score)
    BY <1>1
  <2>2. Totals[e][n][i] = Totals[e - 1][n][i] + score[e][n][i] /\ Totals[e - 1][n][i] \in Int /\ score[e][n][i] \in Int
    BY <1>1, <1>3, <1>4, <2>1
  <2> QED
    BY <2>2
<1> QED
  BY <1>4, <1>5

\* The body of TrueWinner, for the winners f of the earlier ties.
SidesBy(f, m) == IF RoundOf(m) = 1 THEN tie[m].sides ELSE <<f[Feeder(m)], f[Feeder(m) + 1]>>
OverRound(k, n) == IF n = 0 THEN NoScore
                   ELSE [i \in 1..3 |-> Totals[EndOf(k)][n][i] - Totals[EndOf(k - 1)][n][i]]
WinnerBy(f, m) == MatchWinner(SidesBy(f, m), <<OverRound(RoundOf(m), SidesBy(f, m)[1]),
                                               OverRound(RoundOf(m), SidesBy(f, m)[2])>>)

\* There is one function of the ties with the recursion of TrueWinner, since a
\* tie is numbered behind those it is fed by.
LEMMA WinnersExist ==
  ASSUME HasBracket, \A m \in Ties : tie[m].sides[1] \in Nat /\ tie[m].sides[2] \in Nat
  PROVE  \E F : F = [m \in Ties |-> WinnerBy(F, m)]
<1> DEFINE G == [x \in Nat \X [Nat -> Nat] |-> IF x[1] \in Ties THEN WinnerBy(x[2], x[1]) ELSE 0]
<1>1. Ties \in SUBSET Nat /\ \A m \in Ties : RoundOf(m) \in Nat /\ RoundOf(m) >= 1
  <2>1. Places[Rounds] \in Nat
    BY PlacesGrow DEF HasBracket
  <2>2. \A m \in Ties : RoundOf(m) \in Nat /\ RoundOf(m) >= 1
    BY RoundOfIs DEF HasBracket
  <2> QED
    BY <2>1, <2>2 DEF Ties
<1>2. ASSUME NEW m \in Ties, RoundOf(m) # 1
      PROVE  /\ Feeder(m) \in Ties /\ Feeder(m) + 1 \in Ties /\ Feeder(m) \in Nat /\ Feeder(m) + 1 \in Nat
             /\ Feeder(m) < m /\ Feeder(m) + 1 < m
  <2>1. RoundOf(m) > 1
    BY <1>1, <1>2
  <2>2. Feeder(m) \in Ties /\ Feeder(m) + 1 \in Ties /\ Feeder(m) + 1 < m
    BY <2>1, FeederOf
  <2>3. Feeder(m) \in Nat /\ m \in Nat
    BY <1>1, <2>2
  <2>4. Feeder(m) + 1 \in Nat /\ Feeder(m) < m
    BY <2>2, <2>3
  <2> QED
    BY <2>2, <2>3, <2>4
<1>3. ASSUME NEW m \in Ties, NEW f, NEW g,
             RoundOf(m) # 1 => f[Feeder(m)] = g[Feeder(m)] /\ f[Feeder(m) + 1] = g[Feeder(m) + 1]
      PROVE  WinnerBy(f, m) = WinnerBy(g, m)
  <2>1. SidesBy(f, m) = SidesBy(g, m)
    BY <1>3 DEF SidesBy
  <2> QED
    BY <2>1 DEF WinnerBy
<1>4. ASSUME NEW m \in Ties, NEW f \in [Nat -> Nat] PROVE WinnerBy(f, m) \in Nat
  <2>1. SidesBy(f, m)[1] \in Nat /\ SidesBy(f, m)[2] \in Nat
    BY <1>2 DEF SidesBy
  <2>2. \A s, got : MatchWinner(s, got) \in {s[1], s[2]}
    BY DEF MatchWinner
  <2>3. WinnerBy(f, m) \in {SidesBy(f, m)[1], SidesBy(f, m)[2]}
    BY <2>2 DEF WinnerBy
  <2> QED
    BY <2>1, <2>3
<1>5. G \in [Nat \X [Nat -> Nat] -> Nat]
  BY <1>4
<1>6. \A n \in Ties, f \in [Nat -> Nat] : G[<<n, f>>] = WinnerBy(f, n)
  BY <1>1
<1> HIDE DEF G
<1>7. PICK F : Follows(F, Nat, 0, G)
  <2>1. IsRule(Nat, 0, G)
    BY <1>5 DEF IsRule
  <2> QED
    BY <2>1, RecursionExists
<1> DEFINE H == [m \in Ties |-> F[m]]
<1>8. ASSUME NEW m \in Ties PROVE H[m] = WinnerBy(H, m)
  <2> DEFINE below == [i \in Nat |-> IF i < m THEN F[i] ELSE 0]
  <2>1. F \in [Nat -> Nat] /\ F[m] = G[<<m, below>>]
    BY <1>1, <1>7 DEF Follows
  <2>2. below \in [Nat -> Nat]
    BY <2>1
  <2>3. RoundOf(m) # 1 => below[Feeder(m)] = H[Feeder(m)] /\ below[Feeder(m) + 1] = H[Feeder(m) + 1]
    BY <1>2
  <2> HIDE DEF below
  <2>4. F[m] = WinnerBy(below, m)
    BY <1>6, <2>1, <2>2
  <2>5. H[m] = F[m]
    OBVIOUS
  <2> HIDE DEF H
  <2>6. WinnerBy(below, m) = WinnerBy(H, m)
    BY <1>3, <2>3
  <2> QED
    BY <2>4, <2>5, <2>6
<1>9. H = [m \in Ties |-> H[m]]
  OBVIOUS
<1> HIDE DEF H
<1>10. H = [m \in Ties |-> WinnerBy(H, m)]
  BY <1>8, <1>9
<1> QED
  BY <1>10

LEMMA TrueWinnerOf ==
  ASSUME HasBracket, \A m \in Ties : tie[m].sides[1] \in Nat /\ tie[m].sides[2] \in Nat, NEW m \in Ties
  PROVE  TrueWinner[m] = WinnerBy(TrueWinner, m)
<1>1. TrueWinner = CHOOSE F : F = [o \in Ties |-> WinnerBy(F, o)]
  BY DEF TrueWinner, WinnerBy, SidesBy, OverRound, Feeder
<1> HIDE DEF TrueWinner
<1>2. TrueWinner = [o \in Ties |-> WinnerBy(TrueWinner, o)]
  BY <1>1, WinnersExist
<1> QED
  BY <1>2

(***************************************************************************)
(* The winner of the legs is the winner of their totals.                   *)
(***************************************************************************)

AreInts(x) == x[1] \in Int /\ x[2] \in Int /\ x[3] \in Int
Alike(x, y) == x[1] = y[1] /\ x[2] = y[2] /\ x[3] = y[3]

LEMMA PlusIs ==
  ASSUME NEW x, NEW y
  PROVE  Plus(x, y)[1] = x[1] + y[1] /\ Plus(x, y)[2] = x[2] + y[2] /\ Plus(x, y)[3] = x[3] + y[3]
BY DEF Plus

\* The order of resolveMatchWinner is compatible with addition.
LEMMA BeatsAdd ==
  ASSUME NEW a, NEW b, NEW c, NEW d, AreInts(a), AreInts(b), AreInts(c), AreInts(d)
  PROVE  /\ Beats(a, b) /\ Beats(c, d) => Beats(Plus(a, c), Plus(b, d))
         /\ ~Beats(b, a) /\ ~Beats(d, c) => ~Beats(Plus(b, d), Plus(a, c))
         /\ ~(Beats(a, b) /\ Beats(b, a))
<1> DEFINE ac == Plus(a, c)
           bd == Plus(b, d)
<1>1. /\ ac[1] = a[1] + c[1] /\ ac[2] = a[2] + c[2] /\ ac[3] = a[3] + c[3]
      /\ bd[1] = b[1] + d[1] /\ bd[2] = b[2] + d[2] /\ bd[3] = b[3] + d[3]
  BY PlusIs
<1> HIDE DEF ac, bd
<1> SUFFICES /\ Beats(a, b) /\ Beats(c, d) => Beats(ac, bd)
             /\ ~Beats(b, a) /\ ~Beats(d, c) => ~Beats(bd, ac)
             /\ ~(Beats(a, b) /\ Beats(b, a))
  BY DEF ac, bd
<1> QED
  BY <1>1 DEF Beats, AreInts

LEMMA BeatsAlike ==
  ASSUME NEW a, NEW b, NEW c, NEW d, Alike(a, c), Alike(b, d)
  PROVE  Beats(a, b) <=> Beats(c, d)
BY DEF Beats, Alike

LEMMA WinnerAlike ==
  ASSUME NEW s, NEW a, NEW b, NEW c, NEW d, Alike(a, c), Alike(b, d)
  PROVE  MatchWinner(s, <<a, b>>) = MatchWinner(s, <<c, d>>)
<1>1. (Beats(a, b) <=> Beats(c, d)) /\ (Beats(b, a) <=> Beats(d, c))
  BY BeatsAlike
<1> QED
  BY <1>1 DEF MatchWinner

\* An entry that wins both legs has the better total.
LEMMA BothLegsWon ==
  ASSUME NEW i \in Nat, NEW j \in Nat, NEW a, NEW b, NEW c, NEW d,
         AreInts(a), AreInts(b), AreInts(c), AreInts(d),
         MatchWinner(<<i, j>>, <<a, b>>) = MatchWinner(<<j, i>>, <<d, c>>)
  PROVE  MatchWinner(<<i, j>>, <<Plus(a, c), Plus(b, d)>>) = MatchWinner(<<i, j>>, <<a, b>>)
<1>1. \A x \in Nat, y \in Nat : \A u, v :
        MatchWinner(<<x, y>>, <<u, v>>) = IF x = 0 THEN y
                                          ELSE IF y = 0 \/ Beats(u, v) THEN x
                                          ELSE IF Beats(v, u) \/ y < x THEN y ELSE x
  BY DEF MatchWinner
<1> DEFINE ac == Plus(a, c)
           bd == Plus(b, d)
<1>2. /\ Beats(a, b) /\ Beats(c, d) => Beats(ac, bd)
      /\ ~Beats(b, a) /\ ~Beats(d, c) => ~Beats(bd, ac)
      /\ Beats(b, a) /\ Beats(d, c) => Beats(bd, ac)
      /\ ~Beats(a, b) /\ ~Beats(c, d) => ~Beats(ac, bd)
      /\ ~(Beats(a, b) /\ Beats(b, a)) /\ ~(Beats(c, d) /\ Beats(d, c))
  BY BeatsAdd
<1>3. AreInts(ac) /\ AreInts(bd)
  BY PlusIs DEF AreInts
<1> HIDE DEF ac, bd
<1>4. ~(Beats(ac, bd) /\ Beats(bd, ac))
  BY <1>3, BeatsAdd
<1> SUFFICES MatchWinner(<<i, j>>, <<ac, bd>>) = MatchWinner(<<i, j>>, <<a, b>>)
  BY DEF ac, bd
<1>5. /\ MatchWinner(<<i, j>>, <<a, b>>) = IF i = 0 THEN j
                                          ELSE IF j = 0 \/ Beats(a, b) THEN i
                                          ELSE IF Beats(b, a) \/ j < i THEN j ELSE i
      /\ MatchWinner(<<j, i>>, <<d, c>>) = IF j = 0 THEN i
                                          ELSE IF i = 0 \/ Beats(d, c) THEN j
                                          ELSE IF Beats(c, d) \/ i < j THEN i ELSE j
      /\ MatchWinner(<<i, j>>, <<ac, bd>>) = IF i = 0 THEN j
                                          ELSE IF j = 0 \/ Beats(ac, bd) THEN i
                                          ELSE IF Beats(bd, ac) \/ j < i THEN j ELSE i
  BY <1>1
<1> QED
  BY <1>2, <1>4, <1>5

\* The points over a round are those of its legs.
LEMMA OverRoundIs ==
  ASSUME CompetitionIInv, plan.legs # 0, NEW k \in Nat, k >= 1, EndOf(k) <= pass, NEW n \in 0..plan.teams
  PROVE  /\ \A l \in 1..plan.legs : EventOf(k, l) \in 1..Len(score) /\ AreInts(ScoreAt(EventOf(k, l), n))
         /\ plan.legs = 1 => Alike(ScoreAt(EventOf(k, 1), n), OverRound(k, n))
         /\ plan.legs = 2 => Alike(Plus(ScoreAt(EventOf(k, 1), n), ScoreAt(EventOf(k, 2), n)), OverRound(k, n))
<1> DEFINE S == KnockoutStart(plan)
           L == plan.legs
           N == Len(score)
           T == plan.teams
           e == EndOf(k)
           d == EndOf(k - 1)
<1>1. S \in Nat /\ S >= 1 /\ L \in {1, 2} /\ T \in Nat /\ N \in Nat /\ pass \in Nat /\ StandingsIInv
      /\ \A f \in 1..N : \A o \in 0..T : ScoreAt(f, o) \in Scores
  BY InvFacts, PlanFacts DEF HasBracket
<1>2. pass >= S => pass <= N
  BY DEF CompetitionIInv, PassFits
<1>3. \A j, l : EventOf(j, l) = S + (j - 1) * L + l - 1 /\ EndOf(j) = S + j * L - 1
  BY DEF EventOf, EndOf
<1>4. n # 0 => n \in Entries
  BY <1>1 DEF Entries
<1> HIDE DEF S, L, N
<1>5. /\ L = 1 => EventOf(k, 1) = e /\ d = e - 1 /\ e \in 1..N
      /\ L = 2 => EventOf(k, 2) = e /\ EventOf(k, 1) = e - 1 /\ d = e - 2 /\ e \in 1..N /\ e - 1 \in 1..N
  <2>1. ASSUME L = 1 PROVE EventOf(k, 1) = e /\ d = e - 1 /\ e \in 1..N
    <3>1. EventOf(k, 1) = S + k - 1 /\ e = S + k - 1 /\ d = S + k - 2
      BY <1>1, <1>3, <2>1
    <3> QED
      BY <1>1, <1>2, <3>1
  <2>2. ASSUME L = 2 PROVE EventOf(k, 2) = e /\ EventOf(k, 1) = e - 1 /\ d = e - 2 /\ e \in 1..N /\ e - 1 \in 1..N
    <3>1. EventOf(k, 2) = S + 2 * k - 1 /\ e = S + 2 * k - 1 /\ EventOf(k, 1) = S + 2 * k - 2 /\ d = S + 2 * k - 3
      BY <1>1, <1>3, <2>2
    <3> QED
      BY <1>1, <1>2, <3>1
  <2> QED
    BY <2>1, <2>2
<1> HIDE DEF e, d
<1>6. ASSUME NEW l \in 1..L PROVE EventOf(k, l) \in 1..N /\ AreInts(ScoreAt(EventOf(k, l), n))
  <2>1. EventOf(k, l) \in 1..N
    BY <1>1, <1>5
  <2>2. ScoreAt(EventOf(k, l), n) \in Scores
    BY <1>1, <2>1
  <2> QED
    BY <2>1, <2>2 DEF AreInts, Scores
<1>7. CASE n = 0
  <2>1. OverRound(k, n) = <<0, 0, 0>> /\ \A f : ScoreAt(f, n) = <<0, 0, 0>>
    BY <1>7 DEF OverRound, ScoreAt, NoScore
  <2>2. Alike(Plus(<<0, 0, 0>>, <<0, 0, 0>>), <<0, 0, 0>>)
    BY PlusIs DEF Alike
  <2>3. Alike(<<0, 0, 0>>, <<0, 0, 0>>)
    BY DEF Alike
  <2> QED
    BY <1>6, <2>1, <2>2, <2>3 DEF L, N
<1>8. CASE n # 0
  <2>1. OverRound(k, n) = [i \in 1..3 |-> Totals[e][n][i] - Totals[d][n][i]] /\ \A f : ScoreAt(f, n) = score[f][n]
    BY <1>8 DEF OverRound, ScoreAt, e, d
  <2>2. /\ \A f \in 0..N : \A i \in 1..3 : Totals[f][n][i] \in Int
        /\ \A f \in 1..N : \A i \in 1..3 : Totals[f][n][i] - Totals[f - 1][n][i] = score[f][n][i]
    BY <1>1, <1>4, <1>8, TotalsAdd DEF N
  <2>3. \A i \in 1..3 : OverRound(k, n)[i] = Totals[e][n][i] - Totals[d][n][i]
    BY <2>1
  <2>4. ASSUME L = 1 PROVE Alike(ScoreAt(EventOf(k, 1), n), OverRound(k, n))
    <3>1. \A i \in 1..3 : OverRound(k, n)[i] = score[e][n][i]
      BY <1>5, <2>2, <2>3, <2>4
    <3>2. ScoreAt(EventOf(k, 1), n) = score[e][n]
      BY <1>5, <2>1, <2>4
    <3> QED
      BY <3>1, <3>2 DEF Alike
  <2>5. ASSUME L = 2 PROVE Alike(Plus(ScoreAt(EventOf(k, 1), n), ScoreAt(EventOf(k, 2), n)), OverRound(k, n))
    <3>1. e \in 1..N /\ e - 1 \in 1..N /\ d = (e - 1) - 1
      BY <1>1, <1>5, <2>5
    <3>2. e \in 0..N /\ e - 1 \in 0..N /\ d \in 0..N
      BY <1>1, <3>1
    <3>3. \A i \in 1..3 : OverRound(k, n)[i] = score[e - 1][n][i] + score[e][n][i]
      <4> SUFFICES ASSUME NEW i \in 1..3 PROVE OverRound(k, n)[i] = score[e - 1][n][i] + score[e][n][i]
        OBVIOUS
      <4>1. Totals[e][n][i] - Totals[e - 1][n][i] = score[e][n][i]
        BY <2>2, <3>1
      <4>2. Totals[e - 1][n][i] - Totals[d][n][i] = score[e - 1][n][i]
        BY <2>2, <3>1
      <4>3. Totals[e][n][i] \in Int /\ Totals[e - 1][n][i] \in Int /\ Totals[d][n][i] \in Int
        BY <2>2, <3>2
      <4> QED
        BY <2>3, <4>1, <4>2, <4>3
    <3>4. ScoreAt(EventOf(k, 1), n) = score[e - 1][n] /\ ScoreAt(EventOf(k, 2), n) = score[e][n]
      BY <1>5, <2>1, <2>5
    <3> DEFINE x == score[e - 1][n]
               y == score[e][n]
    <3>5. OverRound(k, n)[1] = x[1] + y[1] /\ OverRound(k, n)[2] = x[2] + y[2] /\ OverRound(k, n)[3] = x[3] + y[3]
      BY <3>3
    <3> HIDE DEF x, y
    <3>6. Alike(Plus(x, y), OverRound(k, n))
      BY <3>5, PlusIs DEF Alike
    <3> QED
      BY <3>4, <3>6 DEF x, y
  <2> QED
    BY <1>6, <2>4, <2>5 DEF L, N
<1> QED
  BY <1>7, <1>8

\* resolveRoundWinner gives the round to the better total.
LEMMA RoundToTotals ==
  ASSUME CompetitionIInv, plan.legs # 0, NEW m \in Ties, EndOf(RoundOf(m)) <= pass
  PROVE  RoundWinner(leg[m], tie[m].sides) =
           MatchWinner(tie[m].sides, <<OverRound(RoundOf(m), tie[m].sides[1]), OverRound(RoundOf(m), tie[m].sides[2])>>)
<1> DEFINE k == RoundOf(m)
           L == plan.legs
           s == tie[m].sides
           rows == leg[m]
           i == s[1]
           j == s[2]
<1>1. HasBracket /\ KnockoutStart(plan) \in Nat /\ L \in {1, 2} /\ plan.teams \in Nat /\ pass \in Nat
  BY InvFacts, PlanFacts DEF HasBracket
<1>2. k \in Nat /\ k >= 1
  BY <1>1, RoundOfIs DEF HasBracket
<1>3. BracketIs(tie, leg, pass)
  BY DEF CompetitionIInv
<1>4. s \in Sides /\ s = <<i, j>> /\ i \in 0..plan.teams /\ j \in 0..plan.teams /\ i \in Nat /\ j \in Nat
  <2>1. tie[m] \in TieRow
    BY <1>3 DEF BracketIs, BracketTyped
  <2> QED
    BY <1>1, <2>1 DEF TieRow, Sides
<1>5. \A l \in 1..L : EventOf(k, l) <= pass
  <2> SUFFICES ASSUME NEW l \in 1..L PROVE EventOf(k, l) <= pass
    OBVIOUS
  <2>1. EventOf(k, l) \in 1..Len(score)
    BY <1>2, <1>4, OverRoundIs
  <2>2. EventOf(k, l) = KnockoutStart(plan) + (k - 1) * L + l - 1 /\ EndOf(k) = KnockoutStart(plan) + k * L - 1
    BY DEF EventOf, EndOf
  <2> HIDE DEF k, L
  <2>3. CASE L = 1
    BY <1>1, <1>2, <2>2, <2>3 DEF k
  <2>4. CASE L = 2
    BY <1>1, <1>2, <2>2, <2>4 DEF k
  <2> QED
    BY <1>1, <2>3, <2>4
<1>6. \A l \in 1..L : /\ rows[l] \in LegRow /\ rows[l].sides = Swapped(l, s)
                      /\ rows[l].got = <<ScoreAt(EventOf(k, l), rows[l].sides[1]), ScoreAt(EventOf(k, l), rows[l].sides[2])>>
                      /\ rows[l].winner = MatchWinner(rows[l].sides, rows[l].got)
  <2>1. \A l \in 1..L : PlayedAt(EventOf(k, l), rows[l])
    BY <1>3, <1>5 DEF BracketIs, LegsPlayed
  <2>2. \A l \in 1..L : rows[l] \in LegRow /\ rows[l].sides = Swapped(l, s)
    BY <1>3 DEF BracketIs, BracketTyped, LegsFollow
  <2> QED
    BY <2>1, <2>2 DEF PlayedAt
<1>7. Swapped(1, s) = <<i, j>> /\ Swapped(2, s) = <<j, i>>
  BY <1>4 DEF Swapped
<1>8. \A n \in {i, j} : /\ \A l \in 1..L : AreInts(ScoreAt(EventOf(k, l), n))
                        /\ L = 1 => Alike(ScoreAt(EventOf(k, 1), n), OverRound(k, n))
                        /\ L = 2 => Alike(Plus(ScoreAt(EventOf(k, 1), n), ScoreAt(EventOf(k, 2), n)), OverRound(k, n))
  BY <1>2, <1>4, OverRoundIs
<1> HIDE DEF k, L, s, rows, i, j
<1> DEFINE a == ScoreAt(EventOf(k, 1), i)
           b == ScoreAt(EventOf(k, 1), j)
           c == ScoreAt(EventOf(k, 2), i)
           d == ScoreAt(EventOf(k, 2), j)
<1> SUFFICES RoundWinner(rows, s) = MatchWinner(s, <<OverRound(k, i), OverRound(k, j)>>)
  BY DEF k, L, s, rows, i, j
<1>9. 1 \in 1..L /\ rows[1].sides = <<i, j>> /\ rows[1].got = <<a, b>> /\ rows[1].winner = MatchWinner(<<i, j>>, <<a, b>>)
  <2>1. 1 \in 1..L
    BY <1>1
  <2>2. rows[1].sides = <<i, j>>
    BY <1>6, <1>7, <2>1
  <2>3. rows[1].got = <<ScoreAt(EventOf(k, 1), rows[1].sides[1]), ScoreAt(EventOf(k, 1), rows[1].sides[2])>>
        /\ rows[1].winner = MatchWinner(rows[1].sides, rows[1].got)
    BY <1>6, <2>1
  <2> QED
    BY <2>1, <2>2, <2>3
<1>10. CASE L = 1
  <2>1. RoundWinner(rows, s) = MatchWinner(s, <<a, b>>)
    BY <1>4, <1>9, <1>10 DEF RoundWinner, L
  <2>2. Alike(a, OverRound(k, i)) /\ Alike(b, OverRound(k, j))
    BY <1>8, <1>10
  <2> HIDE DEF a, b
  <2> QED
    BY <2>1, <2>2, WinnerAlike
<1>11. CASE L = 2
  <2>1. rows[2].sides = <<j, i>> /\ rows[2].got = <<d, c>> /\ rows[2].winner = MatchWinner(<<j, i>>, <<d, c>>)
    <3>1. 2 \in 1..L
      BY <1>11
    <3>2. rows[2].sides = <<j, i>>
      BY <1>6, <1>7, <3>1
    <3>3. rows[2].got = <<ScoreAt(EventOf(k, 2), rows[2].sides[1]), ScoreAt(EventOf(k, 2), rows[2].sides[2])>>
          /\ rows[2].winner = MatchWinner(rows[2].sides, rows[2].got)
      BY <1>6, <3>1
    <3> QED
      BY <3>2, <3>3
  <2>2. AreInts(a) /\ AreInts(b) /\ AreInts(c) /\ AreInts(d)
    BY <1>8, <1>11
  <2>3. Alike(Plus(a, c), OverRound(k, i)) /\ Alike(Plus(b, d), OverRound(k, j))
    BY <1>8, <1>11
  <2>4. OverLegs(rows, i) = Plus(a, c) /\ OverLegs(rows, j) = Plus(b, d)
    <3>1. \A n : OverLegs(rows, n) = Plus(IF i = n THEN a ELSE IF j = n THEN b ELSE NoScore,
                                          IF j = n THEN d ELSE IF i = n THEN c ELSE NoScore)
      <4> HIDE DEF a, b, c, d
      <4> QED
        BY <1>9, <1>11, <2>1 DEF OverLegs, L
    <3>2. i = j => a = b /\ c = d
      OBVIOUS
    <3> HIDE DEF a, b, c, d
    <3>3. OverLegs(rows, i) = Plus(a, c)
      BY <3>1, <3>2
    <3>4. OverLegs(rows, j) = Plus(b, d)
      BY <3>1, <3>2
    <3> QED
      BY <3>3, <3>4
  <2> HIDE DEF a, b, c, d
  <2> DEFINE W == {rows[1].winner, rows[2].winner} \ {0}
             total == MatchWinner(s, <<Plus(a, c), Plus(b, d)>>)
  <2>5. RoundWinner(rows, s) = IF Cardinality(W) = 1 THEN CHOOSE w \in W : TRUE ELSE total
    <3>1. {rows[l].winner : l \in 1..plan.legs} = {rows[1].winner, rows[2].winner}
      <4>1. 1..plan.legs = {1, 2}
        BY <1>11 DEF L
      <4> QED
        BY <4>1
    <3>2. OverLegs(rows, s[1]) = Plus(a, c) /\ OverLegs(rows, s[2]) = Plus(b, d)
      BY <2>4 DEF i, j
    <3> QED
      BY <1>11, <3>1, <3>2 DEF RoundWinner, L
  <2>6. total = MatchWinner(s, <<OverRound(k, i), OverRound(k, j)>>)
    BY <2>3, WinnerAlike
  <2>7. ASSUME Cardinality(W) = 1 PROVE (CHOOSE w \in W : TRUE) = total
    <3>1. IsFiniteSet(W)
      <4>1. IsFiniteSet({rows[1].winner} \cup {rows[2].winner})
        BY FS_Singleton, FS_AddElement
      <4>2. W = ({rows[1].winner} \cup {rows[2].winner}) \ {0}
        OBVIOUS
      <4> QED
        BY <4>1, <4>2, FS_RemoveElement
    <3>2. PICK w : W = {w}
      BY <2>7, <3>1, FS_Singleton
    <3>3. (CHOOSE x \in W : TRUE) = w /\ w \in W
      BY <3>2
    <3>4. w # 0 /\ w \in {rows[1].winner, rows[2].winner}
      BY <3>3
    <3>5. <<j, i>> \in Sides
      BY <1>4 DEF Sides
    <3>6. /\ rows[1].winner \in {i, j} /\ (s # Unseeded => rows[1].winner # 0)
          /\ rows[2].winner \in {i, j} /\ (<<j, i>> # Unseeded => rows[2].winner # 0)
      <4>1. \A got : MatchWinner(s, got) \in {s[1], s[2]} /\ (s # Unseeded => MatchWinner(s, got) # 0)
        BY <1>4, MatchWinnerIs
      <4>2. \A got : MatchWinner(<<j, i>>, got) \in {j, i} /\ (<<j, i>> # Unseeded => MatchWinner(<<j, i>>, got) # 0)
        BY <3>5, MatchWinnerIs
      <4> QED
        BY <1>4, <1>9, <2>1, <4>1, <4>2
    <3>7. i # 0 \/ j # 0
      BY <3>4, <3>6
    <3>8. s # Unseeded /\ <<j, i>> # Unseeded
      BY <1>4, <3>7 DEF Unseeded
    <3>9. rows[1].winner = w /\ rows[2].winner = w
      BY <3>2, <3>6, <3>8
    <3> HIDE DEF W
    <3>10. MatchWinner(<<i, j>>, <<Plus(a, c), Plus(b, d)>>) = MatchWinner(<<i, j>>, <<a, b>>)
      BY <1>4, <1>9, <2>1, <2>2, <3>9, BothLegsWon
    <3> QED
      BY <1>4, <1>9, <3>3, <3>9, <3>10
  <2> HIDE DEF W, total
  <2> QED
    BY <2>5, <2>6, <2>7
<1> QED
  BY <1>1, <1>10, <1>11

\* The first tie whose stored winner is not the one its results determine
\* would have the right sides and the right results.
LEMMA BracketFollows == ASSUME CompetitionIInv PROVE BracketFollowsResults
<1>1. plan.legs = 0 => Ties = {}
  BY PlacesGrow DEF Ties, Rounds
<1> DEFINE B == {m \in Ties : EndOf(RoundOf(m)) <= pass /\ tie[m].winner # TrueWinner[m]}
<1> SUFFICES ASSUME B # {} PROVE FALSE
  BY DEF BracketFollowsResults
<1>2. plan.legs # 0
  BY <1>1
<1>3. HasBracket /\ KnockoutStart(plan) \in Nat /\ plan.teams \in Nat /\ pass \in Nat
  BY <1>2, InvFacts, PlanFacts
<1>4. B \in SUBSET Nat
  <2>1. Places[Rounds] \in Nat
    BY <1>3, PlacesGrow DEF HasBracket
  <2> QED
    BY <2>1 DEF Ties
<1>5. PICK m \in B : \A o \in B : m <= o
  <2> HIDE DEF B
  <2> QED
    BY <1>4, LeastOf
<1> DEFINE k == RoundOf(m)
           s == tie[m].sides
<1>6. m \in Ties /\ EndOf(k) <= pass /\ tie[m].winner # TrueWinner[m] /\ m \in Nat
  BY <1>4, <1>5
<1>7. BracketIs(tie, leg, pass)
  BY <1>2 DEF CompetitionIInv
<1>8. \A o \in Ties : tie[o].sides[1] \in Nat /\ tie[o].sides[2] \in Nat
  <2>1. \A o \in Ties : tie[o] \in TieRow
    BY <1>7 DEF BracketIs, BracketTyped
  <2>2. \A n \in 0..plan.teams : n \in Nat
    BY <1>3
  <2> QED
    BY <2>1, <2>2 DEF TieRow, Sides
<1>9. k \in Nat /\ k >= 1
  BY <1>3, <1>6, RoundOfIs DEF HasBracket
<1>10. SidesBy(TrueWinner, m) = s
  <2>1. CASE k = 1
    BY <2>1 DEF SidesBy
  <2>2. CASE k # 1
    <3>1. k > 1 /\ k - 1 \in Nat /\ k - 1 >= 1
      BY <1>9, <2>2
    <3> DEFINE f == Feeder(m)
    <3>2. f \in Ties /\ RoundOf(f) = k - 1 /\ f + 1 \in Ties /\ RoundOf(f + 1) = k - 1 /\ f + 1 < m
      BY <1>3, <1>6, <3>1, FeederOf
    <3>3. EndOf(k - 1) <= pass
      <4>1. /\ EndOf(k) = KnockoutStart(plan) + k * plan.legs - 1
            /\ EndOf(k - 1) = KnockoutStart(plan) + (k - 1) * plan.legs - 1
        BY DEF EndOf
      <4> HIDE DEF k
      <4>2. CASE plan.legs = 1
        BY <1>3, <1>6, <1>9, <4>1, <4>2
      <4>3. CASE plan.legs = 2
        BY <1>3, <1>6, <1>9, <4>1, <4>3
      <4> QED
        BY <1>3, <4>2, <4>3 DEF HasBracket
    <3> HIDE DEF f
    <3>4. f \notin B /\ f + 1 \notin B
      <4>1. f \in Nat /\ f + 1 \in Nat
        <5>1. Places[Rounds] \in Nat
          BY <1>3, PlacesGrow DEF HasBracket
        <5> QED
          BY <3>2, <5>1 DEF Ties
      <4>2. ~(m <= f) /\ ~(m <= f + 1)
        BY <1>6, <3>2, <4>1
      <4> HIDE DEF B
      <4> QED
        BY <1>5, <4>2
    <3>5. tie[f].winner = TrueWinner[f] /\ tie[f + 1].winner = TrueWinner[f + 1]
      BY <3>2, <3>3, <3>4
    <3>6. s = <<tie[f].winner, tie[f + 1].winner>>
      BY <1>6, <1>7, <3>1, <3>3 DEF BracketIs, Entered, f
    <3>7. SidesBy(TrueWinner, m) = <<TrueWinner[f], TrueWinner[f + 1]>>
      BY <2>2 DEF SidesBy, f
    <3> QED
      BY <3>5, <3>6, <3>7
  <2> QED
    BY <2>1, <2>2
<1>11. TrueWinner[m] = MatchWinner(s, <<OverRound(k, s[1]), OverRound(k, s[2])>>)
  <2>1. TrueWinner[m] = WinnerBy(TrueWinner, m)
    BY <1>3, <1>6, <1>8, TrueWinnerOf
  <2> QED
    BY <1>10, <2>1 DEF WinnerBy
<1>12. tie[m].winner = RoundWinner(leg[m], s)
  BY <1>6, <1>7 DEF BracketIs, RoundsDecided
<1>13. RoundWinner(leg[m], s) = MatchWinner(s, <<OverRound(k, s[1]), OverRound(k, s[2])>>)
  BY <1>2, <1>6, RoundToTotals
<1> QED
  BY <1>6, <1>11, <1>12, <1>13

\* The inductive invariant implies the competition's invariant.
LEMMA InvHolds == ASSUME CompetitionIInv PROVE CompetitionInv
<1>1. DrawFair /\ drawn \in [Entries -> 0..plan.groups]
  BY DrawIsFair
<1>2. PlanFits /\ QualificationFair
  BY DEF CompetitionIInv, StandingsIInv, GroupsPlayed, PlanFits, FitsSeason
<1>3. \A e \in DOMAIN score : score[e] \in ResultsOf(plan.teams)
  <2>1. score \in Seq(ResultsOf(plan.teams))
    BY DEF CompetitionIInv, StandingsIInv, GroupsPlayed
  <2> QED
    BY <2>1
<1>4. ASSUME NEW m \in Ties
      PROVE  tie[m].sides[1] \in 0..plan.teams /\ tie[m].sides[2] \in 0..plan.teams /\ tie[m].winner \in 0..plan.teams
  <2>1. plan.legs # 0
    BY PlacesGrow DEF Ties, Rounds
  <2>2. tie[m] \in TieRow
    BY <2>1 DEF CompetitionIInv, BracketIs, BracketTyped
  <2> QED
    BY <2>2 DEF TieRow, Sides
<1>5. pass \in 0..LastGameweek
  <2>1. pass \in (KnockoutStart(plan) - 1)..LastGameweek
    BY DEF CompetitionIInv, PassFits
  <2> QED
    BY <2>1, InvFacts, PlanFacts
<1>6. CompetitionTypeOK
  BY <1>1, <1>3, <1>4, <1>5 DEF CompetitionTypeOK, CompetitionIInv
<1> QED
  BY <1>1, <1>2, <1>6, BracketFollows DEF CompetitionInv

\* For every plan, every results and ranks, corrections and orders of syncs: the
\* draw is fair for every number of teams (buildBracketSeedOrder,
\* seedBracketEntries, buildGroupRows), the standings are fair, every leg falls
\* into the season, and as soon as the events have been synced in order since
\* the last correction the stored bracket is the one the results determine,
\* whatever was synced before it in whatever order (syncKnockoutForTournament,
\* resolveRoundWinner).
THEOREM CompetitionInvHolds == CompetitionSpec => []CompetitionInv
<1>1. CompetitionInit => CompetitionIInv
  BY CompetitionStarts
<1>2. CompetitionIInv /\ [CompetitionNext]_competitionVars => CompetitionIInv'
  BY CompetitionStep
<1>3. CompetitionIInv => CompetitionInv
  BY InvHolds
<1> QED
  BY <1>1, <1>2, <1>3, PTL DEF CompetitionSpec
=============================================================================
