--------------------------- MODULE WorldCupStrategy ---------------------------
(***************************************************************************)
(* The fixture generator of the tournament: which group-stage matches a    *)
(* complete set of groups needs, and which knockout matches the results    *)
(* stored so far allow.  Both are pure functions of what the consumer read *)
(* from the database, so this module has no variables.                     *)
(*                                                                         *)
(* A team is its id.  NameOf is the name its group document holds, a       *)
(* number in the order of the names: CreateGroup stores the names that the *)
(* client sent, so two teams of a group may share one.                     *)
(* A group is the sequence of its teams, a match table is a function from  *)
(* match keys to results: the unique index of the matches table makes      *)
(* (round, home, visitor) a key.                                           *)
(***************************************************************************)
EXTENDS Integers, Sequences, FiniteSets, FiniteSetsExt, SequencesExt

CONSTANTS Team, NameOf

ASSUME TeamAssumption == Team \subseteq Nat \ {0} /\ NameOf \in [Team -> Nat]

Rounds == {"group", "r16", "qf", "sf", "final"}
KnockoutRounds == Rounds \ {"group"}

NoTeam == 0

\* The identity of a match row.
MatchKey == [round : Rounds, home : Team, visitor : Team]
Fixture(r, h, v) == [round |-> r, home |-> h, visitor |-> v]

\* What scoring leaves in a match document; winner is winnerTeamId.
Result == [home : Nat, visitor : Nat, winner : Team \cup {NoTeam}]
NoResult == [home |-> 0, visitor |-> 0, winner |-> NoTeam]

HasScore(ms, k) == ms[k] # NoResult

---------------------------------------------------------------------------
\* Standings

\* The winner the strategy sees: it reads the goals, never winnerTeamId.
WinnerOf(ms, k) ==
  CASE ms[k].home > ms[k].visitor -> k.home
    [] ms[k].home < ms[k].visitor -> k.visitor
    [] OTHER -> NoTeam

InGroup(g, k) == {k.home, k.visitor} \subseteq ToSet(g)

\* The scored group matches counted in the table of the i-th group: the
\* first group that holds both teams takes the match.
GroupMatches(ms, groups, i) ==
  {k \in DOMAIN ms : /\ k.round = "group" /\ HasScore(ms, k)
                     /\ InGroup(groups[i], k)
                     /\ \A j \in 1..(i - 1) : ~InGroup(groups[j], k)}

\* A team's own goals in one of its matches; below, the ones of its opponent.
GoalsOf(ms, k, t) == IF k.home = t THEN ms[k].home ELSE ms[k].visitor

\* Mutation: what a team concedes away from home is read from its own goals.
GoalsAgainstOwn(ms, k, t) == IF k.home = t THEN ms[k].visitor ELSE ms[k].visitor

GoalsAgainst(ms, k, t) == IF k.home = t THEN ms[k].visitor ELSE ms[k].home

TableRow(ms, played, t) ==
  LET own == {k \in played : t \in {k.home, k.visitor}}
  IN  [team   |-> t,
       points |-> 3 * Cardinality({k \in own : WinnerOf(ms, k) = t}),
       gf     |-> MapThenSumSet(LAMBDA k : GoalsOf(ms, k, t), own),
       ga     |-> MapThenSumSet(LAMBDA k : GoalsAgainst(ms, k, t), own)]

GoalDifference(row) == row.gf - row.ga

\* Mutation: the criteria without the tests for a difference before them.
BetterUnguarded(a, b) ==
  \/ a.points > b.points
  \/ GoalDifference(a) > GoalDifference(b)
  \/ a.gf > b.gf
  \/ NameOf[a.team] < NameOf[b.team]

\* Mutation: goals decide before points.
BetterByGoals(a, b) ==
  \/ a.gf > b.gf
  \/ a.gf = b.gf /\ a.points > b.points
  \/ a.gf = b.gf /\ a.points = b.points /\ NameOf[a.team] < NameOf[b.team]

Better(a, b) ==
  \/ a.points > b.points
  \/ a.points = b.points /\ GoalDifference(a) > GoalDifference(b)
  \/ a.points = b.points /\ GoalDifference(a) = GoalDifference(b) /\ a.gf > b.gf
  \/ /\ a.points = b.points /\ GoalDifference(a) = GoalDifference(b) /\ a.gf = b.gf
     /\ NameOf[a.team] < NameOf[b.team]

Rows(ms, played, ts) == {TableRow(ms, played, t) : t \in ts}

Standings(ms, groups, i) == Rows(ms, GroupMatches(ms, groups, i), ToSet(groups[i]))

\* The row std::sort puts first, and the two teams that go through.  Of rows
\* that are equal but for the id one stands first, always the same: nothing
\* more is promised.
Leader(rows) == CHOOSE a \in rows : \A b \in rows \ {a} : ~Better(b, a)
TwoBest(rows) == <<Leader(rows).team, Leader(rows \ {Leader(rows)}).team>>
TopTwo(ms, groups, i) == TwoBest(Standings(ms, groups, i))

---------------------------------------------------------------------------
\* Group stage

\* Mutation: a group of three counts as too small.
RegularPhaseErrorOffByOne(groups) ==
  groups = <<>> \/ \E i \in DOMAIN groups : Len(groups[i]) <= 3

RegularPhaseError(groups) == groups = <<>> \/ \E i \in DOMAIN groups : Len(groups[i]) < 3

\* Home is the team listed first in the group.
RoundRobin(ts) ==
  FlattenSeq([i \in DOMAIN ts |->
                [d \in 1..(Len(ts) - i) |-> Fixture("group", ts[i], ts[i + d])]])

\* Mutation: one round robin over all teams.
CreateRegularPhaseMatchesUngrouped(groups) == RoundRobin(FlattenSeq(groups))

CreateRegularPhaseMatches(groups) ==
  FlattenSeq([i \in DOMAIN groups |-> RoundRobin(groups[i])])

---------------------------------------------------------------------------
\* Knockout

\* Mutation: the size of a full group of four is asked for.
PlayoffErrorFullGroups(groups) ==
  Len(groups) % 2 # 0 \/ \E i \in DOMAIN groups : Cardinality(ToSet(groups[i])) < 4

PlayoffError(groups) ==
  Len(groups) % 2 # 0 \/ \E i \in DOMAIN groups : Cardinality(ToSet(groups[i])) < 2

\* The groups meet in pairs A, B: first of A against second of B, then first
\* of B against second of A.
Crossed(a, b) == <<Fixture("r16", a[1], b[2]), Fixture("r16", b[1], a[2])>>

R16Pairs(ms, groups) ==
  FlattenSeq([p \in 1..(Len(groups) \div 2) |->
                Crossed(TopTwo(ms, groups, 2 * p - 1), TopTwo(ms, groups, 2 * p))])

\* Mutation: a stored match counts whether it is decided or not.
CompleteUndecided(ms, pairs) == \A i \in DOMAIN pairs : pairs[i] \in DOMAIN ms

\* Every pair has a stored match that somebody won.
Complete(ms, pairs) ==
  \A i \in DOMAIN pairs : pairs[i] \in DOMAIN ms /\ WinnerOf(ms, pairs[i]) # NoTeam

Winners(ms, pairs) == [i \in DOMAIN pairs |-> WinnerOf(ms, pairs[i])]

\* Winners 0-1, 2-3, ... meet in the next round.
NextRound(r, winners) ==
  [i \in 1..(Len(winners) \div 2) |-> Fixture(r, winners[2 * i - 1], winners[2 * i])]

\* The composition of the quarter-finals reads eight winners whenever the
\* round of 16 is complete, however many there are.
ReadsPastWinners(ms, groups) ==
  /\ ~PlayoffError(groups)
  /\ Len(groups) < 8
  /\ Complete(ms, R16Pairs(ms, groups))

\* Mutation: quarter-finals only from more than eight winners.
QuarterFinalsOffByOne(ms, r16) ==
  IF Complete(ms, r16) /\ Len(r16) > 8
  THEN NextRound("qf", SubSeq(Winners(ms, r16), 1, 8)) ELSE <<>>

QuarterFinals(ms, r16) ==
  IF Complete(ms, r16) /\ Len(r16) >= 8
  THEN NextRound("qf", SubSeq(Winners(ms, r16), 1, 8)) ELSE <<>>

\* The round a complete one makes.  When ReadsPastWinners holds and the read
\* survives, no quarter-final is found under the garbage ids: no pairs here.
Following(r, ms, pairs) ==
  IF pairs # <<>> /\ Complete(ms, pairs) THEN NextRound(r, Winners(ms, pairs)) ELSE <<>>

\* The proposals: each later round only once the earlier one is complete.
FromSemiFinals(ms, sf) == sf \o Following("final", ms, sf)

FromQuarterFinals(ms, qf) == FromSemiFinals(ms, Following("sf", ms, qf))

FromRoundOf16(ms, r16) ==
  r16 \o (IF Len(r16) = 8 THEN QuarterFinals(ms, r16) ELSE <<>>)
      \o FromQuarterFinals(ms, QuarterFinals(ms, r16))

CreatePlayoffMatches(ms, groups) == FromRoundOf16(ms, R16Pairs(ms, groups))
==============================================================================
