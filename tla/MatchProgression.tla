--------------------------- MODULE MatchProgression ---------------------------
(***************************************************************************)
(* From full groups to the final: the match routes of tournament_services  *)
(* and the consumer process, joined by the matches table and the two       *)
(* queues.  The groups do not change here (GroupService changes them).     *)
(***************************************************************************)
EXTENDS MatchService, MatchConsumer

CONSTANTS Starts,        \* the shared states a behaviour may begin in
          EagerScoring,  \* may a match be scored while the fixtures of its
                         \* group stage are still being inserted?
          MaxScoreEvents \* bound on queued match.score-recorded messages

ASSUME MatchProgressionAssumption == EagerScoring \in BOOLEAN /\ MaxScoreEvents \in Nat

\* A start is a state of the two tables and the two queues; all have one draw.
ASSUME StartsAssumption ==
  /\ Starts # {}
  /\ \A s \in Starts :
       /\ DOMAIN s.groups \subseteq GroupId
       /\ \A g \in DOMAIN s.groups : s.groups[g] \in Seq(Team)
       /\ s.heap \in Seq(DOMAIN s.groups)
       /\ IsFiniteSet(DOMAIN s.matches) /\ DOMAIN s.matches \subseteq MatchKey
       /\ \A k \in DOMAIN s.matches : s.matches[k] \in Result
       /\ s.teamEvents \in Seq(TeamEvent) /\ s.scoreEvents \in Nat
  /\ \A s, u \in Starts : s.groups = u.groups /\ s.heap = u.heap

vars == <<store, publishing, listeners, faults>>

Init ==
  /\ \E s \in Starts :
       /\ groups = s.groups
       /\ heap = s.heap
       /\ matches = s.matches
       /\ teamEvents = s.teamEvents
       /\ scoreEvents = s.scoreEvents
  /\ MatchServiceInit
  /\ ConsumerInit

MatchStep ==
  /\ MatchServiceNext
  /\ scoreEvents' + publishing' <= MaxScoreEvents
  /\ EagerScoring \/ teamListener.pc # "inserting" \/ UNCHANGED matches
  /\ UNCHANGED listeners

ConsumerStep == ConsumerNext /\ UNCHANGED publishing

Next == MatchStep \/ ConsumerStep

Spec == Init /\ [][Next]_vars

FairSpec == Spec /\ MatchServiceFairness /\ ConsumerFairness

---------------------------------------------------------------------------
\* The tables, the queues and the two threads' local states stay within their
\* types (all modules under this one).
TypeOK ==
  /\ StoreTypeOK
  /\ ConsumerTypeOK
  /\ publishing \in 0..PatchWorkers

\* The groups never change: they are the draw of the cup.
Draw == LET s == CHOOSE s \in Starts : TRUE
        IN  [i \in DOMAIN s.heap |-> s.groups[s.heap[i]]]

Cup == INSTANCE KnockoutCup

\* Seen through the matches table alone the system is the knockout cup: what
\* CreateKnockoutMatches proposed from a snapshot is still right when it is
\* inserted, however many scores, faults and other inserts came in between.
RefinesCup == Cup!Spec

\* The rounds whose winners a later round is made of.
Successor == [r16 |-> "qf", qf |-> "sf", sf |-> "final"]

RoundMatches(r) == {k \in DOMAIN matches : k.round = r}

\* A round of the size the bracket prescribes with every match decided.
RoundSize == [r16 |-> 8, qf |-> 4, sf |-> 2, final |-> 1]

RoundDecided(r) ==
  /\ Cardinality(RoundMatches(r)) = RoundSize[r]
  /\ \A k \in RoundMatches(r) : WinnerOf(matches, k) # NoTeam

\* A decided round is followed by the whole next round once one score event is
\* on its way and nothing fails any more, whatever was lost, half inserted or
\* cut off before (MatchDelegate::ProcessScoreUpdate repairs: it computes every
\* missing match of the bracket anew).
NextRoundFollows ==
  \A r \in DOMAIN Successor :
    (RoundDecided(r) /\ FaultsOver /\ scoreEvents + publishing > 0)
    ~> Cardinality(RoundMatches(Successor[r])) = RoundSize[Successor[r]]

\* A match that has been scored has a winnerTeamId, whatever the score, and
\* the score event is there "so the consumer can advance the tournament": a
\* round that is played is followed by the next one.
PlayedRoundAdvances ==
  \A r \in DOMAIN Successor :
    (/\ Cardinality(RoundMatches(r)) = RoundSize[r]
     /\ \A k \in RoundMatches(r) : matches[k].winner # NoTeam)
    ~> Cardinality(RoundMatches(Successor[r])) = RoundSize[Successor[r]]

\* No knockout match exists while a fixture of the group stage is missing or
\* open (MatchDelegate::AllGroupMatchesPlayed).
GroupFixtures == ToSet(CreateRegularPhaseMatches(Draw))

KnockoutAfterGroupStage ==
  Knockout # {} => \A k \in GroupFixtures : k \in DOMAIN matches /\ HasScore(matches, k)

\* A listener that was cut off while it inserted the group stage leaves a part of
\* it, and the part is all the consumer knows of: no knockout match exists while
\* a stored group match is open, whatever failed (AllGroupMatchesPlayed).
KnockoutAfterStoredStage ==
  Knockout # {} => \A k \in GroupStage : HasScore(matches, k)

\* The teams that meet are the ones the API shows as winners: every team of a
\* later round is the recorded winnerTeamId of a match of the round before.
RecordedWinnersAdvance ==
  \A r \in DOMAIN Successor : \A k \in RoundMatches(Successor[r]) :
    {k.home, k.visitor} \subseteq {matches[m].winner : m \in RoundMatches(r)}

\* Single elimination: no team is in two matches of one knockout round.
OneMatchPerRound ==
  \A k, m \in Knockout :
    k.round = m.round /\ {k.home, k.visitor} \cap {m.home, m.visitor} # {} => k = m

\* Full groups with no fixture yet and an announcement in the queue get their
\* whole group stage once nothing fails any more (MatchDelegate::
\* ProcessTeamAddition), however events and the other listener interleave.
GroupStageFollows ==
  (Ready(AllGroups) /\ teamEvents # <<>> /\ GroupStage = {} /\ FaultsOver)
  ~> (GroupFixtures \subseteq DOMAIN matches)

\* The group stage is inserted in order and never with a gap: whatever fails and
\* however often the listener is called, the stored group fixtures are the first
\* ones of the list (the exception of MatchRepository::Create ends the loop).
GroupStageInOrder ==
  LET fixtures == CreateRegularPhaseMatches(Draw)
  IN  \E n \in 0..Len(fixtures) : GroupStage = ToSet(SubSeq(fixtures, 1, n))

\* The played group stage opens the round of 16 once one score event is on its
\* way and nothing fails any more.
RoundOf16Follows ==
  (/\ GroupFixtures \subseteq DOMAIN matches
   /\ \A k \in GroupStage : HasScore(matches, k)
   /\ FaultsOver /\ scoreEvents + publishing > 0)
  ~> (ToSet(R16Pairs(matches, Draw)) \subseteq DOMAIN matches)

\* Composing the quarter-finals never reads a winner that is not there,
\* whatever even number of groups the tournament has.
NoReadPastWinners ==
  ~(scoreListener.pc = "composing" /\ ReadsPastWinners(matches, scoreListener.seen))
==============================================================================
