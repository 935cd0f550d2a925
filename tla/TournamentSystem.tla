--------------------------- MODULE TournamentSystem ---------------------------
(***************************************************************************)
(* The whole system: group requests and match requests in the API, the     *)
(* consumer process, the database and the two queues.                      *)
(***************************************************************************)
EXTENDS GroupService, MatchService, MatchConsumer

CONSTANTS Starts,         \* the shared states a behaviour may begin in
          MaxScoreEvents, \* bound on queued match.score-recorded messages
          MaxTeamEvents   \* bound on queued tournament.team-add messages

ASSUME TournamentSystemAssumption == MaxScoreEvents \in Nat /\ MaxTeamEvents \in Nat

\* A start is a state of the two tables and the two queues; a SELECT returns each
\* group row once.
ASSUME StartsAssumption ==
  \A s \in Starts :
    /\ DOMAIN s.groups \subseteq GroupId
    /\ \A g \in DOMAIN s.groups : s.groups[g] \in Seq(Team)
    /\ s.heap \in Seq(DOMAIN s.groups) /\ ToSet(s.heap) = DOMAIN s.groups
    /\ IsInjective(s.heap)
    /\ IsFiniteSet(DOMAIN s.matches) /\ DOMAIN s.matches \subseteq MatchKey
    /\ \A k \in DOMAIN s.matches : s.matches[k] \in Result
    /\ s.teamEvents \in Seq(TeamEvent) /\ s.scoreEvents \in Nat

vars == <<store, req, publishing, listeners, faults>>

Init ==
  /\ \E s \in Starts :
       /\ groups = s.groups
       /\ heap = s.heap
       /\ matches = s.matches
       /\ teamEvents = s.teamEvents
       /\ scoreEvents = s.scoreEvents
  /\ GroupServiceInit
  /\ MatchServiceInit
  /\ ConsumerInit

GroupStep ==
  /\ GroupServiceNext
  /\ Len(teamEvents') <= MaxTeamEvents
  /\ UNCHANGED <<publishing, listeners, faults>>

MatchStep ==
  /\ MatchServiceNext
  /\ scoreEvents' + publishing' <= MaxScoreEvents
  /\ UNCHANGED <<req, listeners>>

ConsumerStep == ConsumerNext /\ UNCHANGED <<req, publishing>>

Next == GroupStep \/ MatchStep \/ ConsumerStep

Spec == Init /\ [][Next]_vars

FairSpec == Spec /\ GroupServiceFairness /\ MatchServiceFairness /\ ConsumerFairness

---------------------------------------------------------------------------
\* Tables, queues, requests and listeners stay within their types (every
\* module of the system).
TypeOK ==
  /\ StoreTypeOK
  /\ ConsumerTypeOK
  /\ req \in [Worker -> Request]
  /\ publishing \in 0..PatchWorkers

GroupFixtures == ToSet(CreateRegularPhaseMatches(AllGroups))

\* Every group is full, and of different teams (a team that two racing
\* requests put into a group twice makes the insertion of fixtures abort).
DrawComplete == Ready(AllGroups) /\ \A i \in DOMAIN AllGroups : IsInjective(AllGroups[i])

\* A complete draw that stays complete gets its whole group stage: the team
\* that completed it was announced after it was stored, so the listener that
\* gets the message sees every group full (MatchDelegate::ProcessTeamAddition).
CompleteDrawGetsFixtures ==
  DrawComplete ~> (GroupFixtures \subseteq DOMAIN matches \/ ~DrawComplete)

\* Fixtures are only drawn between teams of one group.
FixturesWithinGroups ==
  \A k \in GroupStage : \E g \in DOMAIN groups : {k.home, k.visitor} \subseteq ToSet(groups[g])
==============================================================================
