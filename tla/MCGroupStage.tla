----------------------------- MODULE MCGroupStage -----------------------------
(***************************************************************************)
(* Two full groups of three whose last announcements are still queued: the *)
(* creation of the group stage, its results and the round of 16.           *)
(***************************************************************************)
EXTENDS MatchProgression

MCTeam == 1..6
MCNameOf == [t \in MCTeam |-> t]
MCGroupId == 1..2
MCDraw == <<<<2, 3, 1>>, <<5, 6, 4>>>>

MCScores == {<<1, 0>>, <<0, 2>>}
MCTieToVisitor == {}

MCStart(ms, teamEvts, scoreEvts) ==
  [groups |-> MCDraw, heap |-> <<1, 2>>, matches |-> ms,
   teamEvents |-> teamEvts, scoreEvents |-> scoreEvts]

MCEvents == <<[group |-> 1, team |-> 1], [group |-> 2, team |-> 4]>>

MCStarts == {MCStart(<<>>, MCEvents, 0)}

\* Every group match won by the home team, the last score not yet consumed.
MCPlayed == [k \in ToSet(CreateRegularPhaseMatches(MCDraw)) |-> ScoredResult(k, <<1, 0>>)]
MCPlayedStarts == {MCStart(MCPlayed, <<>>, 1)}
==============================================================================
