------------------------------ MODULE MCBracket ------------------------------
(***************************************************************************)
(* Eight groups of three, the group stage played in every one of them: the *)
(* full bracket, from the last group result to the final.                  *)
(***************************************************************************)
EXTENDS MatchProgression

MCTeam == 1..24
\* Two teams that stay level in the eighth group share a name.
MCNameOf == [t \in MCTeam |-> IF t = 24 THEN 22 ELSE t]
MCGroupId == 1..8
MCDraw == [g \in MCGroupId |-> <<3 * g - 2, 3 * g - 1, 3 * g>>]

MCScores == {<<1, 0>>}
MCDraws == {<<1, 1>>}
MCTieToVisitor == {}

\* Three kinds of group: won by strength, three teams level on points and
\* told apart by goal difference, and all drawn, told apart by goals and name.
GroupScore(i, k) ==
  LET last == k.visitor % 3 = 0 /\ k.home % 3 = 1
  IN  CASE i % 3 = 0 -> <<1, 0>>
        [] i % 3 = 1 -> IF last THEN <<0, 1>> ELSE IF k.home % 3 = 1 THEN <<2, 0>> ELSE <<1, 0>>
        [] i % 3 = 2 -> IF last THEN <<1, 1>> ELSE <<0, 0>>

MCPlayed ==
  [k \in ToSet(CreateRegularPhaseMatches(MCDraw)) |->
     ScoredResult(k, GroupScore((k.home + 2) \div 3, k))]

MCStarts ==
  {[groups |-> MCDraw, heap |-> [i \in 1..8 |-> i], matches |-> MCPlayed,
    teamEvents |-> <<>>, scoreEvents |-> 1]}
==============================================================================
