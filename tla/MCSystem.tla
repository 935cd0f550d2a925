------------------------------- MODULE MCSystem -------------------------------
(***************************************************************************)
(* Two groups of three.  The first is full, the second still lacks teams:  *)
(* who completes the draw, and does the group stage follow?                *)
(***************************************************************************)
EXTENDS TournamentSystem

CONSTANTS w1, w2

MCTeam == 1..6
MCNameOf == [t \in MCTeam |-> t]
MCGroupId == 1..2
MCScores == {}
MCTieToVisitor == {}
\* A match somebody makes by hand: the group stage takes no notice of it.
MCManual == {Fixture("r16", 1, 4)}

MCStart(gs, evts) ==
  [groups |-> gs, heap |-> [i \in DOMAIN gs |-> i], matches |-> <<>>,
   teamEvents |-> evts, scoreEvents |-> 0]

\* Group 2 lacks two teams; the announcement of its first team is queued.
MCTwoMissing ==
  {MCStart(<<<<2, 3, 1>>, <<4>>>>, <<[group |-> 2, team |-> 4]>>)}
==============================================================================
