---------------------------- MODULE MatchDocument ----------------------------
(***************************************************************************)
(* The JSON document of a match row.  Round and teams are the key of the   *)
(* row and never change; status, score, winnerTeamId and decidedBy are the *)
(* fields that scoring sets.  All but the status are optional: a field     *)
(* without a value is not in the document.                                 *)
(***************************************************************************)
EXTENDS WorldCupStrategy

CONSTANT TieToVisitor   \* the ties pickDeterministicWinner gives to the visitor

ASSUME TieAssumption == TieToVisitor \subseteq MatchKey

NoScore == <<>>

\* domain::Match as it is constructed, and as from_json leaves what is absent
Unset == [status |-> "pending", score |-> NoScore, winnerTeamId |-> NoTeam, decidedBy |-> ""]

\* to_doc_string, and to_json for the clients
ToDocument(m) ==
  [f \in {g \in DOMAIN Unset : g = "status" \/ m[g] # Unset[g]} |-> m[f]]

FromDocument(d) == [f \in DOMAIN Unset |-> IF f \in DOMAIN d THEN d[f] ELSE Unset[f]]

NewDocument == ToDocument(Unset)

PickDeterministicWinner(k) == IF k \in TieToVisitor THEN k.visitor ELSE k.home

WinnerTeamId(k, s) ==
  CASE s[1] > s[2] -> k.home
    [] s[2] > s[1] -> k.visitor
    [] OTHER -> PickDeterministicWinner(k)

\* Mutation: only a tie says how it was decided.
WithScoreTieOnly(m, k, s) ==
  [m EXCEPT !.score = s, !.winnerTeamId = WinnerTeamId(k, s), !.status = "played",
            !.decidedBy = IF s[1] = s[2] THEN "randomTieBreak" ELSE @]

\* Mutation: the match stays pending.
WithScorePending(m, k, s) ==
  [m EXCEPT !.score = s, !.winnerTeamId = WinnerTeamId(k, s),
            !.decidedBy = IF s[1] = s[2] THEN "randomTieBreak" ELSE "regularTime"]

WithScore(m, k, s) ==
  [m EXCEPT !.score = s, !.winnerTeamId = WinnerTeamId(k, s), !.status = "played",
            !.decidedBy = IF s[1] = s[2] THEN "randomTieBreak" ELSE "regularTime"]

\* What UpdateScore makes of the document d of match k.
Rescored(d, k, s) == ToDocument(WithScore(FromDocument(d), k, s))

\* What the strategy reads of a match.
ResultOf(m) ==
  IF m.score = NoScore THEN NoResult
  ELSE [home |-> m.score[1], visitor |-> m.score[2], winner |-> m.winnerTeamId]

\* The matches GET lists; any filter but these two lists all of them.
Listed(documents, showMatches) ==
  {k \in DOMAIN documents :
     showMatches \in {"played", "pending"}
       => ((FromDocument(documents[k]).status = "played") <=> (showMatches = "played"))}
==============================================================================
