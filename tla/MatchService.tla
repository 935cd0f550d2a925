----------------------------- MODULE MatchService -----------------------------
(***************************************************************************)
(* The part of tournament_services behind the match routes: recording a    *)
(* score (PATCH) and creating a match by hand (POST).                      *)
(*                                                                         *)
(* A PATCH commits the result first and publishes match.score-recorded     *)
(* afterwards, outside any transaction; the request may die in between,    *)
(* and every error of the publication is swallowed.                        *)
(***************************************************************************)
EXTENDS Faults, MatchDocument

CONSTANTS Scores,           \* the <<home, visitor>> goals a PATCH may carry
          Corrections,      \* may a played match be scored again?
          ManualMatches,    \* keys somebody may create through the API
          PatchWorkers      \* bound on PATCH requests between commit and publish

ASSUME MatchServiceAssumption ==
  /\ Scores \subseteq (0..10) \X (0..10)
  /\ Corrections \in BOOLEAN
  /\ ManualMatches \subseteq {k \in MatchKey : k.home # k.visitor}
  /\ PatchWorkers \in Nat

VARIABLE publishing   \* PATCH requests that have committed and not published

\* Mutation: the comparison of the goals is the wrong way round.
ScoredResultSwapped(k, s) ==
  [home |-> s[1], visitor |-> s[2], winner |-> WinnerTeamId(k, <<s[2], s[1]>>)]

\* What the strategy will read of the match once it is scored; MatchDocument
\* has the whole document.
ScoredResult(k, s) == ResultOf(WithScore(Unset, k, s))

UpdateScore(k, s) ==
  /\ publishing < PatchWorkers
  /\ k \in DOMAIN matches
  /\ Corrections \/ ~HasScore(matches, k)
  /\ WriteResult(k, ScoredResult(k, s))
  /\ publishing' = publishing + 1
  /\ UNCHANGED <<groups, heap, teamEvents, scoreEvents, faults>>

PublishScoreRecorded ==
  /\ publishing > 0
  /\ publishing' = publishing - 1
  /\ scoreEvents' = scoreEvents + 1
  /\ UNCHANGED <<groups, heap, matches, teamEvents, faults>>

\* The error is logged and the response is 204 all the same; a crash of the
\* process at this point has the same effect on what is shared.
LoseScoreRecorded ==
  /\ Fault
  /\ publishing > 0
  /\ publishing' = publishing - 1
  /\ UNCHANGED store

\* POST: teams need not be in the tournament, only differ from each other.
CreateMatch(k) ==
  /\ k \in ManualMatches \ DOMAIN matches
  /\ InsertMatch(k)
  /\ UNCHANGED <<groups, heap, teamEvents, scoreEvents, publishing, faults>>

MatchServiceInit == publishing = 0

MatchServiceNext ==
  \/ \E k \in DOMAIN matches, s \in Scores : UpdateScore(k, s)
  \/ PublishScoreRecorded
  \/ LoseScoreRecorded
  \/ \E k \in ManualMatches : CreateMatch(k)

\* A request that has committed goes on to publish.
MatchServiceFairness == WF_publishing(PublishScoreRecorded)
==============================================================================
