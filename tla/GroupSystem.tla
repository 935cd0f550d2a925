----------------------------- MODULE GroupSystem -----------------------------
(***************************************************************************)
(* GroupService on its own: concurrent requests on the groups of one       *)
(* tournament, and the announcements they leave in tournament.team-add     *)
(* (nothing consumes them here; MaxTeamEvents bounds them).                *)
(***************************************************************************)
EXTENDS GroupService

CONSTANTS InitialHeap,   \* the empty groups there are at the start, in row order
          MaxTeamEvents

ASSUME GroupSystemAssumption ==
  /\ InitialHeap \in Seq(GroupId)
  /\ \A i, j \in DOMAIN InitialHeap : InitialHeap[i] = InitialHeap[j] => i = j
  /\ MaxTeamEvents \in Nat

vars == <<store, req>>

Init ==
  /\ groups = [g \in ToSet(InitialHeap) |-> <<>>]
  /\ heap = InitialHeap
  /\ matches = <<>>
  /\ teamEvents = <<>>
  /\ scoreEvents = 0
  /\ GroupServiceInit

Next == GroupServiceNext /\ Len(teamEvents') <= MaxTeamEvents

Spec == Init /\ [][Next]_vars

---------------------------------------------------------------------------
\* Groups, queue and requests stay within their types (this module and the
\* ones it extends).
TypeOK == StoreTypeOK /\ req \in [Worker -> Request]

\* However the checks of AddTeamToGroup are overtaken, a group exceeds its
\* capacity by less than the number of workers: each of them adds at most one
\* team on the strength of a list it read while there was room.
OvershootBounded ==
  \A g \in DOMAIN groups :
    Len(groups[g]) <= MaxTeamsPerGroup - 1 + Cardinality(Worker)

\* tournament.team-add is only published for a team that is in the group, as
\* long as the group exists: the event follows the commit.
AnnouncedTeamsStored ==
  \A i \in DOMAIN teamEvents :
    LET e == teamEvents[i]
    IN  e.group \in DOMAIN groups => e.team \in ToSet(groups[e.group])

\* "Team ... already exists in tournament" and "Group is full": no team is
\* twice in the tournament, and no group holds more than its capacity.
OneGroupPerTeam ==
  \A g, h \in DOMAIN groups :
    \A i \in DOMAIN groups[g], j \in DOMAIN groups[h] :
      groups[g][i] = groups[h][j] => g = h /\ i = j

CapacityRespected == \A g \in DOMAIN groups : Len(groups[g]) <= MaxTeamsPerGroup

\* A team leaves a group only with the group: renaming changes the name.
TeamsStay ==
  [][\A g \in DOMAIN groups \cap DOMAIN groups' :
       ToSet(groups[g]) \subseteq ToSet(groups'[g])]_vars
==============================================================================
