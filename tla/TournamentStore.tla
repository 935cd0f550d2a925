--------------------------- MODULE TournamentStore ---------------------------
(***************************************************************************)
(* What the processes of the system share: the groups and matches tables   *)
(* of one tournament and the two message queues.  The repositories'        *)
(* statements are operators here; each runs in a transaction of its own,   *)
(* so each is one atomic effect.                                           *)
(***************************************************************************)
EXTENDS WorldCupStrategy

CONSTANTS GroupId,           \* ids a group row can have
          NumberOfGroups,    \* the tournament's format
          MaxTeamsPerGroup,
          RowsMove           \* may writing a group row change its place in the
                             \* result of the unordered SELECT?

ASSUME FormatAssumption ==
  /\ NumberOfGroups \in Nat
  /\ MaxTeamsPerGroup \in Nat
  /\ RowsMove \in BOOLEAN

VARIABLES groups,       \* id of a group row -> the teams of its document
          heap,         \* the order in which a SELECT returns the group rows
          matches,      \* match key -> result
          teamEvents,   \* queue tournament.team-add, oldest first
          scoreEvents   \* number of messages in queue match.score-recorded

store == <<groups, heap, matches, teamEvents, scoreEvents>>

TeamEvent == [group : GroupId, team : Team]

StoreTypeOK ==
  /\ DOMAIN groups \subseteq GroupId
  /\ \A g \in DOMAIN groups : groups[g] \in Seq(Team)
  /\ heap \in Seq(GroupId)
  /\ DOMAIN matches \subseteq MatchKey
  /\ \A k \in DOMAIN matches : matches[k] \in Result
  /\ teamEvents \in Seq(TeamEvent)
  /\ scoreEvents \in Nat

---------------------------------------------------------------------------
\* Group rows

\* FindByTournamentId: the groups in the order the database returns them.
AllGroups == [i \in DOMAIN heap |-> groups[heap[i]]]

\* FindByTournamentIdAndTeamId
TeamInTournament(t) == \E g \in DOMAIN groups : t \in ToSet(groups[g])

\* Mutation: jsonb_set at index -1 replaces the last element.
WithTeamReplacing(ts, t) ==
  IF ts = <<>> THEN <<t>> ELSE SubSeq(ts, 1, Len(ts) - 1) \o <<t>>

\* jsonb_insert at index -1 puts the new element before the last one.
WithTeam(ts, t) ==
  IF ts = <<>> THEN <<t>>
  ELSE SubSeq(ts, 1, Len(ts) - 1) \o <<t, ts[Len(ts)]>>

Placements(order, g) == {InsertAt(order, i, g) : i \in 1..(Len(order) + 1)}

Others(g) ==
  IF Contains(heap, g) THEN RemoveAt(heap, CHOOSE i \in DOMAIN heap : heap[i] = g) ELSE heap

InsertGroup(g, ts) ==
  /\ groups' = [x \in DOMAIN groups \cup {g} |-> IF x = g THEN ts ELSE groups[x]]
  /\ heap' \in IF RowsMove THEN Placements(heap, g) ELSE {Append(heap, g)}

WriteGroup(g, ts) ==
  /\ groups' = [groups EXCEPT ![g] = ts]
  /\ heap' \in IF RowsMove THEN Placements(Others(g), g) ELSE {heap}

\* An UPDATE of a deleted row changes nothing and reports no error.
UpdateGroupAddTeam(g, t) ==
  IF g \in DOMAIN groups THEN WriteGroup(g, WithTeam(groups[g], t))
                         ELSE UNCHANGED <<groups, heap>>

DeleteGroup(g) ==
  /\ groups' = [x \in DOMAIN groups \ {g} |-> groups[x]]
  /\ heap' = Others(g)

---------------------------------------------------------------------------
\* Match rows

\* The INSERT fails on the unique index when the key is already stored.
InsertMatch(k) ==
  matches' = [x \in DOMAIN matches \cup {k} |-> IF x = k THEN NoResult ELSE matches[x]]

WriteResult(k, r) == matches' = [matches EXCEPT ![k] = r]

GroupStage == {k \in DOMAIN matches : k.round = "group"}
Knockout   == {k \in DOMAIN matches : k.round \in KnockoutRounds}
==============================================================================
