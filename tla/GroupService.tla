---------------------------- MODULE GroupService ----------------------------
(***************************************************************************)
(* GroupDelegate in the API.  A worker serves one request at a             *)
(* time, and each repository call is a transaction of its own: what one    *)
(* call read may be stale when the next one writes.  Every check of a      *)
(* request is on what it read, never in the statement that writes.         *)
(*                                                                         *)
(* A request refused before it read anything another worker can change is  *)
(* not a step.                                                             *)
(***************************************************************************)
EXTENDS TournamentStore

CONSTANTS Worker,             \* HTTP threads, of however many processes
          Ops,                \* the operations clients use
          Registered,         \* teams that exist in the teams table
          Payloads,           \* team lists of batch and create requests
          SendMayFail,        \* may SendMessage throw?
          RequestsMayAbort    \* may a repository call throw, or the process die?

OpNames == {"create", "add", "batch", "rename", "remove"}

ASSUME GroupServiceAssumption ==
  /\ GroupId \subseteq Nat \ {0}
  /\ IsFiniteSet(Worker) /\ Worker # {}
  /\ Ops \subseteq OpNames
  /\ Registered \subseteq Team
  /\ Payloads \subseteq Seq(Team)
  /\ SendMayFail \in BOOLEAN /\ RequestsMayAbort \in BOOLEAN

VARIABLE req   \* what each worker is doing

NoGroup == 0

\* group and teams are the request's parameters, at the team it has come to,
\* seen the team list of the group as the request read it.
Request ==
  [op    : OpNames \cup {"none"},
   pc    : {"idle", "check", "write", "publish"},
   group : GroupId \cup {NoGroup},
   teams : Seq(Team),
   at    : Nat,
   seen  : Seq(Team)]

NoRequest ==
  [op |-> "none", pc |-> "idle", group |-> NoGroup, teams |-> <<>>, at |-> 1, seen |-> <<>>]

Begin(w, op, pc, g, ts, seen) ==
  req' = [req EXCEPT ![w] =
            [op |-> op, pc |-> pc, group |-> g, teams |-> ts, at |-> 1, seen |-> seen]]

Finish(w) == req' = [req EXCEPT ![w] = NoRequest]

Accepts(w, op) == op \in Ops /\ req[w].pc = "idle"

At(w, op, pc) == req[w].op = op /\ req[w].pc = pc

Current(w) == req[w].teams[req[w].at]

\* The next team of the list, or the first one again in the next phase.
NextTeam(w, phase) ==
  IF req[w].at < Len(req[w].teams)
  THEN req' = [req EXCEPT ![w].at = @ + 1]
  ELSE req' = [req EXCEPT ![w].at = 1, ![w].pc = phase]

---------------------------------------------------------------------------
\* AddTeamToGroup

BeginAdd(w, g, t) ==
  /\ Accepts(w, "add")
  /\ g \in DOMAIN groups
  /\ t \in Registered
  /\ Begin(w, "add", "check", g, <<t>>, groups[g])
  /\ UNCHANGED store

\* Mutation: nobody asks whether the team is in a group already.
CheckAddNotDuplicate(w) ==
  /\ At(w, "add", "check")
  /\ IF Len(req[w].seen) >= MaxTeamsPerGroup
     THEN Finish(w)
     ELSE req' = [req EXCEPT ![w].pc = "write"]
  /\ UNCHANGED store

\* Mutation: a full group is taken for one with a place left.
CheckAddOffByOne(w) ==
  /\ At(w, "add", "check")
  /\ IF TeamInTournament(Current(w)) \/ Len(req[w].seen) > MaxTeamsPerGroup
     THEN Finish(w)
     ELSE req' = [req EXCEPT ![w].pc = "write"]
  /\ UNCHANGED store

\* The team must be in no group now; the group was not full when it was read.
CheckAdd(w) ==
  /\ At(w, "add", "check")
  /\ IF TeamInTournament(Current(w)) \/ Len(req[w].seen) >= MaxTeamsPerGroup
     THEN Finish(w)
     ELSE req' = [req EXCEPT ![w].pc = "write"]
  /\ UNCHANGED store

WriteAdd(w) ==
  /\ At(w, "add", "write")
  /\ UpdateGroupAddTeam(req[w].group, Current(w))
  /\ req' = [req EXCEPT ![w].pc = "publish"]
  /\ UNCHANGED <<matches, teamEvents, scoreEvents>>

\* Mutation: the event is built after the request has been given up.
PublishTeamAddLate(w) ==
  /\ At(w, "add", "publish")
  /\ Finish(w)
  /\ teamEvents' = Append(teamEvents, [group |-> req'[w].group, team |-> Current(w)])
  /\ UNCHANGED <<groups, heap, matches, scoreEvents>>

PublishTeamAdd(w) ==
  /\ At(w, "add", "publish")
  /\ teamEvents' = Append(teamEvents, [group |-> req[w].group, team |-> Current(w)])
  /\ Finish(w)
  /\ UNCHANGED <<groups, heap, matches, scoreEvents>>

\* The exception of SendMessage leaves the handler; the team stays.
FailToPublish(w) ==
  /\ SendMayFail
  /\ At(w, "add", "publish")
  /\ Finish(w)
  /\ UNCHANGED store

---------------------------------------------------------------------------
\* UpdateTeams: all checks first, then one statement for each team; no event

\* Mutation: one free place is enough for the whole list.
BeginBatchOnePlace(w, g, ts) ==
  /\ Accepts(w, "batch")
  /\ g \in DOMAIN groups
  /\ ts # <<>>
  /\ Len(groups[g]) < MaxTeamsPerGroup
  /\ Begin(w, "batch", "check", g, ts, groups[g])
  /\ UNCHANGED store

BeginBatch(w, g, ts) ==
  /\ Accepts(w, "batch")
  /\ g \in DOMAIN groups
  /\ ts # <<>>
  /\ Len(groups[g]) + Len(ts) <= MaxTeamsPerGroup
  /\ Begin(w, "batch", "check", g, ts, groups[g])
  /\ UNCHANGED store

CheckBatch(w) ==
  /\ At(w, "batch", "check")
  /\ IF TeamInTournament(Current(w)) THEN Finish(w) ELSE NextTeam(w, "write")
  /\ UNCHANGED store

\* A team that does not exist ends the request; the ones before it stay.
WriteBatch(w) ==
  /\ At(w, "batch", "write")
  /\ IF Current(w) \in Registered
     THEN UpdateGroupAddTeam(req[w].group, Current(w)) ELSE UNCHANGED <<groups, heap>>
  /\ IF Current(w) \in Registered /\ req[w].at < Len(req[w].teams)
     THEN NextTeam(w, "write") ELSE Finish(w)
  /\ UNCHANGED <<matches, teamEvents, scoreEvents>>

---------------------------------------------------------------------------
\* CreateGroup: no event either

\* The database draws a new id; one that nothing refers to is as good as new.
Fresh(g) ==
  /\ g \notin DOMAIN groups
  /\ \A w \in Worker : req[w].group # g
  /\ \A i \in DOMAIN teamEvents : teamEvents[i].group # g

BeginCreate(w, g, ts) ==
  /\ Accepts(w, "create")
  /\ Fresh(g)
  /\ Len(ts) <= MaxTeamsPerGroup
  /\ Begin(w, "create", IF ts = <<>> THEN "write" ELSE "check", g, ts, <<>>)
  /\ UNCHANGED store

CheckCreate(w) ==
  /\ At(w, "create", "check")
  /\ IF Current(w) \notin Registered \/ TeamInTournament(Current(w))
     THEN Finish(w) ELSE NextTeam(w, "write")
  /\ UNCHANGED store

WriteCreate(w) ==
  /\ At(w, "create", "write")
  /\ InsertGroup(req[w].group, req[w].teams)
  /\ Finish(w)
  /\ UNCHANGED <<matches, teamEvents, scoreEvents>>

---------------------------------------------------------------------------
\* UpdateGroup (rename) and RemoveGroup

BeginRename(w, g) ==
  /\ Accepts(w, "rename")
  /\ g \in DOMAIN groups
  /\ Begin(w, "rename", "write", g, <<>>, groups[g])
  /\ UNCHANGED store

\* Mutation: the document that goes back has a name only.
WriteRenameNameOnly(w) ==
  /\ At(w, "rename", "write")
  /\ IF req[w].group \in DOMAIN groups
     THEN WriteGroup(req[w].group, <<>>) ELSE UNCHANGED <<groups, heap>>
  /\ Finish(w)
  /\ UNCHANGED <<matches, teamEvents, scoreEvents>>

\* The whole document goes back, the team list that was read included.
WriteRename(w) ==
  /\ At(w, "rename", "write")
  /\ IF req[w].group \in DOMAIN groups
     THEN WriteGroup(req[w].group, req[w].seen) ELSE UNCHANGED <<groups, heap>>
  /\ Finish(w)
  /\ UNCHANGED <<matches, teamEvents, scoreEvents>>

BeginRemove(w, g) ==
  /\ Accepts(w, "remove")
  /\ g \in DOMAIN groups
  /\ Begin(w, "remove", "write", g, <<>>, <<>>)
  /\ UNCHANGED store

WriteRemove(w) ==
  /\ At(w, "remove", "write")
  /\ DeleteGroup(req[w].group)
  /\ Finish(w)
  /\ UNCHANGED <<matches, teamEvents, scoreEvents>>

---------------------------------------------------------------------------
\* A repository call throws, or the process dies, between two calls.
Abort(w) ==
  /\ RequestsMayAbort
  /\ req[w].pc # "idle"
  /\ Finish(w)
  /\ UNCHANGED store

GroupServiceInit == req = [w \in Worker |-> NoRequest]

BeginRequest(w) ==
  \/ \E g \in GroupId, t \in Registered : BeginAdd(w, g, t)
  \/ \E g \in GroupId, ts \in Payloads : BeginBatch(w, g, ts) \/ BeginCreate(w, g, ts)
  \/ \E g \in GroupId : BeginRename(w, g) \/ BeginRemove(w, g)

ServeRequest(w) ==
  \/ CheckAdd(w) \/ WriteAdd(w) \/ PublishTeamAdd(w) \/ FailToPublish(w)
  \/ CheckBatch(w) \/ WriteBatch(w)
  \/ CheckCreate(w) \/ WriteCreate(w)
  \/ WriteRename(w) \/ WriteRemove(w)

GroupServiceNext == \E w \in Worker : BeginRequest(w) \/ ServeRequest(w) \/ Abort(w)

\* A request that has begun is served to its end.
GroupServiceFairness == \A w \in Worker : WF_<<store, req>>(ServeRequest(w))
==============================================================================
