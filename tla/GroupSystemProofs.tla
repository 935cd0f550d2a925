--------------------------- MODULE GroupSystemProofs ---------------------------
(***************************************************************************)
(* For any number of workers, groups and teams: the types of GroupSystem,  *)
(* how far the capacity check of AddTeamToGroup can be overtaken, and that *)
(* a team that was announced stays in its group as long as nobody renames  *)
(* the group.  For requests served one at a time: what the checks are for. *)
(***************************************************************************)
EXTENDS GroupSystem, FiniteSetTheorems, SequenceTheorems, TLAPS

---------------------------------------------------------------------------
\* Sequences

LEMMA WithTeamType ==
  ASSUME NEW ts \in Seq(Team), NEW t \in Team
  PROVE  WithTeam(ts, t) \in Seq(Team) /\ Len(WithTeam(ts, t)) = Len(ts) + 1
<1>1. CASE ts = <<>>
  BY <1>1 DEF WithTeam
<1>2. CASE ts # <<>>
  <2> DEFINE n     == Len(ts) - 1
             front == SubSeq(ts, 1, n)
             back  == <<t, ts[Len(ts)]>>
  <2>1. Len(ts) \in Nat /\ Len(ts) # 0 /\ Len(ts) \in DOMAIN ts
    BY <1>2, EmptySeq, LenProperties
  <2>2. ts[Len(ts)] \in Team /\ \A i \in 1..n : ts[i] \in Team
    BY <2>1, ElementOfSeq
  <2>3. n \in Nat /\ Len(ts) = n + 1
    BY <2>1
  <2> HIDE DEF n
  <2>4. front \in Seq(Team) /\ Len(front) = IF 1 <= n THEN n - 1 + 1 ELSE 0
    BY <2>2, <2>3, SubSeqProperties
  <2>5. back \in Seq(Team) /\ Len(back) = 2
    BY <2>2
  <2>6. front \o back \in Seq(Team) /\ Len(front \o back) = n + 2
    BY <2>3, <2>4, <2>5, ConcatProperties
  <2> QED
    BY <1>2, <2>3, <2>6 DEF WithTeam, n
<1> QED
  BY <1>1, <1>2

LEMMA PlacementsType ==
  ASSUME NEW order \in Seq(GroupId), NEW g \in GroupId
  PROVE  Placements(order, g) \subseteq Seq(GroupId)
<1> SUFFICES ASSUME NEW i \in 1..(Len(order) + 1)
             PROVE  InsertAt(order, i, g) \in Seq(GroupId)
  BY DEF Placements
<1>1. Len(order) \in Nat /\ <<g>> \in Seq(GroupId)
  BY LenProperties
<1>2. SubSeq(order, 1, i - 1) \in Seq(GroupId) /\ SubSeq(order, i, Len(order)) \in Seq(GroupId)
  BY <1>1, SubSeqProperties
<1> QED
  BY <1>1, <1>2, ConcatProperties DEF InsertAt

LEMMA OthersType ==
  ASSUME heap \in Seq(GroupId), NEW g
  PROVE  Others(g) \in Seq(GroupId)
<1>1. CASE Contains(heap, g)
  <2> DEFINE i == CHOOSE i \in DOMAIN heap : heap[i] = g
  <2>1. i \in DOMAIN heap
    BY <1>1, LenProperties DEF Contains
  <2>2. Len(heap) \in Nat /\ i \in 1..Len(heap)
    BY <2>1, LenProperties
  <2> HIDE DEF i
  <2>3. \A j \in 1..Len(heap) : heap[j] \in GroupId
    BY ElementOfSeq
  <2>4. SubSeq(heap, 1, i - 1) \in Seq(GroupId)
    BY <2>2, <2>3, SubSeqProperties
  <2>5. SubSeq(heap, i + 1, Len(heap)) \in Seq(GroupId)
    BY <2>2, <2>3, SubSeqProperties
  <2>6. RemoveAt(heap, i) \in Seq(GroupId)
    BY <2>4, <2>5, ConcatProperties DEF RemoveAt
  <2> QED
    BY <1>1, <2>6 DEF Others, i
<1> QED
  BY <1>1 DEF Others

---------------------------------------------------------------------------
\* What the statements of the repository leave in the groups table
GroupsTypeOK ==
  /\ DOMAIN groups \subseteq GroupId
  /\ \A g \in DOMAIN groups : groups[g] \in Seq(Team)
  /\ heap \in Seq(GroupId)

LEMMA InsertGroupType ==
  ASSUME GroupsTypeOK, NEW g \in GroupId, NEW ts \in Seq(Team), InsertGroup(g, ts)
  PROVE  GroupsTypeOK'
<1>1. heap' \in Placements(heap, g) \/ heap' = Append(heap, g)
  BY FormatAssumption DEF InsertGroup
<1>2. heap' \in Seq(GroupId)
  BY <1>1, PlacementsType, AppendProperties DEF GroupsTypeOK
<1> QED
  BY <1>2 DEF InsertGroup, GroupsTypeOK

LEMMA WriteGroupType ==
  ASSUME GroupsTypeOK, NEW g \in DOMAIN groups, NEW ts \in Seq(Team), WriteGroup(g, ts)
  PROVE  GroupsTypeOK' /\ DOMAIN groups' = DOMAIN groups
<1>1. heap' \in Placements(Others(g), g) \/ heap' = heap
  BY FormatAssumption DEF WriteGroup
<1>2. heap' \in Seq(GroupId)
  BY <1>1, PlacementsType, OthersType DEF GroupsTypeOK
<1> QED
  BY <1>2 DEF WriteGroup, GroupsTypeOK

LEMMA UpdateGroupAddTeamType ==
  ASSUME GroupsTypeOK, NEW g \in GroupId, NEW t \in Team, UpdateGroupAddTeam(g, t)
  PROVE  GroupsTypeOK' /\ DOMAIN groups' = DOMAIN groups
<1>1. CASE g \in DOMAIN groups
  <2>1. WithTeam(groups[g], t) \in Seq(Team)
    BY <1>1, WithTeamType DEF GroupsTypeOK
  <2> QED
    BY <1>1, <2>1, WriteGroupType DEF UpdateGroupAddTeam
<1>2. CASE g \notin DOMAIN groups
  BY <1>2 DEF UpdateGroupAddTeam, GroupsTypeOK
<1> QED
  BY <1>1, <1>2

LEMMA DeleteGroupType ==
  ASSUME GroupsTypeOK, NEW g \in GroupId, DeleteGroup(g)
  PROVE  GroupsTypeOK'
<1>1. heap' \in Seq(GroupId)
  BY OthersType DEF GroupsTypeOK, DeleteGroup
<1> QED
  BY <1>1 DEF DeleteGroup, GroupsTypeOK

---------------------------------------------------------------------------
\* Requests.  An add request names one registered team, which is why what it
\* writes and announces is a team; a request under way names a group.
RequestOK ==
  /\ req \in [Worker -> Request]
  /\ \A w \in Worker :
       /\ req[w].pc # "idle" => req[w].group \in GroupId
       /\ req[w].op = "add" => req[w].at = 1 /\ Len(req[w].teams) = 1
                               /\ req[w].teams[1] \in Registered

LEMMA BeginType ==
  ASSUME RequestOK, NEW w \in Worker, NEW op \in OpNames,
         NEW pc \in {"check", "write"}, NEW g \in GroupId, NEW ts \in Seq(Team),
         NEW seen \in Seq(Team), Begin(w, op, pc, g, ts, seen),
         op = "add" => Len(ts) = 1 /\ ts[1] \in Registered
  PROVE  RequestOK'
<1> DEFINE r == [op |-> op, pc |-> pc, group |-> g, teams |-> ts, at |-> 1, seen |-> seen]
<1>1. r \in Request
  BY DEF Request
<1>2. req' = [req EXCEPT ![w] = r]
  BY DEF Begin
<1> QED
  BY <1>1, <1>2 DEF RequestOK

LEMMA FinishType ==
  ASSUME RequestOK, NEW w \in Worker, Finish(w)
  PROVE  RequestOK'
<1>1. NoRequest \in Request
  BY DEF NoRequest, Request, NoGroup
<1>2. req' = [req EXCEPT ![w] = NoRequest]
  BY DEF Finish
<1> QED
  BY <1>1, <1>2 DEF RequestOK, NoRequest

\* A request that only moves on keeps its parameters.
LEMMA MoveType ==
  ASSUME RequestOK, NEW w \in Worker, req[w].pc # "idle",
         NEW pc \in {"check", "write", "publish"}, NEW at \in Nat,
         req[w].op = "add" => at = 1,
         req' = [req EXCEPT ![w] = [@ EXCEPT !.pc = pc, !.at = at]]
  PROVE  RequestOK'
<1> DEFINE r == [req[w] EXCEPT !.pc = pc, !.at = at]
<1>1. /\ req[w] \in Request /\ r \in Request
      /\ r.op = req[w].op /\ r.pc = pc /\ r.at = at
      /\ r.group = req[w].group /\ r.teams = req[w].teams
  BY DEF RequestOK, Request
<1>2. req' = [req EXCEPT ![w] = r]
  OBVIOUS
<1> HIDE DEF r
<1> QED
  BY <1>1, <1>2 DEF RequestOK

LEMMA NextTeamType ==
  ASSUME RequestOK, NEW w \in Worker, req[w].pc \in {"check", "write"}, req[w].op # "add",
         NextTeam(w, "write")
  PROVE  RequestOK'
<1>1. req[w] \in Request /\ req[w].at \in Nat /\ req[w].pc \in {"check", "write", "publish"}
  BY DEF RequestOK, Request
<1>2. CASE req[w].at < Len(req[w].teams)
  <2> DEFINE n == req[w].at + 1
             p == req[w].pc
  <2>1. n \in Nat /\ p \in {"check", "write", "publish"} /\ p # "idle"
    BY <1>1
  <2>2. req' = [req EXCEPT ![w].at = n]
    BY <1>2 DEF NextTeam
  <2>3. req' = [req EXCEPT ![w] = [@ EXCEPT !.pc = p, !.at = n]]
    BY <1>1, <2>2 DEF RequestOK, Request
  <2> HIDE DEF n, p
  <2> QED
    BY <2>1, <2>3, MoveType DEF p
<1>3. CASE ~(req[w].at < Len(req[w].teams))
  <2>1. req' = [req EXCEPT ![w] = [@ EXCEPT !.pc = "write", !.at = 1]]
    BY <1>1, <1>3 DEF NextTeam, RequestOK, Request
  <2> QED
    BY <2>1, <1>1, MoveType
<1> QED
  BY <1>2, <1>3

---------------------------------------------------------------------------
\* Type correctness.  Nothing here touches the matches; the queue gets what an
\* add request has at hand.
QueueTypeOK ==
  /\ DOMAIN matches \subseteq MatchKey
  /\ \A k \in DOMAIN matches : matches[k] \in Result
  /\ teamEvents \in Seq(TeamEvent)
  /\ scoreEvents \in Nat

TypeInv == GroupsTypeOK /\ RequestOK /\ QueueTypeOK

LEMMA TypeInvInit == Init => TypeInv
<1> SUFFICES ASSUME Init PROVE TypeInv
  OBVIOUS
<1>1. \A g \in ToSet(InitialHeap) : g \in GroupId
  BY GroupSystemAssumption, ElementOfSeq, LenProperties DEF ToSet
<1>2. GroupsTypeOK
  BY <1>1, GroupSystemAssumption DEF Init, GroupsTypeOK
<1>3. RequestOK
  BY DEF Init, GroupServiceInit, RequestOK, Request, NoRequest, NoGroup
<1>4. QueueTypeOK
  BY DEF Init, QueueTypeOK
<1> QED
  BY <1>2, <1>3, <1>4 DEF TypeInv

LEMMA BeginStepType ==
  ASSUME TypeInv, NEW w \in Worker, BeginRequest(w)
  PROVE  TypeInv'
<1> USE DEF TypeInv
<1>1. UNCHANGED store
  BY DEF BeginRequest, BeginAdd, BeginBatch, BeginCreate, BeginRename, BeginRemove
<1>2. GroupsTypeOK' /\ QueueTypeOK'
  BY <1>1 DEF store, GroupsTypeOK, QueueTypeOK
<1>3. \A g \in DOMAIN groups : groups[g] \in Seq(Team)
  BY DEF GroupsTypeOK
<1>4. ASSUME NEW g \in GroupId, NEW t \in Registered, BeginAdd(w, g, t) PROVE RequestOK'
  <2>1. <<t>> \in Seq(Team) /\ Len(<<t>>) = 1 /\ <<t>>[1] \in Registered
    BY GroupServiceAssumption
  <2>2. groups[g] \in Seq(Team) /\ Begin(w, "add", "check", g, <<t>>, groups[g])
    BY <1>3, <1>4 DEF BeginAdd
  <2> QED
    BY <2>1, <2>2, BeginType DEF OpNames
<1>5. ASSUME NEW g \in GroupId, NEW ts \in Payloads, BeginBatch(w, g, ts) PROVE RequestOK'
  <2>1. ts \in Seq(Team) /\ groups[g] \in Seq(Team) /\ Begin(w, "batch", "check", g, ts, groups[g])
    BY <1>3, <1>5, GroupServiceAssumption DEF BeginBatch
  <2> QED
    BY <2>1, BeginType DEF OpNames
<1>6. ASSUME NEW g \in GroupId, NEW ts \in Payloads, BeginCreate(w, g, ts) PROVE RequestOK'
  <2>1. ts \in Seq(Team) /\ <<>> \in Seq(Team)
    BY GroupServiceAssumption
  <2>2. PICK pc \in {"check", "write"} : Begin(w, "create", pc, g, ts, <<>>)
    BY <1>6 DEF BeginCreate
  <2> QED
    BY <2>1, <2>2, BeginType DEF OpNames
<1>7. ASSUME NEW g \in GroupId, BeginRename(w, g) PROVE RequestOK'
  <2>1. <<>> \in Seq(Team) /\ groups[g] \in Seq(Team) /\ Begin(w, "rename", "write", g, <<>>, groups[g])
    BY <1>3, <1>7 DEF BeginRename
  <2> QED
    BY <2>1, BeginType DEF OpNames
<1>8. ASSUME NEW g \in GroupId, BeginRemove(w, g) PROVE RequestOK'
  <2>1. <<>> \in Seq(Team) /\ Begin(w, "remove", "write", g, <<>>, <<>>)
    BY <1>8 DEF BeginRemove
  <2> QED
    BY <2>1, BeginType DEF OpNames
<1> QED
  BY <1>2, <1>4, <1>5, <1>6, <1>7, <1>8 DEF BeginRequest

LEMMA ServeStepType ==
  ASSUME TypeInv, NEW w \in Worker, ServeRequest(w)
  PROVE  TypeInv'
<1> USE DEF TypeInv
<1>0. /\ req[w] \in Request /\ (req[w].pc # "idle" => req[w].group \in GroupId)
      /\ UNCHANGED store => GroupsTypeOK' /\ QueueTypeOK'
      /\ UNCHANGED <<groups, heap>> => GroupsTypeOK'
      /\ UNCHANGED <<matches, teamEvents, scoreEvents>> => QueueTypeOK'
  BY DEF RequestOK, store, GroupsTypeOK, QueueTypeOK
<1>1. ASSUME CheckAdd(w) PROVE TypeInv'
  <2>1. CASE Finish(w)
    BY <1>0, <1>1, <2>1, FinishType DEF CheckAdd
  <2>2. CASE req' = [req EXCEPT ![w].pc = "write"]
    <3>1. req[w].at = 1 /\ req[w].pc # "idle" /\ UNCHANGED store
      BY <1>1 DEF CheckAdd, At, RequestOK
    <3>2. req' = [req EXCEPT ![w] = [@ EXCEPT !.pc = "write", !.at = 1]]
      BY <2>2, <3>1, <1>0 DEF Request, RequestOK
    <3> QED
      BY <1>0, <3>1, <3>2, MoveType
  <2> QED
    BY <1>1, <2>1, <2>2 DEF CheckAdd
<1>2. ASSUME WriteAdd(w) PROVE TypeInv'
  <2>1. /\ req[w].at = 1 /\ req[w].pc # "idle" /\ req[w].group \in GroupId
        /\ Current(w) \in Team
    BY <1>0, <1>2, GroupServiceAssumption DEF WriteAdd, At, RequestOK, Current
  <2>2. GroupsTypeOK' /\ QueueTypeOK'
    BY <1>0, <1>2, <2>1, UpdateGroupAddTeamType DEF WriteAdd
  <2>3. req' = [req EXCEPT ![w] = [@ EXCEPT !.pc = "publish", !.at = 1]]
    BY <1>0, <1>2, <2>1 DEF WriteAdd, Request, RequestOK
  <2> QED
    BY <2>1, <2>2, <2>3, MoveType
<1>3. ASSUME PublishTeamAdd(w) PROVE TypeInv'
  <2>1. [group |-> req[w].group, team |-> Current(w)] \in TeamEvent
    BY <1>0, <1>3, GroupServiceAssumption DEF PublishTeamAdd, At, RequestOK, Current, TeamEvent
  <2>2. teamEvents' \in Seq(TeamEvent)
    BY <2>1, <1>3, AppendProperties DEF PublishTeamAdd, QueueTypeOK
  <2>3. GroupsTypeOK' /\ QueueTypeOK'
    BY <2>2, <1>0, <1>3 DEF PublishTeamAdd, QueueTypeOK
  <2> QED
    BY <1>3, <2>3, FinishType DEF PublishTeamAdd
<1>4. ASSUME FailToPublish(w) PROVE TypeInv'
  BY <1>0, <1>4, FinishType DEF FailToPublish
<1>5. ASSUME CheckBatch(w) \/ CheckCreate(w) PROVE TypeInv'
  <2>1. /\ UNCHANGED store /\ (Finish(w) \/ NextTeam(w, "write"))
        /\ req[w].pc \in {"check", "write"} /\ req[w].op # "add"
    BY <1>5 DEF CheckBatch, CheckCreate, At
  <2> QED
    BY <2>1, <1>0, FinishType, NextTeamType
<1>6. ASSUME WriteBatch(w) PROVE TypeInv'
  <2>1. /\ UNCHANGED <<matches, teamEvents, scoreEvents>> /\ (Finish(w) \/ NextTeam(w, "write"))
        /\ req[w].pc \in {"check", "write"} /\ req[w].op # "add" /\ req[w].group \in GroupId
    BY <1>6, <1>0 DEF WriteBatch, At
  <2>2. RequestOK'
    BY <2>1, FinishType, NextTeamType
  <2>3. GroupsTypeOK'
    <3>1. CASE Current(w) \in Registered
      <4>1. Current(w) \in Team /\ UpdateGroupAddTeam(req[w].group, Current(w))
        BY <1>6, <3>1, GroupServiceAssumption DEF WriteBatch
      <4> QED
        BY <2>1, <4>1, UpdateGroupAddTeamType
    <3>2. CASE Current(w) \notin Registered
      BY <1>0, <1>6, <3>2 DEF WriteBatch
    <3> QED
      BY <3>1, <3>2
  <2> QED
    BY <1>0, <2>1, <2>2, <2>3
<1>7. ASSUME WriteCreate(w) PROVE TypeInv'
  <2>1. /\ req[w].group \in GroupId /\ req[w].teams \in Seq(Team)
        /\ InsertGroup(req[w].group, req[w].teams)
    BY <1>0, <1>7 DEF WriteCreate, At, Request
  <2> QED
    BY <1>0, <1>7, <2>1, InsertGroupType, FinishType DEF WriteCreate
<1>8. ASSUME WriteRename(w) PROVE TypeInv'
  <2>1. req[w].seen \in Seq(Team)
    BY <1>0 DEF Request
  <2>2. GroupsTypeOK'
    BY <1>0, <1>8, <2>1, WriteGroupType DEF WriteRename
  <2> QED
    BY <1>0, <1>8, <2>2, FinishType DEF WriteRename
<1>9. ASSUME WriteRemove(w) PROVE TypeInv'
  <2>1. req[w].group \in GroupId /\ DeleteGroup(req[w].group)
    BY <1>0, <1>9 DEF WriteRemove, At
  <2> QED
    BY <1>0, <1>9, <2>1, DeleteGroupType, FinishType DEF WriteRemove
<1> QED
  BY <1>1, <1>2, <1>3, <1>4, <1>5, <1>6, <1>7, <1>8, <1>9 DEF ServeRequest

LEMMA TypeInvStep == TypeInv /\ [Next]_vars => TypeInv'
<1> SUFFICES ASSUME TypeInv, [Next]_vars PROVE TypeInv'
  OBVIOUS
<1>1. CASE UNCHANGED vars
  BY <1>1 DEF vars, store, TypeInv, GroupsTypeOK, RequestOK, QueueTypeOK
<1>2. ASSUME NEW w \in Worker, Abort(w) PROVE TypeInv'
  BY <1>2, FinishType DEF Abort, store, TypeInv, GroupsTypeOK, QueueTypeOK
<1> QED
  BY <1>1, <1>2, BeginStepType, ServeStepType DEF Next, GroupServiceNext

\* Groups, queue and requests stay within their types, whatever the number of
\* workers, groups and teams (the group routes of tournament_services).
THEOREM TypeCorrect == Spec => []TypeOK
<1>1. TypeInv => TypeOK
  BY DEF TypeInv, GroupsTypeOK, RequestOK, QueueTypeOK, TypeOK, StoreTypeOK
<1> QED
  BY <1>1, TypeInvInit, TypeInvStep, PTL DEF Spec

---------------------------------------------------------------------------
\* How far a group can exceed its capacity when teams come by single adds and
\* by creation.  An add request that read the group while there was room has a
\* claim on it until it has written.
Claims(g) ==
  {w \in Worker : /\ req[w].op = "add" /\ req[w].pc \in {"check", "write"}
                  /\ req[w].group = g /\ Len(req[w].seen) < MaxTeamsPerGroup}

\* OvershootBounded forgets the claims that are still open, and is not inductive
\* for that: of two requests that both saw one place left, either may write first.
RoomInv ==
  /\ \A g \in DOMAIN groups :
       Len(groups[g]) + Cardinality(Claims(g)) <= MaxTeamsPerGroup - 1 + Cardinality(Worker)
  /\ \A w \in Worker : At(w, "add", "write") => Len(req[w].seen) < MaxTeamsPerGroup
  /\ \A w \in Worker : req[w].op = "create" =>
       /\ Len(req[w].teams) <= MaxTeamsPerGroup
       /\ req[w].group \in GroupId \ DOMAIN groups
       /\ \A v \in Worker \ {w} : req[v].group # req[w].group
  /\ \A w \in Worker : req[w].op \notin {"batch", "rename"}

LEMMA ClaimsFinite ==
  ASSUME NEW g
  PROVE  /\ IsFiniteSet(Claims(g)) /\ Cardinality(Claims(g)) \in Nat
         /\ Cardinality(Worker) \in Nat \ {0}
         /\ Cardinality(Claims(g)) <= Cardinality(Worker)
<1>1. Claims(g) \subseteq Worker
  BY DEF Claims
<1> QED
  BY <1>1, GroupServiceAssumption, FS_Subset, FS_CardinalityType, FS_EmptySet

\* A step that opens no claim and does not lengthen a group leaves the room there
\* was.
LEMMA NoNewClaim ==
  ASSUME TypeInv, RoomInv, NEW g \in DOMAIN groups, Claims(g)' \subseteq Claims(g)
  PROVE  Len(groups[g]) + Cardinality(Claims(g)') <= MaxTeamsPerGroup - 1 + Cardinality(Worker)
<1>1. /\ Cardinality(Claims(g)') <= Cardinality(Claims(g))
      /\ Cardinality(Claims(g)') \in Nat
  BY ClaimsFinite, FS_Subset, FS_CardinalityType
<1>2. /\ Cardinality(Claims(g)) \in Nat /\ Cardinality(Worker) \in Nat
      /\ Len(groups[g]) \in Nat
  BY ClaimsFinite, LenProperties DEF TypeInv, GroupsTypeOK
<1>3. Len(groups[g]) + Cardinality(Claims(g)) <= MaxTeamsPerGroup - 1 + Cardinality(Worker)
  BY DEF RoomInv
<1> QED
  BY <1>1, <1>2, <1>3, FormatAssumption

LEMMA RoomFinish ==
  ASSUME TypeInv, RoomInv, NEW w \in Worker, Finish(w),
         DOMAIN groups' \subseteq DOMAIN groups,
         \A g \in DOMAIN groups' : groups'[g] = groups[g]
  PROVE  RoomInv'
<1>1. /\ req'[w] = NoRequest
      /\ \A v \in Worker \ {w} : req'[v] = req[v]
  BY DEF Finish, TypeInv, RequestOK
<1>2. \A g : Claims(g)' \subseteq Claims(g)
  BY <1>1 DEF Claims, NoRequest
<1>3. (\A g \in DOMAIN groups :
         Len(groups[g]) + Cardinality(Claims(g)) <= MaxTeamsPerGroup - 1 + Cardinality(Worker))'
  BY <1>2, NoNewClaim
<1>4. \A v \in Worker : At(v, "add", "write")' => Len(req'[v].seen) < MaxTeamsPerGroup
  BY <1>1 DEF RoomInv, At, NoRequest
<1>5. ASSUME NEW v \in Worker, req'[v].op = "create"
      PROVE  /\ Len(req'[v].teams) <= MaxTeamsPerGroup
             /\ req'[v].group \in GroupId \ DOMAIN groups'
             /\ \A u \in Worker \ {v} : req'[u].group # req'[v].group
  <2>1. v # w /\ req'[v] = req[v]
    BY <1>1, <1>5 DEF NoRequest
  <2>2. req[v].group # NoGroup
    BY <1>5, <2>1, GroupServiceAssumption DEF RoomInv, NoGroup
  <2> QED
    BY <1>1, <1>5, <2>1, <2>2 DEF RoomInv, NoRequest
<1>6. \A v \in Worker : req'[v].op \notin {"batch", "rename"}
  BY <1>1 DEF RoomInv, NoRequest
<1> QED
  BY <1>3, <1>4, <1>5, <1>6 DEF RoomInv

\* A request that moves on opens no claim and stays what it is.
LEMMA RoomMove ==
  ASSUME TypeInv, RoomInv, NEW w \in Worker, UNCHANGED groups,
         req[w].pc # "idle",
         \A v \in Worker \ {w} : req'[v] = req[v],
         /\ req'[w].op = req[w].op /\ req'[w].group = req[w].group
         /\ req'[w].teams = req[w].teams /\ req'[w].seen = req[w].seen,
         req[w].op = "add" /\ req'[w].pc \in {"check", "write"} =>
           req[w].pc \in {"check", "write"} /\ Len(req[w].seen) < MaxTeamsPerGroup
  PROVE  RoomInv'
<1>1. \A g : Claims(g)' \subseteq Claims(g)
  BY DEF Claims
<1>2. (\A g \in DOMAIN groups :
         Len(groups[g]) + Cardinality(Claims(g)) <= MaxTeamsPerGroup - 1 + Cardinality(Worker))'
  BY <1>1, NoNewClaim
<1> QED
  BY <1>2 DEF RoomInv, At

LEMMA RoomBeginAdd ==
  ASSUME TypeInv, RoomInv, NEW w \in Worker, NEW g \in GroupId, NEW t \in Registered,
         BeginAdd(w, g, t)
  PROVE  RoomInv'
<1>1. /\ g \in DOMAIN groups /\ UNCHANGED groups
      /\ req'[w] = [op |-> "add", pc |-> "check", group |-> g, teams |-> <<t>>, at |-> 1,
                    seen |-> groups[g]]
      /\ \A v \in Worker \ {w} : req'[v] = req[v]
  BY DEF BeginAdd, Begin, TypeInv, RequestOK, store
<1>2. ASSUME NEW h \in DOMAIN groups
      PROVE  Len(groups[h]) + Cardinality(Claims(h)')
               <= MaxTeamsPerGroup - 1 + Cardinality(Worker)
  <2>1. CASE h # g \/ Len(groups[g]) >= MaxTeamsPerGroup
    <3>1. Len(groups[g]) \in Nat
      BY <1>1, LenProperties DEF TypeInv, GroupsTypeOK
    <3>2. Claims(h)' \subseteq Claims(h)
      BY <1>1, <2>1, <3>1, FormatAssumption DEF Claims
    <3> QED
      BY <3>2, NoNewClaim
  <2>2. CASE h = g /\ ~(Len(groups[g]) >= MaxTeamsPerGroup)
    <3>1. Len(groups[h]) \in Nat
      BY LenProperties DEF TypeInv, GroupsTypeOK
    <3>2. /\ Cardinality(Claims(h)') <= Cardinality(Worker) /\ Cardinality(Claims(h)') \in Nat
          /\ Cardinality(Worker) \in Nat
      <4>1. Claims(h)' \subseteq Worker
        BY DEF Claims
      <4> QED
        BY <4>1, GroupServiceAssumption, FS_Subset, FS_CardinalityType
    <3> QED
      BY <2>2, <3>1, <3>2, FormatAssumption
  <2> QED
    BY <2>1, <2>2
<1>3. \A v \in Worker : At(v, "add", "write")' => Len(req'[v].seen) < MaxTeamsPerGroup
  BY <1>1 DEF RoomInv, At
<1>4. ASSUME NEW v \in Worker, req'[v].op = "create"
      PROVE  /\ Len(req'[v].teams) <= MaxTeamsPerGroup
             /\ req'[v].group \in GroupId \ DOMAIN groups'
             /\ \A u \in Worker \ {v} : req'[u].group # req'[v].group
  BY <1>1, <1>4 DEF RoomInv
<1> QED
  BY <1>1, <1>2, <1>3, <1>4 DEF RoomInv

LEMMA RoomBeginCreate ==
  ASSUME TypeInv, RoomInv, NEW w \in Worker, NEW g \in GroupId, NEW ts \in Payloads,
         BeginCreate(w, g, ts)
  PROVE  RoomInv'
<1>1. /\ Fresh(g) /\ UNCHANGED groups /\ Len(ts) <= MaxTeamsPerGroup
      /\ req'[w].op = "create" /\ req'[w].group = g /\ req'[w].teams = ts
      /\ \A v \in Worker \ {w} : req'[v] = req[v]
  BY DEF BeginCreate, Begin, TypeInv, RequestOK, store
<1>2. \A h : Claims(h)' \subseteq Claims(h)
  BY <1>1 DEF Claims
<1>3. (\A h \in DOMAIN groups :
         Len(groups[h]) + Cardinality(Claims(h)) <= MaxTeamsPerGroup - 1 + Cardinality(Worker))'
  BY <1>1, <1>2, NoNewClaim
<1> QED
  BY <1>1, <1>3 DEF RoomInv, At, Fresh

LEMMA RoomBeginRemove ==
  ASSUME TypeInv, RoomInv, NEW w \in Worker, NEW g \in GroupId, BeginRemove(w, g)
  PROVE  RoomInv'
<1>1. /\ g \in DOMAIN groups /\ UNCHANGED groups
      /\ req'[w].op = "remove" /\ req'[w].group = g
      /\ \A v \in Worker \ {w} : req'[v] = req[v]
  BY DEF BeginRemove, Begin, TypeInv, RequestOK, store
<1>2. \A h : Claims(h)' \subseteq Claims(h)
  BY <1>1 DEF Claims
<1>3. (\A h \in DOMAIN groups :
         Len(groups[h]) + Cardinality(Claims(h)) <= MaxTeamsPerGroup - 1 + Cardinality(Worker))'
  BY <1>1, <1>2, NoNewClaim
<1> QED
  BY <1>1, <1>3 DEF RoomInv, At

\* The claim is spent by the team that is written.
LEMMA RoomWriteAdd ==
  ASSUME TypeInv, RoomInv, NEW w \in Worker, WriteAdd(w)
  PROVE  RoomInv'
<1> DEFINE g == req[w].group
<1>1. /\ req[w].op = "add" /\ req[w].pc = "write" /\ g \in GroupId /\ Current(w) \in Team
      /\ UpdateGroupAddTeam(g, Current(w))
      /\ req' = [req EXCEPT ![w].pc = "publish"]
  BY GroupServiceAssumption DEF WriteAdd, At, TypeInv, RequestOK, Current
<1>2. /\ \A v \in Worker \ {w} : req'[v] = req[v]
      /\ req'[w].op = "add" /\ req'[w].pc = "publish" /\ req'[w].group = g
  BY <1>1 DEF TypeInv, RequestOK, Request
<1>3. DOMAIN groups' = DOMAIN groups
  BY <1>1, UpdateGroupAddTeamType DEF TypeInv
<1>4. \A h : Claims(h)' \subseteq Claims(h)
  BY <1>1, <1>2 DEF Claims
<1>5. ASSUME NEW h \in DOMAIN groups
      PROVE  Len(groups'[h]) + Cardinality(Claims(h)')
               <= MaxTeamsPerGroup - 1 + Cardinality(Worker)
  <2>1. CASE h # g
    <3>1. groups'[h] = groups[h]
      BY <1>1, <2>1 DEF UpdateGroupAddTeam, WriteGroup
    <3> QED
      BY <3>1, <1>4, NoNewClaim
  <2>2. CASE h = g
    <3>1. /\ groups[h] \in Seq(Team) /\ Len(groups[h]) \in Nat
          /\ groups'[h] = WithTeam(groups[h], Current(w))
      BY <1>1, <2>2, LenProperties DEF UpdateGroupAddTeam, WriteGroup, TypeInv, GroupsTypeOK
    <3>2. Len(groups'[h]) = Len(groups[h]) + 1
      BY <1>1, <3>1, WithTeamType
    <3>3. w \in Claims(h) /\ Claims(h)' = Claims(h) \ {w}
      BY <1>1, <1>2, <2>2 DEF Claims, RoomInv, At
    <3>4. /\ Cardinality(Claims(h)') = Cardinality(Claims(h)) - 1
          /\ Cardinality(Claims(h)) \in Nat /\ Cardinality(Worker) \in Nat
      BY <3>3, ClaimsFinite, FS_RemoveElement
    <3>5. Len(groups[h]) + Cardinality(Claims(h)) <= MaxTeamsPerGroup - 1 + Cardinality(Worker)
      BY DEF RoomInv
    <3> QED
      BY <3>1, <3>2, <3>4, <3>5, FormatAssumption
  <2> QED
    BY <2>1, <2>2
<1>6. \A v \in Worker : req'[v].group = req[v].group
  BY <1>2
<1> QED
  BY <1>1, <1>2, <1>3, <1>5, <1>6 DEF RoomInv, At

\* Nobody has a claim on a group that did not exist.
LEMMA RoomWriteCreate ==
  ASSUME TypeInv, RoomInv, NEW w \in Worker, WriteCreate(w)
  PROVE  RoomInv'
<1> DEFINE g == req[w].group
<1>1. /\ req[w].op = "create" /\ InsertGroup(g, req[w].teams) /\ Finish(w)
      /\ Len(req[w].teams) <= MaxTeamsPerGroup /\ Len(req[w].teams) \in Nat
      /\ g \in GroupId \ DOMAIN groups
      /\ \A v \in Worker \ {w} : req[v].group # g
  BY LenProperties DEF WriteCreate, At, RoomInv, TypeInv, RequestOK, Request
<1>2. /\ req'[w] = NoRequest
      /\ \A v \in Worker \ {w} : req'[v] = req[v]
  BY <1>1 DEF Finish, TypeInv, RequestOK
<1>3. /\ DOMAIN groups' = DOMAIN groups \cup {g}
      /\ groups'[g] = req[w].teams
      /\ \A h \in DOMAIN groups : groups'[h] = groups[h]
  BY <1>1 DEF InsertGroup
<1>4. ASSUME NEW h \in DOMAIN groups'
      PROVE  Len(groups'[h]) + Cardinality(Claims(h)')
               <= MaxTeamsPerGroup - 1 + Cardinality(Worker)
  <2>1. CASE h = g
    <3>1. Claims(h)' = {}
      BY <1>1, <1>2, <2>1 DEF Claims, NoRequest
    <3>2. Cardinality(Claims(h)') = 0 /\ Cardinality(Worker) \in Nat \ {0}
      BY <3>1, FS_EmptySet, ClaimsFinite
    <3> QED
      BY <1>1, <1>3, <2>1, <3>2, FormatAssumption
  <2>2. CASE h # g
    <3>1. h \in DOMAIN groups /\ groups'[h] = groups[h] /\ Claims(h)' \subseteq Claims(h)
      BY <1>2, <1>3, <2>2 DEF Claims, NoRequest
    <3> QED
      BY <3>1, NoNewClaim
  <2> QED
    BY <2>1, <2>2
<1>5. ASSUME NEW v \in Worker, req'[v].op = "create"
      PROVE  /\ Len(req'[v].teams) <= MaxTeamsPerGroup
             /\ req'[v].group \in GroupId \ DOMAIN groups'
             /\ \A u \in Worker \ {v} : req'[u].group # req'[v].group
  <2>1. v # w /\ req'[v] = req[v]
    BY <1>2, <1>5 DEF NoRequest
  <2>2. req[v].group # NoGroup
    BY <1>5, <2>1, GroupServiceAssumption DEF RoomInv, NoGroup
  <2> QED
    BY <1>1, <1>2, <1>3, <1>5, <2>1, <2>2 DEF RoomInv, NoRequest
<1> QED
  BY <1>2, <1>4, <1>5 DEF RoomInv, At, NoRequest

SingleAdds == Ops \subseteq {"add", "create", "remove"}

LEMMA RoomStep == SingleAdds /\ TypeInv /\ RoomInv /\ [Next]_vars => RoomInv'
<1> SUFFICES ASSUME SingleAdds, TypeInv, RoomInv, [Next]_vars PROVE RoomInv'
  OBVIOUS
<1>1. CASE UNCHANGED vars
  BY <1>1 DEF vars, store, RoomInv, Claims, At
<1>2. ASSUME NEW w \in Worker, BeginRequest(w) PROVE RoomInv'
  <2>1. \A g \in GroupId, ts \in Payloads : ~BeginBatch(w, g, ts) /\ ~BeginRename(w, g)
    BY DEF SingleAdds, BeginBatch, BeginRename, Accepts
  <2>2. \A g \in GroupId : ~BeginRename(w, g)
    BY DEF SingleAdds, BeginRename, Accepts
  <2> QED
    BY <1>2, <2>1, <2>2, RoomBeginAdd, RoomBeginCreate, RoomBeginRemove DEF BeginRequest
<1>3. ASSUME NEW w \in Worker, ServeRequest(w) PROVE RoomInv'
  <2>1. ~CheckBatch(w) /\ ~WriteBatch(w) /\ ~WriteRename(w)
    BY DEF RoomInv, CheckBatch, WriteBatch, WriteRename, At
  <2>2. CASE UNCHANGED groups /\ Finish(w)
    BY <2>2, RoomFinish
  <2>3. ASSUME CheckAdd(w), ~Finish(w) PROVE RoomInv'
    <3>1. /\ UNCHANGED groups /\ req[w].pc = "check"
          /\ Len(req[w].seen) < MaxTeamsPerGroup
          /\ req' = [req EXCEPT ![w].pc = "write"]
      BY <2>3, LenProperties, FormatAssumption
         DEF CheckAdd, At, store, TypeInv, RequestOK, Request
    <3> QED
      BY <3>1, RoomMove DEF TypeInv, RequestOK, Request
  <2>4. ASSUME CheckCreate(w), ~Finish(w) PROVE RoomInv'
    <3>1. /\ UNCHANGED groups /\ req[w].pc = "check" /\ req[w].op = "create"
          /\ NextTeam(w, "write")
      BY <2>4 DEF CheckCreate, At, store
    <3>2. /\ \A v \in Worker \ {w} : req'[v] = req[v]
          /\ req'[w].op = req[w].op /\ req'[w].group = req[w].group
          /\ req'[w].teams = req[w].teams /\ req'[w].seen = req[w].seen
      BY <3>1 DEF NextTeam, TypeInv, RequestOK, Request
    <3> QED
      BY <3>1, <3>2, RoomMove
  <2>5. CASE WriteRemove(w)
    BY <2>5, RoomFinish DEF WriteRemove, DeleteGroup
  <2>6. CASE PublishTeamAdd(w) \/ FailToPublish(w)
    BY <2>2, <2>6 DEF PublishTeamAdd, FailToPublish, store
  <2>7. CASE CheckAdd(w) \/ CheckCreate(w)
    BY <2>2, <2>3, <2>4, <2>7 DEF CheckAdd, CheckCreate, store
  <2> QED
    BY <1>3, <2>1, <2>5, <2>6, <2>7, RoomWriteAdd, RoomWriteCreate DEF ServeRequest
<1>4. ASSUME NEW w \in Worker, Abort(w) PROVE RoomInv'
  BY <1>4, RoomFinish DEF Abort, store
<1> QED
  BY <1>1, <1>2, <1>3, <1>4 DEF Next, GroupServiceNext

LEMMA RoomInit == Init => RoomInv
<1> SUFFICES ASSUME Init PROVE RoomInv
  OBVIOUS
<1>1. /\ \A w \in Worker : req[w] = NoRequest
      /\ \A g \in DOMAIN groups : groups[g] = <<>>
  BY DEF Init, GroupServiceInit
<1>2. ASSUME NEW g \in DOMAIN groups
      PROVE  Len(groups[g]) + Cardinality(Claims(g)) <= MaxTeamsPerGroup - 1 + Cardinality(Worker)
  <2>1. Claims(g) = {} /\ Len(groups[g]) = 0
    BY <1>1 DEF Claims, NoRequest
  <2> QED
    BY <2>1, FS_EmptySet, ClaimsFinite, FormatAssumption
<1> QED
  BY <1>1, <1>2 DEF RoomInv, At, NoRequest

\* When teams come by AddTeamToGroup and CreateGroup, a group exceeds its capacity
\* by less than the number of workers, however their checks and writes interleave
\* and whatever fails in between (GroupDelegate::AddTeamToGroup).
THEOREM OvershootIsBounded == ASSUME SingleAdds PROVE Spec => []OvershootBounded
<1>1. TypeInv /\ RoomInv => OvershootBounded
  <2> SUFFICES ASSUME TypeInv, RoomInv, NEW g \in DOMAIN groups
               PROVE  Len(groups[g]) <= MaxTeamsPerGroup - 1 + Cardinality(Worker)
    BY DEF OvershootBounded
  <2>1. /\ Len(groups[g]) \in Nat
        /\ Len(groups[g]) + Cardinality(Claims(g)) <= MaxTeamsPerGroup - 1 + Cardinality(Worker)
    BY LenProperties DEF TypeInv, GroupsTypeOK, RoomInv
  <2> QED
    BY <2>1, ClaimsFinite, FormatAssumption
<1>2. RoomInv /\ TypeInv /\ [Next]_vars => RoomInv'
  BY RoomStep
<1> QED
  BY <1>1, <1>2, RoomInit, TypeInvInit, TypeInvStep, PTL DEF Spec

---------------------------------------------------------------------------
\* Announcements.  They are true as long as no request renames a group.
NoRename == "rename" \notin Ops

Stored(g, t) == g \in DOMAIN groups => t \in ToSet(groups[g])

\* The id of a group that is yet to be inserted is known to nobody else.
NewGroup(w) ==
  /\ req[w].group \in GroupId \ DOMAIN groups
  /\ \A v \in Worker \ {w} : req[v].group # req[w].group
  /\ \A i \in DOMAIN teamEvents : teamEvents[i].group # req[w].group

\* An event is only about to be sent once its team is in.
StoredInv ==
  /\ AnnouncedTeamsStored
  /\ \A w \in Worker : At(w, "add", "publish") => Stored(req[w].group, Current(w))
  /\ \A w \in Worker : req[w].op = "create" => NewGroup(w)
  /\ \A w \in Worker : req[w].op # "rename"

\* What the statements of the requests do to the rows: groups keep their teams.
RowsGrow ==
  \A g \in DOMAIN groups \cap DOMAIN groups' : ToSet(groups[g]) \subseteq ToSet(groups'[g])

---------------------------------------------------------------------------
\* Where jsonb_insert puts the teams.
LEMMA WithTeamPlaces ==
  ASSUME NEW ts \in Seq(Team), ts # <<>>, NEW t \in Team
  PROVE  LET n   == Len(ts)
             new == WithTeam(ts, t)
         IN  /\ n \in Nat \ {0} /\ DOMAIN ts = 1..n /\ DOMAIN new = 1..(n + 1)
             /\ \A i \in 1..(n - 1) : new[i] = ts[i]
             /\ new[n] = t /\ new[n + 1] = ts[n]
<1> DEFINE n     == Len(ts) - 1
           front == SubSeq(ts, 1, n)
           back  == <<t, ts[Len(ts)]>>
           new   == front \o back
<1>1. Len(ts) \in Nat /\ Len(ts) # 0 /\ DOMAIN ts = 1..Len(ts)
  BY EmptySeq, LenProperties
<1>2. n \in Nat /\ Len(ts) = n + 1
  BY <1>1
<1>3. \A i \in 1..Len(ts) : ts[i] \in Team
  BY ElementOfSeq
<1> HIDE DEF n
<1>4. ts[n + 1] \in Team /\ \A i \in 1..n : ts[i] \in Team
  BY <1>2, <1>3
<1>5. /\ front \in Seq(Team) /\ Len(front) = n
      /\ \A i \in 1..n : front[i] = ts[i]
  BY <1>2, <1>4, SubSeqProperties
<1>6. back \in Seq(Team) /\ Len(back) = 2 /\ back[1] = t /\ back[2] = ts[n + 1]
  BY <1>2, <1>4
<1> HIDE DEF front, back
<1>7. /\ new \in Seq(Team) /\ Len(new) = n + 2
      /\ \A i \in 1..(n + 2) : new[i] = IF i <= n THEN front[i] ELSE back[i - n]
  <2>1. /\ new \in Seq(Team) /\ Len(new) = Len(front) + Len(back)
        /\ \A i \in 1..(Len(front) + Len(back)) :
             new[i] = IF i <= Len(front) THEN front[i] ELSE back[i - Len(front)]
    BY <1>5, <1>6, ConcatProperties
  <2> QED
    BY <1>2, <1>5, <1>6, <2>1
<1> HIDE DEF new
<1>8. /\ \A i \in 1..n : new[i] = ts[i]
      /\ new[n + 1] = t /\ new[n + 2] = ts[n + 1]
  <2>1. n + 1 \in 1..(n + 2) /\ n + 2 \in 1..(n + 2)
        /\ ~(n + 1 <= n) /\ ~(n + 2 <= n) /\ (n + 1) - n = 1 /\ (n + 2) - n = 2
        /\ \A i \in 1..n : i \in 1..(n + 2) /\ i <= n
    BY <1>2
  <2> QED
    BY <1>5, <1>6, <1>7, <2>1
<1>9. DOMAIN new = 1..(n + 2)
  BY <1>7, LenProperties
<1>10. WithTeam(ts, t) = new
  BY DEF WithTeam, new, front, back, n
<1>11. Len(ts) - 1 = n /\ Len(ts) + 1 = n + 2 /\ Len(ts) # 0
  BY <1>2
<1> QED
  BY <1>1, <1>2, <1>8, <1>9, <1>10, <1>11

\* jsonb_insert loses no team and brings in the new one.
LEMMA WithTeamElements ==
  ASSUME NEW ts \in Seq(Team), NEW t \in Team
  PROVE  ToSet(WithTeam(ts, t)) = ToSet(ts) \cup {t}
<1>1. CASE ts = <<>>
  <2>1. WithTeam(ts, t) = <<t>> /\ ToSet(ts) = {}
    BY <1>1 DEF WithTeam, ToSet
  <2> QED
    BY <2>1 DEF ToSet
<1>2. CASE ts # <<>>
  <2> DEFINE n   == Len(ts)
             new == WithTeam(ts, t)
  <2>1. /\ n \in Nat \ {0} /\ DOMAIN ts = 1..n /\ DOMAIN new = 1..(n + 1)
        /\ \A i \in 1..(n - 1) : new[i] = ts[i]
        /\ new[n] = t /\ new[n + 1] = ts[n]
    BY <1>2, WithTeamPlaces
  <2> HIDE DEF n, new
  <2>2. \A i \in 1..(n + 1) : new[i] = t \/ \E j \in 1..n : new[i] = ts[j]
    BY <2>1
  <2>3. \A j \in 1..n : \E i \in 1..(n + 1) : new[i] = ts[j]
    BY <2>1
  <2>4. \E i \in 1..(n + 1) : new[i] = t
    BY <2>1
  <2>5. ToSet(ts) = {ts[j] : j \in 1..n} /\ ToSet(new) = {new[i] : i \in 1..(n + 1)}
    BY <2>1 DEF ToSet
  <2>6. \A x \in ToSet(new) : x \in ToSet(ts) \cup {t}
    BY <2>2, <2>5
  <2>7. \A x \in ToSet(ts) \cup {t} : x \in ToSet(new)
    BY <2>3, <2>4, <2>5
  <2>8. ToSet(new) = ToSet(ts) \cup {t}
    BY <2>6, <2>7
  <2> QED
    BY <2>8 DEF new
<1> QED
  BY <1>1, <1>2

LEMMA AddedTeamStored ==
  ASSUME TypeInv, NEW g \in GroupId, NEW t \in Team, UpdateGroupAddTeam(g, t)
  PROVE  /\ RowsGrow /\ DOMAIN groups' = DOMAIN groups
         /\ Stored(g, t)'
<1>1. CASE g \in DOMAIN groups
  <2>1. groups' = [groups EXCEPT ![g] = WithTeam(groups[g], t)] /\ groups[g] \in Seq(Team)
    BY <1>1 DEF UpdateGroupAddTeam, WriteGroup, TypeInv, GroupsTypeOK
  <2>2. ToSet(groups[g]) \cup {t} \subseteq ToSet(WithTeam(groups[g], t))
    BY <2>1, WithTeamElements
  <2> QED
    BY <1>1, <2>1, <2>2 DEF RowsGrow, Stored
<1>2. CASE g \notin DOMAIN groups
  BY <1>2 DEF UpdateGroupAddTeam, RowsGrow, Stored
<1> QED
  BY <1>1, <1>2

---------------------------------------------------------------------------
\* A step of w that sends nothing, keeps the groups' teams and brings in no group
\* that anybody refers to; what it makes of w's own request is for the step to say.
LEMMA StoredKept ==
  ASSUME TypeInv, StoredInv, NEW w \in Worker, RowsGrow, UNCHANGED teamEvents,
         \A g \in DOMAIN groups' \ DOMAIN groups :
           /\ \A v \in Worker \ {w} : req[v].group # g
           /\ \A i \in DOMAIN teamEvents : teamEvents[i].group # g,
         \A v \in Worker \ {w} : req'[v] = req[v],
         \A v \in Worker \ {w} : req[v].op = "create" => req'[w].group # req[v].group,
         req'[w].op = "create" => NewGroup(w)',
         req'[w].op # "rename",
         At(w, "add", "publish")' => Stored(req[w].group, Current(w))'
  PROVE  StoredInv'
<1>1. ASSUME NEW g, NEW t, g \in DOMAIN groups' => g \in DOMAIN groups, Stored(g, t)
      PROVE  g \in DOMAIN groups' => t \in ToSet(groups'[g])
  BY <1>1 DEF Stored, RowsGrow
<1>2. AnnouncedTeamsStored'
  BY <1>1 DEF StoredInv, AnnouncedTeamsStored, Stored
<1>3. ASSUME NEW v \in Worker \ {w}
      PROVE  /\ At(v, "add", "publish")' => Stored(req[v].group, Current(v))'
             /\ req'[v].op = "create" => NewGroup(v)'
             /\ req'[v].op # "rename"
  <2>1. /\ req'[v] = req[v] /\ req[v].op # "rename"
        /\ At(v, "add", "publish") => Stored(req[v].group, Current(v))
        /\ req[v].op = "create" => NewGroup(v)
    BY DEF StoredInv
  <2>2. req[v].group \in DOMAIN groups' => req[v].group \in DOMAIN groups
    OBVIOUS
  <2>3. At(v, "add", "publish")' => Stored(req[v].group, Current(v))'
    BY <1>1, <2>1, <2>2 DEF At, Current, Stored
  <2>4. req'[v].op = "create" => NewGroup(v)'
    BY <2>1, <2>2 DEF NewGroup
  <2> QED
    BY <2>1, <2>3, <2>4
<1> QED
  BY <1>2, <1>3 DEF StoredInv

\* The end of a request is such a step.
LEMMA StoredFinish ==
  ASSUME TypeInv, StoredInv, NEW w \in Worker, Finish(w), RowsGrow, UNCHANGED teamEvents,
         \A g \in DOMAIN groups' \ DOMAIN groups :
           /\ \A v \in Worker \ {w} : req[v].group # g
           /\ \A i \in DOMAIN teamEvents : teamEvents[i].group # g
  PROVE  StoredInv'
<1>1. /\ req'[w] = NoRequest
      /\ \A v \in Worker \ {w} : req'[v] = req[v]
  BY DEF Finish, TypeInv, RequestOK
<1>2. NoGroup \notin GroupId
  BY GroupServiceAssumption DEF NoGroup
<1> QED
  BY <1>1, <1>2, StoredKept DEF NoRequest, At, StoredInv, NewGroup

\* So is the next team or phase of a request.
LEMMA StoredMove ==
  ASSUME TypeInv, StoredInv, NEW w \in Worker, RowsGrow, UNCHANGED teamEvents,
         DOMAIN groups' = DOMAIN groups,
         \A v \in Worker \ {w} : req'[v] = req[v],
         req'[w].op = req[w].op /\ req'[w].group = req[w].group,
         At(w, "add", "publish")' => Stored(req[w].group, Current(w))'
  PROVE  StoredInv'
  BY StoredKept DEF StoredInv, NewGroup

LEMMA StoredBegin ==
  ASSUME NoRename, TypeInv, StoredInv, NEW w \in Worker, BeginRequest(w)
  PROVE  StoredInv' /\ RowsGrow
<1>1. /\ UNCHANGED <<groups, teamEvents>>
      /\ \E op \in OpNames \ {"rename"}, pc \in {"check", "write"}, g \in GroupId :
           /\ req'[w].op = op /\ req'[w].pc = pc /\ req'[w].group = g
           /\ \A v \in Worker \ {w} : req'[v] = req[v]
           /\ IF op = "create" THEN Fresh(g) ELSE g \in DOMAIN groups
  <2>1. UNCHANGED <<groups, teamEvents>>
    BY DEF BeginRequest, BeginAdd, BeginBatch, BeginCreate, BeginRename, BeginRemove, store
  <2>2. ASSUME NEW op \in OpNames, NEW pc, NEW g, NEW ts, NEW seen, Begin(w, op, pc, g, ts, seen)
        PROVE  /\ req'[w].op = op /\ req'[w].pc = pc /\ req'[w].group = g
               /\ \A v \in Worker \ {w} : req'[v] = req[v]
    BY <2>2 DEF Begin, TypeInv, RequestOK
  <2>3. ASSUME NEW g \in GroupId, NEW t \in Registered, BeginAdd(w, g, t) PROVE <1>1!2
    BY <2>2, <2>3 DEF BeginAdd, OpNames
  <2>4. ASSUME NEW g \in GroupId, NEW ts \in Payloads, BeginBatch(w, g, ts) PROVE <1>1!2
    BY <2>2, <2>4 DEF BeginBatch, OpNames
  <2>5. ASSUME NEW g \in GroupId, NEW ts \in Payloads, BeginCreate(w, g, ts) PROVE <1>1!2
    BY <2>2, <2>5 DEF BeginCreate, OpNames
  <2>6. ASSUME NEW g \in GroupId, BeginRemove(w, g) PROVE <1>1!2
    BY <2>2, <2>6 DEF BeginRemove, OpNames
  <2>7. \A g \in GroupId : ~BeginRename(w, g)
    BY DEF NoRename, BeginRename, Accepts
  <2> QED
    BY <2>1, <2>3, <2>4, <2>5, <2>6, <2>7 DEF BeginRequest
<1>2. RowsGrow
  BY <1>1 DEF RowsGrow
<1>3. StoredInv'
  BY <1>1, <1>2, StoredKept DEF StoredInv, NewGroup, Fresh, At
<1> QED
  BY <1>2, <1>3

\* The team is in, and its event still to be sent.
LEMMA StoredWriteAdd ==
  ASSUME TypeInv, StoredInv, NEW w \in Worker, WriteAdd(w)
  PROVE  StoredInv' /\ RowsGrow
<1>1. /\ req[w].group \in GroupId /\ Current(w) \in Team
      /\ UpdateGroupAddTeam(req[w].group, Current(w)) /\ UNCHANGED teamEvents
  BY GroupServiceAssumption DEF WriteAdd, At, TypeInv, RequestOK, Current
<1>2. /\ req'[w].op = req[w].op /\ req'[w].group = req[w].group
      /\ req'[w].teams = req[w].teams /\ req'[w].at = req[w].at
      /\ \A v \in Worker \ {w} : req'[v] = req[v]
  BY DEF WriteAdd, TypeInv, RequestOK, Request
<1>3. RowsGrow /\ DOMAIN groups' = DOMAIN groups /\ Stored(req[w].group, Current(w))'
  BY <1>1, <1>2, AddedTeamStored DEF Stored, Current
<1> QED
  BY <1>1, <1>2, <1>3, StoredMove

\* The event joins the queue while the team is in, or the group gone for good.
LEMMA StoredPublish ==
  ASSUME TypeInv, StoredInv, NEW w \in Worker, PublishTeamAdd(w)
  PROVE  StoredInv' /\ RowsGrow
<1> DEFINE e == [group |-> req[w].group, team |-> Current(w)]
<1>1. /\ teamEvents' = Append(teamEvents, e) /\ UNCHANGED groups /\ Stored(e.group, e.team)
      /\ req[w].pc = "publish"
  BY DEF PublishTeamAdd, StoredInv, At
<1>2. /\ req'[w] = NoRequest
      /\ \A v \in Worker \ {w} : req'[v] = req[v]
  BY DEF PublishTeamAdd, Finish, TypeInv, RequestOK
<1>3. e \in TeamEvent /\ teamEvents \in Seq(TeamEvent)
  BY GroupServiceAssumption DEF PublishTeamAdd, At, TypeInv, RequestOK, QueueTypeOK, Current, TeamEvent
<1> HIDE DEF e
<1>4. ASSUME NEW i \in DOMAIN teamEvents'
      PROVE  teamEvents'[i] = e \/ (i \in DOMAIN teamEvents /\ teamEvents'[i] = teamEvents[i])
  BY <1>1, <1>3, AppendProperties, LenProperties
<1>5. AnnouncedTeamsStored'
  BY <1>1, <1>4 DEF StoredInv, AnnouncedTeamsStored, Stored
<1>6. ASSUME NEW v \in Worker, req'[v].op = "create" PROVE NewGroup(v)'
  <2>1. v # w /\ req[v].op = "create" /\ NewGroup(v) /\ req'[v] = req[v]
    BY <1>2, <1>6 DEF NoRequest, StoredInv
  <2>2. e.group # req[v].group /\ NoGroup # req[v].group
    BY <2>1, GroupServiceAssumption DEF e, NewGroup, NoGroup
  <2> QED
    BY <1>1, <1>2, <1>4, <2>1, <2>2 DEF NewGroup, NoRequest
<1>7. ASSUME NEW v \in Worker
      PROVE  /\ At(v, "add", "publish")' => Stored(req[v].group, Current(v))'
             /\ req'[v].op # "rename"
  <2>1. CASE v = w
    BY <1>2, <2>1 DEF At, NoRequest
  <2>2. CASE v # w
    BY <1>1, <1>2, <2>2 DEF At, StoredInv, Stored, Current
  <2> QED
    BY <2>1, <2>2
<1>8. RowsGrow
  BY <1>1 DEF RowsGrow
<1> QED
  BY <1>5, <1>6, <1>7, <1>8 DEF StoredInv

LEMMA StoredServe ==
  ASSUME TypeInv, StoredInv, NEW w \in Worker, ServeRequest(w)
  PROVE  StoredInv' /\ RowsGrow
<1>1. CASE UNCHANGED <<groups, teamEvents>> /\ Finish(w)
  BY <1>1, StoredFinish DEF RowsGrow
<1>2. ASSUME NextTeam(w, "write"), req[w].op # "add"
      PROVE  /\ req'[w].op = req[w].op /\ req'[w].group = req[w].group
             /\ \A v \in Worker \ {w} : req'[v] = req[v]
             /\ ~At(w, "add", "publish")'
  BY <1>2 DEF NextTeam, TypeInv, RequestOK, Request, At
<1>3. CASE CheckAdd(w)
  <2>1. CASE req' = [req EXCEPT ![w].pc = "write"]
    <3>1. /\ req'[w].op = req[w].op /\ req'[w].group = req[w].group /\ req'[w].pc = "write"
          /\ \A v \in Worker \ {w} : req'[v] = req[v]
      BY <2>1 DEF TypeInv, RequestOK, Request
    <3> QED
      BY <1>3, <3>1, StoredMove DEF CheckAdd, RowsGrow, At, store
  <2> QED
    BY <1>1, <1>3, <2>1 DEF CheckAdd, store
<1>4. CASE CheckBatch(w) \/ CheckCreate(w)
  <2>1. /\ UNCHANGED <<groups, teamEvents>> /\ req[w].op # "add"
        /\ Finish(w) \/ NextTeam(w, "write")
    BY <1>4 DEF CheckBatch, CheckCreate, At, store
  <2> QED
    BY <1>1, <1>2, <2>1, StoredMove DEF RowsGrow
<1>5. CASE WriteBatch(w)
  <2>1. /\ UNCHANGED teamEvents /\ req[w].op # "add" /\ req[w].group \in GroupId
        /\ Finish(w) \/ NextTeam(w, "write")
    BY <1>5 DEF WriteBatch, At, TypeInv, RequestOK
  <2>2. RowsGrow /\ DOMAIN groups' = DOMAIN groups
    <3>1. CASE Current(w) \in Registered
      <4>1. Current(w) \in Team /\ UpdateGroupAddTeam(req[w].group, Current(w))
        BY <1>5, <3>1, GroupServiceAssumption DEF WriteBatch
      <4> QED
        BY <2>1, <4>1, AddedTeamStored
    <3>2. CASE Current(w) \notin Registered
      BY <1>5, <3>2 DEF WriteBatch, RowsGrow
    <3> QED
      BY <3>1, <3>2
  <2> QED
    BY <1>2, <2>1, <2>2, StoredFinish, StoredMove
<1>6. CASE WriteCreate(w)
  <2>1. /\ NewGroup(w) /\ Finish(w) /\ UNCHANGED teamEvents
        /\ InsertGroup(req[w].group, req[w].teams)
    BY <1>6 DEF WriteCreate, At, StoredInv
  <2>2. RowsGrow /\ DOMAIN groups' = DOMAIN groups \cup {req[w].group}
    BY <2>1 DEF InsertGroup, NewGroup, RowsGrow
  <2> QED
    BY <2>1, <2>2, StoredFinish DEF NewGroup
<1>7. CASE WriteRemove(w)
  BY <1>7, StoredFinish DEF WriteRemove, DeleteGroup, RowsGrow
<1>8. ~WriteRename(w)
  BY DEF WriteRename, At, StoredInv
<1>9. CASE FailToPublish(w)
  BY <1>1, <1>9 DEF FailToPublish, store
<1> QED
  BY <1>3, <1>4, <1>5, <1>6, <1>7, <1>8, <1>9, StoredWriteAdd, StoredPublish DEF ServeRequest

LEMMA StoredStep ==
  ASSUME NoRename, TypeInv, StoredInv, [Next]_vars
  PROVE  StoredInv' /\ RowsGrow
<1>1. CASE UNCHANGED vars
  BY <1>1 DEF vars, store, StoredInv, AnnouncedTeamsStored, Stored, NewGroup, At, Current, RowsGrow
<1>2. ASSUME NEW w \in Worker, Abort(w) PROVE StoredInv' /\ RowsGrow
  BY <1>2, StoredFinish DEF Abort, store, RowsGrow
<1> QED
  BY <1>1, <1>2, StoredBegin, StoredServe DEF Next, GroupServiceNext

LEMMA StoredInit == Init => StoredInv
<1> SUFFICES ASSUME Init PROVE StoredInv
  OBVIOUS
<1>1. teamEvents = <<>> /\ \A w \in Worker : req[w] = NoRequest
  BY DEF Init, GroupServiceInit
<1> QED
  BY <1>1 DEF StoredInv, AnnouncedTeamsStored, NoRequest, At

\* Without renames tournament.team-add names a team that is in the group, as long
\* as the group exists, however many requests fail or overtake each other
\* (GroupDelegate::AddTeamToGroup publishes after the commit).
THEOREM AnnouncementsAreTrue == ASSUME NoRename PROVE Spec => []AnnouncedTeamsStored
<1>1. TypeInv /\ StoredInv /\ [Next]_vars => StoredInv'
  BY StoredStep
<1>2. StoredInv => AnnouncedTeamsStored
  BY DEF StoredInv
<1> QED
  BY <1>1, <1>2, StoredInit, TypeInvInit, TypeInvStep, PTL DEF Spec

\* Without renames a team leaves a group only with the group, however many
\* requests are served at once: every statement adds to the stored list
\* (GroupRepository::UpdateGroupAddTeam).
THEOREM TeamsStayStored == ASSUME NoRename PROVE Spec => TeamsStay
<1>1. TypeInv /\ StoredInv /\ [Next]_vars => StoredInv' /\ RowsGrow
  BY StoredStep
<1>2. RowsGrow => [\A g \in DOMAIN groups \cap DOMAIN groups' :
                     ToSet(groups[g]) \subseteq ToSet(groups'[g])]_vars
  BY DEF RowsGrow
<1> QED
  BY <1>1, <1>2, StoredInit, TypeInvInit, TypeInvStep, PTL DEF Spec, TeamsStay

---------------------------------------------------------------------------
\* Requests served one at a time, none of which names a team twice: then the
\* checks of GroupDelegate are enough.
Distinct(ts) == \A i, j \in DOMAIN ts : ts[i] = ts[j] => i = j

OneAtATime == \A v, w \in Worker : v = w
DistinctPayloads == \A ts \in Payloads : Distinct(ts)

\* OneGroupPerTeam in two parts: in a group, and between two groups.
Apart ==
  /\ \A g \in DOMAIN groups : Distinct(groups[g])
  /\ \A g, h \in DOMAIN groups : g # h => ToSet(groups[g]) \cap ToSet(groups[h]) = {}

\* The teams a..b of the list are in no group.
Free(ts, a, b) == \A i \in a..b : ~TeamInTournament(ts[i])

\* What a request knows of its group, as nobody else has written since it read.
AddKnows(r) ==
  /\ r.pc \in {"check", "write"} => r.group \in DOMAIN groups /\ r.seen = groups[r.group]
  /\ r.pc = "write" => Len(r.seen) < MaxTeamsPerGroup /\ ~TeamInTournament(r.teams[1])

BatchKnows(r) ==
  /\ r.group \in DOMAIN groups /\ Distinct(r.teams) /\ r.at \in 1..Len(r.teams)
  /\ r.pc = "check" => /\ Len(groups[r.group]) + Len(r.teams) <= MaxTeamsPerGroup
                       /\ Free(r.teams, 1, r.at - 1)
  /\ r.pc = "write" => /\ Len(groups[r.group]) + Len(r.teams) - r.at < MaxTeamsPerGroup
                       /\ Free(r.teams, r.at, Len(r.teams))

CreateKnows(r) ==
  /\ r.group \notin DOMAIN groups /\ Distinct(r.teams) /\ Len(r.teams) <= MaxTeamsPerGroup
  /\ r.pc = "check" => r.at \in 1..Len(r.teams) /\ Free(r.teams, 1, r.at - 1)
  /\ r.pc = "write" => Free(r.teams, 1, Len(r.teams))

RenameKnows(r) == r.group \in DOMAIN groups /\ r.seen = groups[r.group]

Knows(r) ==
  /\ r.op = "add" => AddKnows(r)
  /\ r.op = "batch" => BatchKnows(r)
  /\ r.op = "create" => CreateKnows(r)
  /\ r.op = "rename" => RenameKnows(r)

SerialInv == Apart /\ CapacityRespected /\ \A w \in Worker : Knows(req[w])

LEMMA ApartIsOneGroup == Apart => OneGroupPerTeam
<1> SUFFICES ASSUME Apart, NEW g \in DOMAIN groups, NEW h \in DOMAIN groups,
                    NEW i \in DOMAIN groups[g], NEW j \in DOMAIN groups[h],
                    groups[g][i] = groups[h][j]
             PROVE  g = h /\ i = j
  BY DEF OneGroupPerTeam
<1>1. groups[g][i] \in ToSet(groups[g]) /\ groups[g][i] \in ToSet(groups[h])
  BY DEF ToSet
<1>2. g = h
  BY <1>1 DEF Apart
<1> QED
  BY <1>2 DEF Apart, Distinct

LEMMA WithTeamDistinct ==
  ASSUME NEW ts \in Seq(Team), NEW t \in Team, Distinct(ts), t \notin ToSet(ts)
  PROVE  Distinct(WithTeam(ts, t))
<1>1. CASE ts = <<>>
  <2>1. WithTeam(ts, t) = <<t>>
    BY <1>1 DEF WithTeam
  <2> QED
    BY <2>1 DEF Distinct
<1>2. CASE ts # <<>>
  <2> DEFINE n   == Len(ts)
             new == WithTeam(ts, t)
  <2>1. /\ n \in Nat \ {0} /\ DOMAIN ts = 1..n /\ DOMAIN new = 1..(n + 1)
        /\ \A i \in 1..(n - 1) : new[i] = ts[i]
        /\ new[n] = t /\ new[n + 1] = ts[n]
    BY <1>2, WithTeamPlaces
  <2> HIDE DEF n, new
  <2>2. \A i \in 1..n : ts[i] # t
    BY <2>1 DEF ToSet
  <2>3. \A i, j \in 1..n : ts[i] = ts[j] => i = j
    BY <2>1 DEF Distinct
  <2>4. \A i \in 1..(n + 1) : \/ i \in 1..(n - 1) /\ new[i] = ts[i]
                              \/ i = n /\ new[i] = t
                              \/ i = n + 1 /\ new[i] = ts[n]
    BY <2>1
  <2>5. \A i \in 1..(n - 1) : i \in 1..n /\ i # n
    BY <2>1
  <2>6. n \in 1..n
    BY <2>1
  <2>7. ASSUME NEW i \in 1..(n + 1), NEW j \in 1..(n + 1), new[i] = new[j] PROVE i = j
    BY <2>2, <2>3, <2>4, <2>5, <2>6, <2>7
  <2>8. Distinct(new)
    BY <2>1, <2>7 DEF Distinct
  <2> QED
    BY <2>8 DEF new
<1> QED
  BY <1>1, <1>2

\* One more team for a group with a place left, and in no group so far.
LEMMA SerialAdd ==
  ASSUME GroupsTypeOK, Apart, CapacityRespected,
         NEW g \in DOMAIN groups, NEW t \in Team,
         ~TeamInTournament(t), Len(groups[g]) < MaxTeamsPerGroup,
         UpdateGroupAddTeam(g, t)
  PROVE  /\ Apart' /\ CapacityRespected' /\ RowsGrow
         /\ DOMAIN groups' = DOMAIN groups
         /\ Len(groups'[g]) = Len(groups[g]) + 1
         /\ \A u : TeamInTournament(u)' => TeamInTournament(u) \/ u = t
<1>1. /\ groups' = [groups EXCEPT ![g] = WithTeam(groups[g], t)]
      /\ groups[g] \in Seq(Team) /\ Len(groups[g]) \in Nat
  BY LenProperties DEF UpdateGroupAddTeam, WriteGroup, GroupsTypeOK
<1>2. \A h \in DOMAIN groups : t \notin ToSet(groups[h])
  BY DEF TeamInTournament
<1>3. /\ ToSet(groups'[g]) = ToSet(groups[g]) \cup {t}
      /\ Len(groups'[g]) = Len(groups[g]) + 1
      /\ Distinct(groups'[g])
  BY <1>1, <1>2, WithTeamType, WithTeamElements, WithTeamDistinct DEF Apart
<1>4. DOMAIN groups' = DOMAIN groups /\ \A h \in DOMAIN groups \ {g} : groups'[h] = groups[h]
  BY <1>1
<1>5. Apart'
  <2>1. \A h \in DOMAIN groups : Distinct(groups'[h])
    BY <1>3, <1>4 DEF Apart
  <2>2. ASSUME NEW h \in DOMAIN groups, NEW k \in DOMAIN groups, h # k
        PROVE  ToSet(groups'[h]) \cap ToSet(groups'[k]) = {}
    <3>1. ToSet(groups[h]) \cap ToSet(groups[k]) = {}
      BY <2>2 DEF Apart
    <3> QED
      BY <1>2, <1>3, <1>4, <2>2, <3>1
  <2> QED
    BY <1>4, <2>1, <2>2 DEF Apart
<1>6. CapacityRespected'
  BY <1>1, <1>3, <1>4, FormatAssumption DEF CapacityRespected
<1> QED
  BY <1>3, <1>4, <1>5, <1>6 DEF RowsGrow, TeamInTournament

LEMMA SerialInsert ==
  ASSUME GroupsTypeOK, Apart, CapacityRespected,
         NEW g \in GroupId \ DOMAIN groups, NEW ts \in Seq(Team),
         Distinct(ts), Len(ts) <= MaxTeamsPerGroup, Free(ts, 1, Len(ts)),
         InsertGroup(g, ts)
  PROVE  Apart' /\ CapacityRespected' /\ RowsGrow
<1>1. /\ DOMAIN groups' = DOMAIN groups \cup {g} /\ groups'[g] = ts
      /\ \A h \in DOMAIN groups : groups'[h] = groups[h]
  BY DEF InsertGroup
<1>2. \A h \in DOMAIN groups : ToSet(ts) \cap ToSet(groups[h]) = {}
  BY LenProperties DEF Free, TeamInTournament, ToSet
<1>3. Apart'
  BY <1>1, <1>2 DEF Apart
<1> QED
  BY <1>1, <1>3 DEF CapacityRespected, RowsGrow

\* Groups that are as they were, or gone.
LEMMA SerialKept ==
  ASSUME Apart, CapacityRespected, DOMAIN groups' \subseteq DOMAIN groups,
         \A g \in DOMAIN groups' : groups'[g] = groups[g]
  PROVE  Apart' /\ CapacityRespected' /\ RowsGrow
  BY DEF Apart, CapacityRespected, RowsGrow

LEMMA SerialFinish ==
  ASSUME TypeInv, OneAtATime, NEW w \in Worker, Finish(w)
  PROVE  \A v \in Worker : Knows(req[v])'
<1>1. \A v \in Worker : req'[v] = NoRequest
  BY DEF OneAtATime, Finish, TypeInv, RequestOK
<1> QED
  BY <1>1 DEF Knows, NoRequest

\* A check found that one more team of the list is free.
LEMMA FreeExtends ==
  ASSUME NEW ts \in Seq(Team), NEW n \in 1..Len(ts), Free(ts, 1, n - 1),
         ~TeamInTournament(ts[n])
  PROVE  Free(ts, 1, n)
<1>1. Len(ts) \in Nat
  BY LenProperties
<1>2. \A i \in 1..n : i \in 1..(n - 1) \/ i = n
  BY <1>1
<1> QED
  BY <1>2 DEF Free

Serially == OneAtATime /\ DistinctPayloads

\* The worker's own request is all there is to say.
LEMMA SerialOwn ==
  ASSUME Serially, NEW w \in Worker, Apart', CapacityRespected', Knows(req[w])'
  PROVE  SerialInv'
<1>1. \A v \in Worker : v = w
  BY DEF Serially, OneAtATime
<1> QED
  BY <1>1 DEF SerialInv

LEMMA SerialBegin ==
  ASSUME Serially, TypeInv, SerialInv, NEW w \in Worker, BeginRequest(w)
  PROVE  SerialInv' /\ RowsGrow
<1>1. UNCHANGED groups
  BY DEF BeginRequest, BeginAdd, BeginBatch, BeginCreate, BeginRename, BeginRemove, store
<1>2. Apart' /\ CapacityRespected' /\ RowsGrow
  BY <1>1, SerialKept DEF SerialInv
<1>3. ASSUME NEW op, NEW pc, NEW g, NEW ts, NEW seen, Begin(w, op, pc, g, ts, seen)
      PROVE  req'[w] = [op |-> op, pc |-> pc, group |-> g, teams |-> ts, at |-> 1, seen |-> seen]
  BY <1>3 DEF Begin, TypeInv, RequestOK
<1>4. ASSUME NEW g \in GroupId, NEW t \in Registered, BeginAdd(w, g, t)
      PROVE  Knows(req[w])'
  <2>1. req'[w] = [op |-> "add", pc |-> "check", group |-> g, teams |-> <<t>>, at |-> 1,
                   seen |-> groups[g]]
    BY <1>3, <1>4 DEF BeginAdd
  <2>2. g \in DOMAIN groups
    BY <1>4 DEF BeginAdd
  <2> QED
    BY <1>1, <2>1, <2>2 DEF Knows, AddKnows
<1>5. ASSUME NEW g \in GroupId, NEW ts \in Payloads, BeginBatch(w, g, ts)
      PROVE  Knows(req[w])'
  <2>1. req'[w] = [op |-> "batch", pc |-> "check", group |-> g, teams |-> ts, at |-> 1,
                   seen |-> groups[g]]
    BY <1>3, <1>5 DEF BeginBatch
  <2>2. /\ g \in DOMAIN groups /\ ts \in Seq(Team) /\ ts # <<>>
        /\ Len(groups[g]) + Len(ts) <= MaxTeamsPerGroup
    BY <1>5, GroupServiceAssumption DEF BeginBatch
  <2>3. Len(ts) \in Nat /\ Len(ts) # 0
    BY <2>2, LenProperties, EmptySeq
  <2>4. Distinct(ts)
    BY DEF Serially, DistinctPayloads
  <2>5. 1 \in 1..Len(ts) /\ Free(ts, 1, 0)
    BY <2>3 DEF Free
  <2>6. Free(ts, 1, 1 - 1)'
    BY DEF Free
  <2> QED
    BY <1>1, <2>1, <2>2, <2>4, <2>5, <2>6 DEF Knows, BatchKnows
<1>6. ASSUME NEW g \in GroupId, NEW ts \in Payloads, BeginCreate(w, g, ts)
      PROVE  Knows(req[w])'
  <2>1. req'[w] = [op |-> "create", pc |-> IF ts = <<>> THEN "write" ELSE "check",
                   group |-> g, teams |-> ts, at |-> 1, seen |-> <<>>]
    BY <1>3, <1>6 DEF BeginCreate
  <2>2. /\ g \notin DOMAIN groups /\ ts \in Seq(Team) /\ Len(ts) <= MaxTeamsPerGroup
    BY <1>6, GroupServiceAssumption DEF BeginCreate, Fresh
  <2>3. Len(ts) \in Nat /\ (ts = <<>> <=> Len(ts) = 0)
    BY <2>2, LenProperties, EmptySeq
  <2>4. Distinct(ts)
    BY DEF Serially, DistinctPayloads
  <2>5. /\ ts # <<>> => 1 \in 1..Len(ts)
        /\ Free(ts, 1, 1 - 1)'
        /\ ts = <<>> => Free(ts, 1, Len(ts))'
    BY <2>3 DEF Free
  <2> QED
    BY <1>1, <2>1, <2>2, <2>4, <2>5 DEF Knows, CreateKnows
<1>7. ASSUME NEW g \in GroupId, BeginRename(w, g)
      PROVE  Knows(req[w])'
  <2>1. req'[w] = [op |-> "rename", pc |-> "write", group |-> g, teams |-> <<>>, at |-> 1,
                   seen |-> groups[g]]
    BY <1>3, <1>7 DEF BeginRename
  <2>2. g \in DOMAIN groups
    BY <1>7 DEF BeginRename
  <2> QED
    BY <1>1, <2>1, <2>2 DEF Knows, RenameKnows
<1>8. ASSUME NEW g \in GroupId, BeginRemove(w, g)
      PROVE  Knows(req[w])'
  <2>1. req'[w] = [op |-> "remove", pc |-> "write", group |-> g, teams |-> <<>>, at |-> 1,
                   seen |-> <<>>]
    BY <1>3, <1>8 DEF BeginRemove
  <2> QED
    BY <2>1 DEF Knows
<1>9. Knows(req[w])'
  BY <1>4, <1>5, <1>6, <1>7, <1>8 DEF BeginRequest
<1> QED
  BY <1>2, <1>9, SerialOwn

LEMMA SerialCheckAdd ==
  ASSUME Serially, TypeInv, SerialInv, NEW w \in Worker, CheckAdd(w)
  PROVE  SerialInv' /\ RowsGrow
<1>1. UNCHANGED groups /\ req[w].op = "add" /\ req[w].pc = "check" /\ req[w].at = 1
  BY DEF CheckAdd, At, store, TypeInv, RequestOK
<1>2. Apart' /\ CapacityRespected' /\ RowsGrow
  BY <1>1, SerialKept DEF SerialInv
<1>3. CASE Finish(w)
  BY <1>2, <1>3, SerialFinish, SerialOwn DEF Serially
<1>4. CASE ~Finish(w)
  <2>1. /\ ~TeamInTournament(req[w].teams[1]) /\ ~(Len(req[w].seen) >= MaxTeamsPerGroup)
        /\ req' = [req EXCEPT ![w].pc = "write"]
    BY <1>1, <1>4 DEF CheckAdd, Current
  <2>2. /\ req'[w].op = "add" /\ req'[w].pc = "write" /\ req'[w].group = req[w].group
        /\ req'[w].teams = req[w].teams /\ req'[w].seen = req[w].seen
    BY <1>1, <2>1 DEF TypeInv, RequestOK, Request
  <2>3. Len(req[w].seen) < MaxTeamsPerGroup
    BY <2>1, LenProperties, FormatAssumption DEF TypeInv, RequestOK, Request
  <2>4. req[w].group \in DOMAIN groups /\ req[w].seen = groups[req[w].group]
    BY <1>1 DEF SerialInv, Knows, AddKnows
  <2>5. ~TeamInTournament(req[w].teams[1])'
    BY <1>1, <2>1, <2>2 DEF TeamInTournament
  <2>6. Knows(req[w])'
    BY <1>1, <2>2, <2>3, <2>4, <2>5 DEF Knows, AddKnows
  <2> QED
    BY <1>2, <2>6, SerialOwn
<1> QED
  BY <1>3, <1>4

LEMMA SerialWriteAdd ==
  ASSUME Serially, TypeInv, SerialInv, NEW w \in Worker, WriteAdd(w)
  PROVE  SerialInv' /\ RowsGrow
<1>1. /\ req[w].op = "add" /\ req[w].pc = "write" /\ Current(w) = req[w].teams[1]
      /\ Current(w) \in Team
      /\ UpdateGroupAddTeam(req[w].group, Current(w))
      /\ req' = [req EXCEPT ![w].pc = "publish"]
  BY GroupServiceAssumption DEF WriteAdd, At, TypeInv, RequestOK, Current
<1>2. /\ req[w].group \in DOMAIN groups
      /\ Len(groups[req[w].group]) < MaxTeamsPerGroup
      /\ ~TeamInTournament(Current(w))
  BY <1>1 DEF SerialInv, Knows, AddKnows
<1>3. Apart' /\ CapacityRespected' /\ RowsGrow
  BY <1>1, <1>2, SerialAdd DEF SerialInv, TypeInv
<1>4. req'[w].op = "add" /\ req'[w].pc = "publish"
  BY <1>1 DEF TypeInv, RequestOK, Request
<1>5. Knows(req[w])'
  BY <1>4 DEF Knows, AddKnows
<1> QED
  BY <1>3, <1>5, SerialOwn

\* Where the request is after NextTeam.
LEMMA NextTeamIs ==
  ASSUME TypeInv, NEW w \in Worker, NextTeam(w, "write")
  PROVE  /\ req'[w].op = req[w].op /\ req'[w].group = req[w].group
         /\ req'[w].teams = req[w].teams /\ req'[w].seen = req[w].seen
         /\ req[w].at < Len(req[w].teams) =>
              req'[w].at = req[w].at + 1 /\ req'[w].pc = req[w].pc
         /\ ~(req[w].at < Len(req[w].teams)) => req'[w].at = 1 /\ req'[w].pc = "write"
  BY DEF NextTeam, TypeInv, RequestOK, Request

\* One more team of the list is free, so the next one is looked at, or all are
\* free and the first one is written.
LEMMA SerialLook ==
  ASSUME NEW ts \in Seq(Team), NEW n \in 1..Len(ts), UNCHANGED groups,
         Free(ts, 1, n - 1), ~TeamInTournament(ts[n])
  PROVE  /\ n < Len(ts) => n + 1 \in 1..Len(ts) /\ Free(ts, 1, (n + 1) - 1)'
         /\ ~(n < Len(ts)) => 1 \in 1..Len(ts) /\ Free(ts, 1, Len(ts))'
<1>1. Len(ts) \in Nat
  BY LenProperties
<1>2. Free(ts, 1, n)
  BY FreeExtends
<1>3. Free(ts, 1, n)'
  BY <1>2 DEF Free, TeamInTournament
<1>4. (n + 1) - 1 = n /\ (~(n < Len(ts)) => n = Len(ts))
  BY <1>1
<1> QED
  BY <1>1, <1>3, <1>4

LEMMA SerialCheckBatch ==
  ASSUME Serially, TypeInv, SerialInv, NEW w \in Worker, CheckBatch(w)
  PROVE  SerialInv' /\ RowsGrow
<1>0. PICK ts, n, g : ts = req[w].teams /\ n = req[w].at /\ g = req[w].group
  OBVIOUS
<1>1. UNCHANGED groups /\ req[w].op = "batch" /\ req[w].pc = "check" /\ ts \in Seq(Team)
  BY <1>0 DEF CheckBatch, At, store, TypeInv, RequestOK, Request
<1>2. Apart' /\ CapacityRespected' /\ RowsGrow
  BY <1>1, SerialKept DEF SerialInv
<1>3. CASE Finish(w)
  BY <1>2, <1>3, SerialFinish, SerialOwn DEF Serially
<1>4. CASE ~Finish(w)
  <2>1. ~TeamInTournament(ts[n]) /\ NextTeam(w, "write")
    BY <1>0, <1>4 DEF CheckBatch, Current
  <2>2. /\ g \in DOMAIN groups /\ Distinct(ts) /\ n \in 1..Len(ts)
        /\ Len(groups[g]) + Len(ts) <= MaxTeamsPerGroup
        /\ Free(ts, 1, n - 1)
    BY <1>0, <1>1 DEF SerialInv, Knows, BatchKnows
  <2>3. Len(ts) \in Nat /\ Len(groups[g]) \in Nat
    BY <1>1, <2>2, LenProperties DEF TypeInv, GroupsTypeOK
  <2>4. /\ n < Len(ts) => n + 1 \in 1..Len(ts) /\ Free(ts, 1, (n + 1) - 1)'
        /\ ~(n < Len(ts)) => 1 \in 1..Len(ts) /\ Free(ts, 1, Len(ts))'
    BY <1>1, <2>1, <2>2, SerialLook
  <2>5. /\ req'[w].op = "batch" /\ req'[w].group = g /\ req'[w].teams = ts
        /\ n < Len(ts) => req'[w].at = n + 1 /\ req'[w].pc = "check"
        /\ ~(n < Len(ts)) => req'[w].at = 1 /\ req'[w].pc = "write"
    BY <1>0, <1>1, <2>1, NextTeamIs
  <2>6. Len(groups[g]) + Len(ts) - 1 < MaxTeamsPerGroup
    BY <2>2, <2>3, FormatAssumption
  <2>7. ASSUME n < Len(ts) PROVE Knows(req[w])'
    BY <1>1, <2>2, <2>4, <2>5, <2>7 DEF Knows, BatchKnows
  <2>8. ASSUME ~(n < Len(ts)) PROVE Knows(req[w])'
    BY <1>1, <2>2, <2>4, <2>5, <2>6, <2>8 DEF Knows, BatchKnows
  <2>9. Knows(req[w])'
    BY <2>7, <2>8
  <2> QED
    BY <1>2, <2>9, SerialOwn
<1> QED
  BY <1>3, <1>4

LEMMA SerialWriteBatch ==
  ASSUME Serially, TypeInv, SerialInv, NEW w \in Worker, WriteBatch(w)
  PROVE  SerialInv' /\ RowsGrow
<1>0. PICK ts, n, g : ts = req[w].teams /\ n = req[w].at /\ g = req[w].group
  OBVIOUS
<1>1. req[w].op = "batch" /\ req[w].pc = "write" /\ ts \in Seq(Team)
  BY <1>0 DEF WriteBatch, At, TypeInv, RequestOK, Request
<1>2. CASE Current(w) \notin Registered
  <2>1. UNCHANGED groups /\ Finish(w)
    BY <1>2 DEF WriteBatch
  <2>2. Apart' /\ CapacityRespected' /\ RowsGrow
    BY <2>1, SerialKept DEF SerialInv
  <2> QED
    BY <2>1, <2>2, SerialFinish, SerialOwn DEF Serially
<1>3. CASE Current(w) \in Registered
  <2>1. /\ ts[n] \in Team /\ UpdateGroupAddTeam(g, ts[n])
        /\ IF n < Len(ts) THEN NextTeam(w, "write") ELSE Finish(w)
    BY <1>0, <1>3, GroupServiceAssumption DEF WriteBatch, Current
  <2>2. /\ g \in DOMAIN groups /\ Distinct(ts) /\ n \in 1..Len(ts)
        /\ Len(groups[g]) + Len(ts) - n < MaxTeamsPerGroup
        /\ Free(ts, n, Len(ts))
    BY <1>0, <1>1 DEF SerialInv, Knows, BatchKnows
  <2>3. Len(ts) \in Nat /\ Len(groups[g]) \in Nat /\ DOMAIN ts = 1..Len(ts)
    BY <1>1, <2>2, LenProperties DEF TypeInv, GroupsTypeOK
  <2>4. /\ n \in n..Len(ts) /\ Len(groups[g]) < MaxTeamsPerGroup
        /\ \A i \in (n + 1)..Len(ts) : i \in n..Len(ts) /\ i # n /\ i \in 1..Len(ts)
        /\ n < Len(ts) => n + 1 \in 1..Len(ts)
    BY <2>2, <2>3, FormatAssumption
  <2>5. ~TeamInTournament(ts[n])
    BY <2>2, <2>4 DEF Free
  <2>6. /\ Apart' /\ CapacityRespected' /\ RowsGrow
        /\ DOMAIN groups' = DOMAIN groups
        /\ Len(groups'[g]) = Len(groups[g]) + 1
        /\ \A u : TeamInTournament(u)' => TeamInTournament(u) \/ u = ts[n]
    BY <2>1, <2>2, <2>4, <2>5, SerialAdd DEF SerialInv, TypeInv
  <2>7. CASE ~(n < Len(ts))
    BY <2>1, <2>6, <2>7, SerialFinish, SerialOwn DEF Serially
  <2>8. CASE n < Len(ts)
    <3>1. NextTeam(w, "write")
      BY <2>1, <2>8
    <3>2. /\ req'[w].op = "batch" /\ req'[w].group = g /\ req'[w].teams = ts
          /\ req'[w].at = n + 1 /\ req'[w].pc = "write"
      BY <1>0, <1>1, <2>8, <3>1, NextTeamIs
    <3>3. Len(groups'[g]) + Len(ts) - (n + 1) < MaxTeamsPerGroup
      BY <2>2, <2>3, <2>6, FormatAssumption
    <3>4. Free(ts, n + 1, Len(ts))'
      <4>1. \A i \in (n + 1)..Len(ts) : ~TeamInTournament(ts[i]) /\ ts[i] # ts[n]
        BY <2>2, <2>3, <2>4 DEF Free, Distinct
      <4> QED
        BY <4>1, <2>6 DEF Free
    <3>5. Knows(req[w])'
      BY <2>2, <2>4, <2>6, <2>8, <3>2, <3>3, <3>4 DEF Knows, BatchKnows
    <3> QED
      BY <2>6, <3>5, SerialOwn
  <2> QED
    BY <2>7, <2>8
<1> QED
  BY <1>2, <1>3

LEMMA SerialCheckCreate ==
  ASSUME Serially, TypeInv, SerialInv, NEW w \in Worker, CheckCreate(w)
  PROVE  SerialInv' /\ RowsGrow
<1>0. PICK ts, n, g : ts = req[w].teams /\ n = req[w].at /\ g = req[w].group
  OBVIOUS
<1>1. UNCHANGED groups /\ req[w].op = "create" /\ req[w].pc = "check" /\ ts \in Seq(Team)
  BY <1>0 DEF CheckCreate, At, store, TypeInv, RequestOK, Request
<1>2. Apart' /\ CapacityRespected' /\ RowsGrow
  BY <1>1, SerialKept DEF SerialInv
<1>3. CASE Finish(w)
  BY <1>2, <1>3, SerialFinish, SerialOwn DEF Serially
<1>4. CASE ~Finish(w)
  <2>1. ~TeamInTournament(ts[n]) /\ NextTeam(w, "write")
    BY <1>0, <1>4 DEF CheckCreate, Current
  <2>2. /\ g \notin DOMAIN groups /\ Distinct(ts) /\ n \in 1..Len(ts)
        /\ Len(ts) <= MaxTeamsPerGroup /\ Free(ts, 1, n - 1)
    BY <1>0, <1>1 DEF SerialInv, Knows, CreateKnows
  <2>3. /\ n < Len(ts) => n + 1 \in 1..Len(ts) /\ Free(ts, 1, (n + 1) - 1)'
        /\ ~(n < Len(ts)) => 1 \in 1..Len(ts) /\ Free(ts, 1, Len(ts))'
    BY <1>1, <2>1, <2>2, SerialLook
  <2>4. /\ req'[w].op = "create" /\ req'[w].group = g /\ req'[w].teams = ts
        /\ n < Len(ts) => req'[w].at = n + 1 /\ req'[w].pc = "check"
        /\ ~(n < Len(ts)) => req'[w].at = 1 /\ req'[w].pc = "write"
    BY <1>0, <1>1, <2>1, NextTeamIs
  <2>5. Knows(req[w])'
    BY <1>1, <2>2, <2>3, <2>4 DEF Knows, CreateKnows
  <2> QED
    BY <1>2, <2>5, SerialOwn
<1> QED
  BY <1>3, <1>4

LEMMA SerialWriteCreate ==
  ASSUME Serially, TypeInv, SerialInv, NEW w \in Worker, WriteCreate(w)
  PROVE  SerialInv' /\ RowsGrow
<1>1. /\ req[w].op = "create" /\ req[w].pc = "write" /\ req[w].teams \in Seq(Team)
      /\ req[w].group \in GroupId
      /\ InsertGroup(req[w].group, req[w].teams) /\ Finish(w)
  BY DEF WriteCreate, At, TypeInv, RequestOK, Request
<1>2. /\ req[w].group \notin DOMAIN groups /\ Distinct(req[w].teams)
      /\ Len(req[w].teams) <= MaxTeamsPerGroup /\ Free(req[w].teams, 1, Len(req[w].teams))
  BY <1>1 DEF SerialInv, Knows, CreateKnows
<1>3. Apart' /\ CapacityRespected' /\ RowsGrow
  BY <1>1, <1>2, SerialInsert DEF SerialInv, TypeInv
<1> QED
  BY <1>1, <1>3, SerialFinish, SerialOwn DEF Serially

\* What goes back is what is there.
LEMMA SerialWriteRename ==
  ASSUME Serially, TypeInv, SerialInv, NEW w \in Worker, WriteRename(w)
  PROVE  SerialInv' /\ RowsGrow
<1>1. /\ req[w].op = "rename" /\ Finish(w)
      /\ req[w].group \in DOMAIN groups /\ req[w].seen = groups[req[w].group]
      /\ WriteGroup(req[w].group, req[w].seen)
  BY DEF WriteRename, At, SerialInv, Knows, RenameKnows
<1>2. DOMAIN groups' = DOMAIN groups /\ \A g \in DOMAIN groups : groups'[g] = groups[g]
  BY <1>1 DEF WriteGroup
<1>3. Apart' /\ CapacityRespected' /\ RowsGrow
  BY <1>2, SerialKept DEF SerialInv
<1> QED
  BY <1>1, <1>3, SerialFinish, SerialOwn DEF Serially

LEMMA SerialStep ==
  ASSUME Serially, TypeInv, SerialInv, [Next]_vars
  PROVE  SerialInv' /\ RowsGrow
<1>1. CASE UNCHANGED vars
  <2>1. UNCHANGED <<groups, req>>
    BY <1>1 DEF vars, store
  <2>2. Apart' /\ CapacityRespected' /\ RowsGrow
    BY <2>1, SerialKept DEF SerialInv
  <2>3. \A w \in Worker : Knows(req[w])'
    BY <2>1 DEF SerialInv, Knows, AddKnows, BatchKnows, CreateKnows, RenameKnows, Free,
                TeamInTournament
  <2> QED
    BY <2>2, <2>3 DEF SerialInv
<1>2. ASSUME NEW w \in Worker, Finish(w), DOMAIN groups' \subseteq DOMAIN groups,
             \A g \in DOMAIN groups' : groups'[g] = groups[g]
      PROVE  SerialInv' /\ RowsGrow
  BY <1>2, SerialKept, SerialFinish, SerialOwn DEF Serially, SerialInv
<1>3. ASSUME NEW w \in Worker, Abort(w) \/ PublishTeamAdd(w) \/ FailToPublish(w)
      PROVE  SerialInv' /\ RowsGrow
  BY <1>2, <1>3 DEF Abort, PublishTeamAdd, FailToPublish, store
<1>4. ASSUME NEW w \in Worker, WriteRemove(w)
      PROVE  SerialInv' /\ RowsGrow
  BY <1>2, <1>4 DEF WriteRemove, DeleteGroup
<1>5. ASSUME NEW w \in Worker, ServeRequest(w)
      PROVE  SerialInv' /\ RowsGrow
  BY <1>3, <1>4, <1>5, SerialCheckAdd, SerialWriteAdd, SerialCheckBatch, SerialWriteBatch,
     SerialCheckCreate, SerialWriteCreate, SerialWriteRename DEF ServeRequest
<1> QED
  BY <1>1, <1>3, <1>5, SerialBegin DEF Next, GroupServiceNext

LEMMA SerialInit == Init => SerialInv
<1> SUFFICES ASSUME Init PROVE SerialInv
  OBVIOUS
<1>1. \A g \in DOMAIN groups : groups[g] = <<>> /\ Len(groups[g]) = 0 /\ ToSet(groups[g]) = {}
  BY DEF Init, ToSet
<1>2. Apart /\ CapacityRespected
  BY <1>1, FormatAssumption DEF Apart, CapacityRespected, Distinct
<1>3. \A w \in Worker : Knows(req[w])
  BY DEF Init, GroupServiceInit, NoRequest, Knows
<1> QED
  BY <1>2, <1>3 DEF SerialInv

LEMMA SerialAlways == ASSUME Serially PROVE Spec => [](TypeInv /\ SerialInv)
<1>1. TypeInv /\ SerialInv /\ [Next]_vars => SerialInv'
  BY SerialStep
<1> QED
  BY <1>1, TypeInvInit, TypeInvStep, SerialInit, PTL DEF Spec

\* Served one at a time, requests leave no team in the tournament twice
\* (the check of GroupDelegate on FindByTournamentIdAndTeamId), wherever they
\* abort.  The hypothesis on the payloads is needed: a list that names a team
\* twice passes the check twice.
THEOREM NobodyIsInTwice == ASSUME Serially PROVE Spec => []OneGroupPerTeam
  BY SerialAlways, ApartIsOneGroup, PTL DEF SerialInv

\* Nor do they leave more teams in a group than it has places ("Group is full").
THEOREM NoGroupOverfull == ASSUME Serially PROVE Spec => []CapacityRespected
<1>1. SerialInv => CapacityRespected
  BY DEF SerialInv
<1> QED
  BY <1>1, SerialAlways, PTL

\* And a team leaves a group only with the group, renaming included: the list
\* that goes back is the one that is there.
THEOREM TeamsStayWhenSerial == ASSUME Serially PROVE Spec => TeamsStay
<1>1. TypeInv /\ SerialInv /\ [Next]_vars
        => [\A g \in DOMAIN groups \cap DOMAIN groups' :
              ToSet(groups[g]) \subseteq ToSet(groups'[g])]_vars
  BY SerialStep DEF RowsGrow
<1> QED
  BY <1>1, SerialAlways, PTL DEF Spec, TeamsStay

---------------------------------------------------------------------------
\* The rows a SELECT returns: each group once, in some order.

Lists(order, S) == order \in Seq(S) /\ ToSet(order) = S /\ Distinct(order)

LEMMA SequenceOf ==
  ASSUME NEW S, NEW s \in Seq(S)
  PROVE  /\ Len(s) \in Nat /\ DOMAIN s = 1..Len(s)
         /\ \A i \in 1..Len(s) : s[i] \in S
         /\ ToSet(s) = {s[i] : i \in 1..Len(s)}
  BY LenProperties, ElementOfSeq DEF ToSet

LEMMA InsertedPlaces ==
  ASSUME NEW S, NEW s \in Seq(S), NEW g \in S, NEW i \in 1..(Len(s) + 1)
  PROVE  LET new == InsertAt(s, i, g)
         IN  /\ new \in Seq(S) /\ Len(new) = Len(s) + 1
             /\ new[i] = g
             /\ \A j \in 1..(i - 1) : new[j] = s[j]
             /\ \A j \in (i + 1)..(Len(s) + 1) : new[j] = s[j - 1]
<1> DEFINE n     == Len(s)
           front == SubSeq(s, 1, i - 1)
           back  == SubSeq(s, i, n)
           one   == <<g>>
           start == front \o one
<1>1. n \in Nat /\ i \in Nat /\ i >= 1 /\ i <= n + 1 /\ \A j \in 1..n : s[j] \in S
  BY SequenceOf
<1>2. /\ front \in Seq(S) /\ Len(front) = i - 1
      /\ \A j \in 1..(i - 1) : front[j] = s[j]
  <2>1. \A j \in 1..(i - 1) : s[j] \in S
    BY <1>1
  <2>2. /\ front \in Seq(S) /\ Len(front) = IF 1 <= i - 1 THEN (i - 1) - 1 + 1 ELSE 0
        /\ \A j \in 1..((i - 1) - 1 + 1) : front[j] = s[1 + j - 1]
    BY <1>1, <2>1, SubSeqProperties
  <2> HIDE DEF front
  <2> QED
    BY <1>1, <2>2
<1>3. /\ back \in Seq(S) /\ Len(back) = n - i + 1
      /\ \A j \in 1..(n - i + 1) : back[j] = s[i + j - 1]
  <2>1. \A j \in i..n : s[j] \in S
    BY <1>1
  <2>2. /\ back \in Seq(S) /\ Len(back) = IF i <= n THEN n - i + 1 ELSE 0
        /\ \A j \in 1..(n - i + 1) : back[j] = s[i + j - 1]
    BY <1>1, <2>1, SubSeqProperties
  <2> HIDE DEF back
  <2> QED
    BY <1>1, <2>2
<1> HIDE DEF front, back
<1>4. /\ start \in Seq(S) /\ Len(start) = i
      /\ \A j \in 1..(i - 1) : start[j] = s[j]
      /\ start[i] = g
  <2>1. one \in Seq(S) /\ Len(one) = 1 /\ one[1] = g
    OBVIOUS
  <2> HIDE DEF one
  <2>2. /\ start \in Seq(S) /\ Len(start) = Len(front) + Len(one)
        /\ \A j \in 1..(Len(front) + Len(one)) :
             start[j] = IF j <= Len(front) THEN front[j] ELSE one[j - Len(front)]
    BY <1>2, <2>1, ConcatProperties
  <2> HIDE DEF start
  <2>3. /\ Len(start) = i
        /\ \A j \in 1..i : start[j] = IF j <= i - 1 THEN front[j] ELSE one[j - (i - 1)]
    BY <1>1, <1>2, <2>1, <2>2
  <2>4. i \in 1..i /\ ~(i <= i - 1) /\ i - (i - 1) = 1
    BY <1>1
  <2>5. start[i] = g
    BY <2>1, <2>3, <2>4
  <2>6. \A j \in 1..(i - 1) : j \in 1..i /\ j <= i - 1
    BY <1>1
  <2> QED
    BY <1>2, <2>2, <2>3, <2>5, <2>6
<1> HIDE DEF start
<1> DEFINE new == start \o back
<1>5. /\ new \in Seq(S) /\ Len(new) = n + 1
      /\ \A j \in 1..(n + 1) : new[j] = IF j <= i THEN start[j] ELSE back[j - i]
  <2>1. /\ new \in Seq(S) /\ Len(new) = Len(start) + Len(back)
        /\ \A j \in 1..(Len(start) + Len(back)) :
             new[j] = IF j <= Len(start) THEN start[j] ELSE back[j - Len(start)]
    BY <1>3, <1>4, ConcatProperties
  <2>2. Len(start) + Len(back) = n + 1 /\ Len(start) = i
    BY <1>1, <1>3, <1>4
  <2> HIDE DEF new
  <2> QED
    BY <2>1, <2>2
<1>6. InsertAt(s, i, g) = new
  BY DEF InsertAt, front, back, start, one
<1> HIDE DEF new
<1>7. \A j \in (i + 1)..(n + 1) : new[j] = s[j - 1]
  <2> SUFFICES ASSUME NEW j \in (i + 1)..(n + 1) PROVE new[j] = s[j - 1]
    OBVIOUS
  <2>1. j \in 1..(n + 1) /\ ~(j <= i) /\ j - i \in 1..(n - i + 1) /\ i + (j - i) - 1 = j - 1
    BY <1>1
  <2> QED
    BY <1>3, <1>5, <2>1
<1>8. new[i] = g /\ \A j \in 1..(i - 1) : new[j] = s[j]
  <2>1. i \in 1..(n + 1) /\ i <= i /\ \A j \in 1..(i - 1) : j \in 1..(n + 1) /\ j <= i
    BY <1>1
  <2> QED
    BY <1>4, <1>5, <2>1
<1> QED
  BY <1>5, <1>6, <1>7, <1>8

LEMMA InsertLists ==
  ASSUME NEW S, NEW s, Lists(s, S), NEW g, g \notin S, NEW i \in 1..(Len(s) + 1)
  PROVE  Lists(InsertAt(s, i, g), S \cup {g})
<1> DEFINE n   == Len(s)
           U   == S \cup {g}
           new == InsertAt(s, i, g)
<1>1. s \in Seq(S) /\ ToSet(s) = S /\ Distinct(s) /\ g \in U
  BY DEF Lists
<1>2. n \in Nat /\ DOMAIN s = 1..n /\ \A j \in 1..n : s[j] \in S
  BY <1>1, SequenceOf
<1>3. \A x \in S : \E j \in 1..n : s[j] = x
  BY <1>1, <1>2 DEF ToSet
<1>4. s \in Seq(U) /\ g \in U
  BY <1>1, SeqMonotonic
<1> HIDE DEF U
<1>5. /\ new \in Seq(U) /\ Len(new) = n + 1 /\ new[i] = g
      /\ \A j \in 1..(i - 1) : new[j] = s[j]
      /\ \A j \in (i + 1)..(n + 1) : new[j] = s[j - 1]
  BY <1>1, <1>4, InsertedPlaces
<1>6. DOMAIN new = 1..(n + 1) /\ ToSet(new) = {new[j] : j \in 1..(n + 1)}
  BY <1>5, SequenceOf
<1> HIDE DEF new, n, U
\* The place in s of what is at the place j of the new list.
<1> DEFINE old(j) == IF j < i THEN j ELSE j - 1
<1>7. \A j \in 1..(n + 1) : j # i => old(j) \in 1..n /\ new[j] = s[old(j)]
  <2> SUFFICES ASSUME NEW j \in 1..(n + 1), j # i PROVE old(j) \in 1..n /\ new[j] = s[old(j)]
    OBVIOUS
  <2>1. CASE j < i
    <3>1. j \in 1..(i - 1) /\ j \in 1..n /\ old(j) = j
      BY <1>2, <2>1 DEF n
    <3> QED
      BY <1>5, <3>1
  <2>2. CASE ~(j < i)
    <3>1. j \in (i + 1)..(n + 1) /\ j - 1 \in 1..n /\ old(j) = j - 1
      BY <1>2, <2>2
    <3> QED
      BY <1>5, <3>1
  <2> QED
    BY <2>1, <2>2
<1>8. \A j, k \in 1..(n + 1) : j # i /\ k # i /\ old(j) = old(k) => j = k
  BY <1>2
<1>9. \A l \in 1..n : \E j \in 1..(n + 1) : j # i /\ old(j) = l
  <2> SUFFICES ASSUME NEW l \in 1..n PROVE \E j \in 1..(n + 1) : j # i /\ old(j) = l
    OBVIOUS
  <2>1. CASE l < i
    BY <1>2, <2>1
  <2>2. CASE ~(l < i)
    <3>1. l + 1 \in 1..(n + 1) /\ l + 1 # i /\ old(l + 1) = l
      BY <1>2, <2>2
    <3> QED
      BY <3>1
  <2> QED
    BY <2>1, <2>2
<1>10. i \in 1..(n + 1)
  BY DEF n
<1> HIDE DEF old
<1>11. Distinct(new)
  <2> SUFFICES ASSUME NEW j \in 1..(n + 1), NEW k \in 1..(n + 1), new[j] = new[k]
               PROVE  j = k
    BY <1>6 DEF Distinct
  <2>1. CASE j = i \/ k = i
    BY <1>2, <1>5, <1>7, <2>1
  <2>2. CASE j # i /\ k # i
    <3>1. old(j) = old(k)
      BY <1>1, <1>2, <1>7, <2>2 DEF Distinct
    <3> QED
      BY <1>8, <2>2, <3>1
  <2> QED
    BY <2>1, <2>2
<1>12. ToSet(new) = U
  <2>1. \A j \in 1..(n + 1) : new[j] \in U
    BY <1>2, <1>5, <1>7 DEF U
  <2>2. \A x \in U : \E j \in 1..(n + 1) : new[j] = x
    <3> SUFFICES ASSUME NEW x \in S PROVE \E j \in 1..(n + 1) : new[j] = x
      BY <1>5, <1>10 DEF U
    <3>1. PICK l \in 1..n : s[l] = x
      BY <1>3
    <3>2. PICK j \in 1..(n + 1) : j # i /\ old(j) = l
      BY <1>9
    <3> QED
      BY <1>7, <3>1, <3>2
  <2> QED
    BY <1>6, <2>1, <2>2
<1> QED
  BY <1>5, <1>11, <1>12 DEF Lists, new, U

LEMMA RemovedPlaces ==
  ASSUME NEW S, NEW s \in Seq(S), NEW i \in 1..Len(s)
  PROVE  LET new == RemoveAt(s, i)
         IN  /\ new \in Seq(S) /\ Len(new) = Len(s) - 1
             /\ \A j \in 1..(Len(s) - 1) : new[j] = IF j < i THEN s[j] ELSE s[j + 1]
<1> DEFINE n     == Len(s)
           front == SubSeq(s, 1, i - 1)
           back  == SubSeq(s, i + 1, n)
           new   == front \o back
<1>1. n \in Nat /\ i \in Nat /\ i >= 1 /\ i <= n /\ \A j \in 1..n : s[j] \in S
  BY SequenceOf
<1>2. /\ front \in Seq(S) /\ Len(front) = i - 1
      /\ \A j \in 1..(i - 1) : front[j] = s[j]
  <2>1. \A j \in 1..(i - 1) : s[j] \in S
    BY <1>1
  <2>2. /\ front \in Seq(S) /\ Len(front) = IF 1 <= i - 1 THEN (i - 1) - 1 + 1 ELSE 0
        /\ \A j \in 1..((i - 1) - 1 + 1) : front[j] = s[1 + j - 1]
    BY <1>1, <2>1, SubSeqProperties
  <2> HIDE DEF front
  <2> QED
    BY <1>1, <2>2
<1>3. /\ back \in Seq(S) /\ Len(back) = n - i
      /\ \A j \in 1..(n - i) : back[j] = s[i + j]
  <2>1. \A j \in (i + 1)..n : s[j] \in S
    BY <1>1
  <2>2. /\ back \in Seq(S) /\ Len(back) = IF i + 1 <= n THEN n - (i + 1) + 1 ELSE 0
        /\ \A j \in 1..(n - (i + 1) + 1) : back[j] = s[(i + 1) + j - 1]
    BY <1>1, <2>1, SubSeqProperties
  <2> HIDE DEF back
  <2> QED
    BY <1>1, <2>2
<1> HIDE DEF front, back
<1>4. /\ new \in Seq(S) /\ Len(new) = n - 1
      /\ \A j \in 1..(n - 1) : new[j] = IF j <= i - 1 THEN front[j] ELSE back[j - (i - 1)]
  <2>1. /\ new \in Seq(S) /\ Len(new) = Len(front) + Len(back)
        /\ \A j \in 1..(Len(front) + Len(back)) :
             new[j] = IF j <= Len(front) THEN front[j] ELSE back[j - Len(front)]
    BY <1>2, <1>3, ConcatProperties
  <2>2. Len(front) + Len(back) = n - 1 /\ Len(front) = i - 1
    BY <1>1, <1>2, <1>3
  <2> HIDE DEF new
  <2> QED
    BY <2>1, <2>2
<1> HIDE DEF new
<1>5. ASSUME NEW j \in 1..(n - 1) PROVE new[j] = IF j < i THEN s[j] ELSE s[j + 1]
  <2>1. CASE j < i
    <3>1. j \in 1..(i - 1) /\ j <= i - 1
      BY <1>1, <2>1
    <3> QED
      BY <1>2, <1>4, <2>1, <3>1
  <2>2. CASE ~(j < i)
    <3>1. /\ ~(j <= i - 1) /\ j - (i - 1) \in 1..(n - i)
          /\ i + (j - (i - 1)) = j + 1
      BY <1>1, <2>2
    <3> QED
      BY <1>3, <1>4, <2>2, <3>1
  <2> QED
    BY <2>1, <2>2
<1>6. RemoveAt(s, i) = new
  BY DEF RemoveAt, front, back, new
<1> QED
  BY <1>4, <1>5, <1>6

LEMMA RemoveLists ==
  ASSUME NEW S, NEW s, Lists(s, S), NEW i \in 1..Len(s)
  PROVE  Lists(RemoveAt(s, i), S \ {s[i]})
<1> DEFINE n   == Len(s)
           R   == S \ {s[i]}
           new == RemoveAt(s, i)
\* The place in s of what is at the place j of the new list.
<1> DEFINE old(j) == IF j < i THEN j ELSE j + 1
<1>1. s \in Seq(S) /\ ToSet(s) = S /\ Distinct(s)
  BY DEF Lists
<1>2. n \in Nat /\ DOMAIN s = 1..n /\ \A j \in 1..n : s[j] \in S
  BY <1>1, SequenceOf
<1>3. \A x \in S : \E j \in 1..n : s[j] = x
  BY <1>1, <1>2 DEF ToSet
<1>4. /\ new \in Seq(S) /\ Len(new) = n - 1
      /\ \A j \in 1..(n - 1) : new[j] = IF j < i THEN s[j] ELSE s[j + 1]
  BY <1>1, RemovedPlaces
<1>5. DOMAIN new = 1..(n - 1)
  BY <1>4, SequenceOf
<1>6. i \in 1..n
  OBVIOUS
<1> HIDE DEF new, n, R
<1>7. \A j \in 1..(n - 1) : old(j) \in 1..n /\ old(j) # i /\ new[j] = s[old(j)]
  BY <1>2, <1>4, <1>6
<1>8. \A j, k \in 1..(n - 1) : old(j) = old(k) => j = k
  BY <1>2, <1>6
<1>9. \A l \in 1..n : l # i => \E j \in 1..(n - 1) : old(j) = l
  <2> SUFFICES ASSUME NEW l \in 1..n, l # i PROVE \E j \in 1..(n - 1) : old(j) = l
    OBVIOUS
  <2>1. CASE l < i
    <3>1. l \in 1..(n - 1) /\ old(l) = l
      BY <1>2, <1>6, <2>1
    <3> QED
      BY <3>1
  <2>2. CASE ~(l < i)
    <3>1. l - 1 \in 1..(n - 1) /\ old(l - 1) = l
      BY <1>2, <1>6, <2>2
    <3> QED
      BY <3>1
  <2> QED
    BY <2>1, <2>2
<1> HIDE DEF old
<1>10. Distinct(new)
  BY <1>1, <1>2, <1>5, <1>7, <1>8 DEF Distinct
<1>11. \A j \in 1..(n - 1) : new[j] \in R
  BY <1>1, <1>2, <1>6, <1>7 DEF Distinct, R
<1>12. \A x \in R : \E j \in 1..(n - 1) : new[j] = x
  <2> SUFFICES ASSUME NEW x \in S, x # s[i] PROVE \E j \in 1..(n - 1) : new[j] = x
    BY DEF R
  <2>1. PICK l \in 1..n : s[l] = x
    BY <1>3
  <2>2. PICK j \in 1..(n - 1) : old(j) = l
    BY <1>9, <2>1
  <2> QED
    BY <1>7, <2>1, <2>2
<1>13. ToSet(new) = R
  BY <1>5, <1>11, <1>12 DEF ToSet
<1>14. new \in Seq(R)
  BY <1>4, <1>5, <1>11, <1>2, LenProperties, ElementOfSeq
<1> QED
  BY <1>10, <1>13, <1>14 DEF Lists, new, R

LEMMA PlacementsList ==
  ASSUME NEW S, NEW s, Lists(s, S), NEW g, g \notin S, NEW new \in Placements(s, g)
  PROVE  Lists(new, S \cup {g})
<1>1. PICK i \in 1..(Len(s) + 1) : new = InsertAt(s, i, g)
  BY DEF Placements
<1> QED
  BY <1>1, InsertLists

LEMMA OthersList ==
  ASSUME NEW S, Lists(heap, S), NEW g
  PROVE  Lists(Others(g), S \ {g})
<1>1. /\ heap \in Seq(S) /\ Len(heap) \in Nat /\ DOMAIN heap = 1..Len(heap)
      /\ ToSet(heap) = S
  BY SequenceOf DEF Lists
<1>2. CASE Contains(heap, g)
  <2> DEFINE i == CHOOSE i \in DOMAIN heap : heap[i] = g
  <2>1. i \in 1..Len(heap) /\ heap[i] = g
    BY <1>1, <1>2 DEF Contains
  <2>2. Others(g) = RemoveAt(heap, i)
    BY <1>2 DEF Others
  <2> HIDE DEF i
  <2>3. Lists(RemoveAt(heap, i), S \ {heap[i]})
    BY <2>1, RemoveLists
  <2> QED
    BY <2>1, <2>2, <2>3
<1>3. CASE ~Contains(heap, g)
  <2>1. g \notin S
    BY <1>1, <1>3 DEF Contains, ToSet
  <2>2. S \ {g} = S
    BY <2>1
  <2> QED
    BY <1>3, <2>2 DEF Others
<1> QED
  BY <1>2, <1>3

\* The order lists the rows, and a group that is yet to be inserted has an id
\* of its own.
RowsInv ==
  /\ Lists(heap, DOMAIN groups)
  /\ \A w \in Worker : req[w].op = "create" => NewGroup(w)

\* Every statement of the repository keeps the rows listed.
LEMMA RowsWritten ==
  ASSUME Lists(heap, DOMAIN groups), NEW g
  PROVE  /\ \A ts : g \notin DOMAIN groups /\ InsertGroup(g, ts) =>
              Lists(heap', DOMAIN groups') /\ DOMAIN groups' = DOMAIN groups \cup {g}
         /\ \A ts : g \in DOMAIN groups /\ WriteGroup(g, ts) =>
              Lists(heap', DOMAIN groups') /\ DOMAIN groups' = DOMAIN groups
         /\ DeleteGroup(g) =>
              Lists(heap', DOMAIN groups') /\ DOMAIN groups' = DOMAIN groups \ {g}
<1> DEFINE S == DOMAIN groups
<1>1. ASSUME NEW ts, g \notin S, InsertGroup(g, ts)
      PROVE  Lists(heap', DOMAIN groups') /\ DOMAIN groups' = S \cup {g}
  <2>1. DOMAIN groups' = S \cup {g}
    BY <1>1 DEF InsertGroup
  <2>2. heap \in Seq(S) /\ Len(heap) \in Nat
    BY SequenceOf DEF Lists
  <2>3. heap' \in Placements(heap, g)
    <3>1. CASE heap' = Append(heap, g)
      <4>1. Len(heap) + 1 \in 1..(Len(heap) + 1)
        BY <2>2
      <4>2. InsertAt(heap, Len(heap) + 1, g) = Append(heap, g)
        <5> DEFINE U == S \cup {g}
                   new == InsertAt(heap, Len(heap) + 1, g)
                   app == Append(heap, g)
        <5>1. heap \in Seq(U) /\ g \in U
          BY <2>2, SeqMonotonic
        <5>2. /\ app \in Seq(U) /\ Len(app) = Len(heap) + 1
              /\ \A j \in 1..Len(heap) : app[j] = heap[j]
              /\ app[Len(heap) + 1] = g
          BY <5>1, AppendProperties
        <5> HIDE DEF U
        <5>3. /\ new \in Seq(U) /\ Len(new) = Len(heap) + 1
              /\ \A j \in 1..((Len(heap) + 1) - 1) : new[j] = heap[j]
              /\ new[Len(heap) + 1] = g
          BY <4>1, <5>1, InsertedPlaces
        <5> HIDE DEF new, app
        <5>4. \A j \in 1..(Len(heap) + 1) : new[j] = app[j]
          BY <2>2, <5>2, <5>3
        <5>5. new = app
          BY <5>2, <5>3, <5>4, SeqEqual
        <5> QED
          BY <5>5 DEF new, app
      <4> QED
        BY <3>1, <4>1, <4>2 DEF Placements
    <3> QED
      BY <1>1, <3>1, FormatAssumption DEF InsertGroup
  <2> QED
    BY <1>1, <2>1, <2>3, PlacementsList
<1>2. ASSUME NEW ts, g \in S, WriteGroup(g, ts)
      PROVE  Lists(heap', DOMAIN groups') /\ DOMAIN groups' = S
  <2>1. DOMAIN groups' = S
    BY <1>2 DEF WriteGroup
  <2>2. CASE heap' = heap
    BY <2>1, <2>2
  <2>3. CASE heap' \in Placements(Others(g), g)
    <3>1. Lists(Others(g), S \ {g}) /\ g \notin S \ {g} /\ (S \ {g}) \cup {g} = S
      BY <1>2, OthersList
    <3>2. Lists(heap', (S \ {g}) \cup {g})
      BY <2>3, <3>1, PlacementsList
    <3> QED
      BY <2>1, <3>1, <3>2
  <2> QED
    BY <1>2, <2>2, <2>3, FormatAssumption DEF WriteGroup
<1>3. ASSUME DeleteGroup(g) PROVE Lists(heap', DOMAIN groups') /\ DOMAIN groups' = S \ {g}
  BY <1>3, OthersList DEF DeleteGroup
<1> QED
  BY <1>1, <1>2, <1>3

\* A step of w after which the rows are listed; only a group that w inserts is
\* new, only w's own group is announced, and w asks for no group that another
\* request is about to insert.
LEMMA RowsKept ==
  ASSUME RowsInv, NEW w \in Worker, Lists(heap', DOMAIN groups'),
         \A g \in DOMAIN groups' \ DOMAIN groups : req[w].op = "create" /\ req[w].group = g,
         \A i \in DOMAIN teamEvents' :
           \/ i \in DOMAIN teamEvents /\ teamEvents'[i] = teamEvents[i]
           \/ teamEvents'[i].group = req[w].group,
         \A v \in Worker \ {w} : req'[v] = req[v],
         \A v \in Worker \ {w} : req[v].op = "create" => req'[w].group # req[v].group,
         req'[w].op = "create" => NewGroup(w)'
  PROVE  RowsInv'
<1>1. ASSUME NEW v \in Worker \ {w}, req'[v].op = "create" PROVE NewGroup(v)'
  <2>1. req'[v] = req[v] /\ NewGroup(v)
    BY <1>1 DEF RowsInv
  <2>2. req[w].group # req[v].group /\ req'[w].group # req[v].group
    BY <1>1, <2>1 DEF NewGroup
  <2>3. req[v].group \in GroupId \ DOMAIN groups'
    BY <2>1, <2>2 DEF NewGroup
  <2>4. \A i \in DOMAIN teamEvents' : teamEvents'[i].group # req[v].group
    BY <2>1, <2>2 DEF NewGroup
  <2>5. \A u \in Worker \ {v} : req'[u].group # req[v].group
    BY <2>1, <2>2 DEF NewGroup
  <2> QED
    BY <2>1, <2>3, <2>4, <2>5 DEF NewGroup
<1> QED
  BY <1>1 DEF RowsInv

\* The end of a request is such a step.
LEMMA RowsFinish ==
  ASSUME TypeInv, RowsInv, NEW w \in Worker, Finish(w), Lists(heap', DOMAIN groups'),
         \A g \in DOMAIN groups' \ DOMAIN groups : req[w].op = "create" /\ req[w].group = g,
         \A i \in DOMAIN teamEvents' :
           \/ i \in DOMAIN teamEvents /\ teamEvents'[i] = teamEvents[i]
           \/ teamEvents'[i].group = req[w].group
  PROVE  RowsInv'
<1>1. req'[w] = NoRequest /\ \A v \in Worker \ {w} : req'[v] = req[v]
  BY DEF Finish, TypeInv, RequestOK
<1>2. NoRequest.group = NoGroup /\ NoRequest.op # "create" /\ NoGroup \notin GroupId
  BY GroupServiceAssumption DEF NoRequest, NoGroup
<1>3. \A v \in Worker : req[v].op = "create" => req[v].group \in GroupId
  BY DEF RowsInv, NewGroup
<1> QED
  BY <1>1, <1>2, <1>3, RowsKept

\* So is the next team or phase of a request.
LEMMA RowsGoOn ==
  ASSUME RowsInv, NEW w \in Worker, Lists(heap', DOMAIN groups'), UNCHANGED teamEvents,
         DOMAIN groups' = DOMAIN groups,
         \A v \in Worker \ {w} : req'[v] = req[v],
         req'[w].op = req[w].op /\ req'[w].group = req[w].group
  PROVE  RowsInv'
<1>1. \A v \in Worker \ {w} : req[v].op = "create" => req'[w].group # req[v].group
  BY DEF RowsInv, NewGroup
<1>2. req'[w].op = "create" => NewGroup(w)'
  <2> SUFFICES ASSUME req[w].op = "create" PROVE NewGroup(w)'
    OBVIOUS
  <2>1. NewGroup(w)
    BY DEF RowsInv
  <2> QED
    BY <2>1 DEF NewGroup
<1> QED
  BY <1>1, <1>2, RowsKept

LEMMA RowsBegin ==
  ASSUME TypeInv, RowsInv, NEW w \in Worker, BeginRequest(w)
  PROVE  RowsInv'
<1>1. UNCHANGED <<groups, heap, teamEvents>>
  BY DEF BeginRequest, BeginAdd, BeginBatch, BeginCreate, BeginRename, BeginRemove, store
<1> DEFINE Begun == \E op \in OpNames, g \in GroupId :
                      /\ req'[w].op = op /\ req'[w].group = g
                      /\ \A v \in Worker \ {w} : req'[v] = req[v]
                      /\ IF op = "create" THEN Fresh(g) ELSE g \in DOMAIN groups
<1>2. Begun
  <2>1. ASSUME NEW op \in OpNames, NEW pc, NEW g, NEW ts, NEW seen, Begin(w, op, pc, g, ts, seen)
        PROVE  /\ req'[w].op = op /\ req'[w].group = g
               /\ \A v \in Worker \ {w} : req'[v] = req[v]
    BY <2>1 DEF Begin, TypeInv, RequestOK
  <2>2. ASSUME NEW g \in GroupId, NEW t \in Registered, BeginAdd(w, g, t) PROVE Begun
    BY <2>1, <2>2 DEF BeginAdd, OpNames
  <2>3. ASSUME NEW g \in GroupId, NEW ts \in Payloads, BeginBatch(w, g, ts) PROVE Begun
    BY <2>1, <2>3 DEF BeginBatch, OpNames
  <2>4. ASSUME NEW g \in GroupId, NEW ts \in Payloads, BeginCreate(w, g, ts) PROVE Begun
    BY <2>1, <2>4 DEF BeginCreate, OpNames
  <2>5. ASSUME NEW g \in GroupId, BeginRename(w, g) PROVE Begun
    BY <2>1, <2>5 DEF BeginRename, OpNames
  <2>6. ASSUME NEW g \in GroupId, BeginRemove(w, g) PROVE Begun
    BY <2>1, <2>6 DEF BeginRemove, OpNames
  <2> QED
    BY <2>2, <2>3, <2>4, <2>5, <2>6 DEF BeginRequest
<1> QED
  BY <1>1, <1>2, RowsKept DEF RowsInv, NewGroup, Fresh

\* A statement that writes one group's row, or none.
LEMMA RowsUpdate ==
  ASSUME Lists(heap, DOMAIN groups), NEW g, NEW ts,
         IF g \in DOMAIN groups THEN WriteGroup(g, ts) ELSE UNCHANGED <<groups, heap>>
  PROVE  Lists(heap', DOMAIN groups') /\ DOMAIN groups' = DOMAIN groups
  BY RowsWritten

LEMMA RowsServe ==
  ASSUME TypeInv, RowsInv, NEW w \in Worker, ServeRequest(w)
  PROVE  RowsInv'
<1>1. Lists(heap, DOMAIN groups)
  BY DEF RowsInv
<1>2. ASSUME UNCHANGED <<groups, heap, teamEvents>>, Finish(w) PROVE RowsInv'
  BY <1>1, <1>2, RowsFinish
<1>3. ASSUME NextTeam(w, "write")
      PROVE  /\ req'[w].op = req[w].op /\ req'[w].group = req[w].group
             /\ \A v \in Worker \ {w} : req'[v] = req[v]
  BY <1>3 DEF NextTeam, TypeInv, RequestOK, Request
<1>4. ASSUME NEW pc, req' = [req EXCEPT ![w].pc = pc]
      PROVE  /\ req'[w].op = req[w].op /\ req'[w].group = req[w].group
             /\ \A v \in Worker \ {w} : req'[v] = req[v]
  BY <1>4 DEF TypeInv, RequestOK, Request
<1>5. CASE CheckAdd(w) \/ FailToPublish(w) \/ CheckBatch(w) \/ CheckCreate(w)
  <2>1. /\ UNCHANGED <<groups, heap, teamEvents>>
        /\ Finish(w) \/ NextTeam(w, "write") \/ req' = [req EXCEPT ![w].pc = "write"]
    BY <1>5 DEF CheckAdd, FailToPublish, CheckBatch, CheckCreate, store
  <2> QED
    BY <1>1, <1>2, <1>3, <1>4, <2>1, RowsGoOn
<1>6. ASSUME NEW t, UpdateGroupAddTeam(req[w].group, t)
      PROVE  Lists(heap', DOMAIN groups') /\ DOMAIN groups' = DOMAIN groups
  BY <1>1, <1>6, RowsUpdate DEF UpdateGroupAddTeam
<1>7. CASE WriteAdd(w)
  BY <1>4, <1>6, <1>7, RowsGoOn DEF WriteAdd
<1>8. CASE WriteBatch(w)
  <2>1. Lists(heap', DOMAIN groups') /\ DOMAIN groups' = DOMAIN groups
    BY <1>1, <1>6, <1>8 DEF WriteBatch
  <2>2. UNCHANGED teamEvents /\ (Finish(w) \/ NextTeam(w, "write"))
    BY <1>8 DEF WriteBatch
  <2> QED
    BY <1>3, <2>1, <2>2, RowsFinish, RowsGoOn
<1>9. CASE PublishTeamAdd(w)
  <2> DEFINE e == [group |-> req[w].group, team |-> Current(w)]
  <2>1. /\ teamEvents' = Append(teamEvents, e) /\ UNCHANGED <<groups, heap>> /\ Finish(w)
    BY <1>9 DEF PublishTeamAdd
  <2>2. e \in TeamEvent /\ teamEvents \in Seq(TeamEvent) /\ e.group = req[w].group
    BY <1>9, GroupServiceAssumption
    DEF PublishTeamAdd, At, TypeInv, RequestOK, QueueTypeOK, Current, TeamEvent
  <2> HIDE DEF e
  <2>3. ASSUME NEW i \in DOMAIN teamEvents'
        PROVE  teamEvents'[i] = e \/ (i \in DOMAIN teamEvents /\ teamEvents'[i] = teamEvents[i])
    BY <2>1, <2>2, AppendProperties, LenProperties
  <2> QED
    BY <1>1, <2>1, <2>2, <2>3, RowsFinish
<1>10. CASE WriteCreate(w)
  <2>1. /\ NewGroup(w) /\ Finish(w) /\ UNCHANGED teamEvents /\ req[w].op = "create"
        /\ InsertGroup(req[w].group, req[w].teams)
    BY <1>10 DEF WriteCreate, At, RowsInv
  <2>2. Lists(heap', DOMAIN groups') /\ DOMAIN groups' = DOMAIN groups \cup {req[w].group}
    BY <1>1, <2>1, RowsWritten DEF NewGroup
  <2> QED
    BY <2>1, <2>2, RowsFinish
<1>11. CASE WriteRename(w)
  <2>1. Lists(heap', DOMAIN groups') /\ DOMAIN groups' = DOMAIN groups
    BY <1>1, <1>11, RowsUpdate DEF WriteRename
  <2> QED
    BY <1>11, <2>1, RowsFinish DEF WriteRename
<1>12. CASE WriteRemove(w)
  <2>1. Lists(heap', DOMAIN groups') /\ DOMAIN groups' = DOMAIN groups \ {req[w].group}
    BY <1>1, <1>12, RowsWritten DEF WriteRemove
  <2> QED
    BY <1>12, <2>1, RowsFinish DEF WriteRemove
<1> QED
  BY <1>5, <1>7, <1>8, <1>9, <1>10, <1>11, <1>12 DEF ServeRequest

LEMMA RowsStep == ASSUME TypeInv, RowsInv, [Next]_vars PROVE RowsInv'
<1>1. CASE UNCHANGED vars
  BY <1>1 DEF vars, store, RowsInv, Lists, Distinct, NewGroup
<1>2. ASSUME NEW w \in Worker, Abort(w) PROVE RowsInv'
  BY <1>2, RowsFinish DEF Abort, store, RowsInv
<1> QED
  BY <1>1, <1>2, RowsBegin, RowsServe DEF Next, GroupServiceNext

---------------------------------------------------------------------------
\* Requests that only ever add teams and groups

NoRemove == "remove" \notin Ops

\* No request under way renames or removes a group.
OnlyAdding == \A w \in Worker : req[w].op \notin {"rename", "remove"}

GroupsGrow == RowsGrow /\ DOMAIN groups \subseteq DOMAIN groups'

LEMMA AddingStep ==
  ASSUME NoRename, NoRemove, TypeInv, RowsInv, OnlyAdding, [Next]_vars
  PROVE  OnlyAdding' /\ GroupsGrow
<1>1. CASE UNCHANGED vars
  BY <1>1 DEF vars, store, OnlyAdding, GroupsGrow, RowsGrow
<1>2. ASSUME NEW w \in Worker, BeginRequest(w) \/ Abort(w) PROVE OnlyAdding' /\ GroupsGrow
  <2>1. UNCHANGED groups
    BY <1>2 DEF BeginRequest, BeginAdd, BeginBatch, BeginCreate, BeginRename, BeginRemove, Abort,
                store
  <2>2. OnlyAdding'
    BY <1>2 DEF BeginRequest, BeginAdd, BeginBatch, BeginCreate, BeginRename, BeginRemove, Abort,
                Begin, Finish, NoRequest, Accepts, NoRename, NoRemove, OnlyAdding, TypeInv,
                RequestOK
  <2> QED
    BY <2>1, <2>2 DEF GroupsGrow, RowsGrow
<1>3. ASSUME NEW w \in Worker, ServeRequest(w) PROVE OnlyAdding' /\ GroupsGrow
  <2>1. ~WriteRename(w) /\ ~WriteRemove(w)
    BY DEF WriteRename, WriteRemove, At, OnlyAdding
  <2>2. ASSUME NEW t \in Team, UpdateGroupAddTeam(req[w].group, t), req[w].group \in GroupId
        PROVE  GroupsGrow
    BY <2>2, AddedTeamStored DEF GroupsGrow
  <2>3. ASSUME WriteCreate(w) PROVE GroupsGrow
    BY <2>3 DEF WriteCreate, InsertGroup, At, RowsInv, NewGroup, GroupsGrow, RowsGrow
  <2>4. ASSUME WriteAdd(w) PROVE GroupsGrow
    <3>1. /\ req[w].group \in GroupId /\ Current(w) \in Team
          /\ UpdateGroupAddTeam(req[w].group, Current(w))
      BY <2>4, GroupServiceAssumption DEF WriteAdd, At, TypeInv, RequestOK, Current
    <3> QED
      BY <2>2, <3>1
  <2>5. ASSUME WriteBatch(w) PROVE GroupsGrow
    <3>1. ASSUME Current(w) \in Registered PROVE GroupsGrow
      <4>1. /\ Current(w) \in Team /\ UpdateGroupAddTeam(req[w].group, Current(w))
            /\ req[w].group \in GroupId
        BY <2>5, <3>1, GroupServiceAssumption DEF WriteBatch, At, TypeInv, RequestOK
      <4> QED
        BY <2>2, <4>1
    <3>2. ASSUME Current(w) \notin Registered PROVE GroupsGrow
      BY <2>5, <3>2 DEF WriteBatch, GroupsGrow, RowsGrow
    <3> QED
      BY <3>1, <3>2
  <2>6. ASSUME \/ CheckAdd(w) \/ PublishTeamAdd(w) \/ FailToPublish(w)
               \/ CheckBatch(w) \/ CheckCreate(w)
        PROVE  GroupsGrow
    <3>1. UNCHANGED groups
      BY <2>6 DEF CheckAdd, PublishTeamAdd, FailToPublish, CheckBatch, CheckCreate, store
    <3> QED
      BY <3>1 DEF GroupsGrow, RowsGrow
  <2>7. GroupsGrow
    BY <1>3, <2>1, <2>3, <2>4, <2>5, <2>6 DEF ServeRequest
  <2>8. req'[w].op \in {req[w].op, "none"} /\ \A v \in Worker \ {w} : req'[v] = req[v]
    BY <1>3 DEF ServeRequest, CheckAdd, WriteAdd, PublishTeamAdd, FailToPublish, CheckBatch,
                WriteBatch, CheckCreate, WriteCreate, WriteRename, WriteRemove, Finish, NoRequest,
                NextTeam, TypeInv, RequestOK, Request
  <2> QED
    BY <2>7, <2>8 DEF OnlyAdding
<1> QED
  BY <1>1, <1>2, <1>3 DEF Next, GroupServiceNext
===============================================================================
