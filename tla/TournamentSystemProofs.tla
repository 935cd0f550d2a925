------------------------ MODULE TournamentSystemProofs ------------------------
(***************************************************************************)
(* Theorems about the whole system: its types, and that fixtures are only  *)
(* drawn between teams of one group, for any number of groups, workers and *)
(* requests.  A step of the system is a step of GroupSystem, of the match  *)
(* routes or of the consumer, so the lemmas about those parts are used as  *)
(* they are.                                                               *)
(***************************************************************************)
EXTENDS TournamentSystem, StrategyProofs

\* The group requests: what GroupSystemProofs shows of a step.
G == INSTANCE GroupSystemProofs WITH InitialHeap <- <<>>

---------------------------------------------------------------------------
\* A group step is a step of GroupSystem.  The instance has its own copies of
\* the operators; they are the same, one after the other.

LEMMA GroupAssumptions ==
  /\ G!TeamAssumption /\ G!FormatAssumption
  /\ G!GroupServiceAssumption /\ G!GroupSystemAssumption
<1>1. G!TeamAssumption /\ G!FormatAssumption
  BY TeamAssumption, FormatAssumption DEF G!TeamAssumption, G!FormatAssumption
<1>2. G!GroupServiceAssumption
  BY GroupServiceAssumption
  DEF G!GroupServiceAssumption, G!OpNames, OpNames, G!IsFiniteSet, IsFiniteSet
<1>3. G!GroupSystemAssumption
  <2>1. <<>> \in Seq(GroupId) /\ DOMAIN <<>> = {}
    BY EmptySeq
  <2> QED
    BY <2>1, TournamentSystemAssumption DEF G!GroupSystemAssumption
<1> QED
  BY <1>1, <1>2, <1>3

LEMMA CopiedData ==
  /\ G!store = store /\ G!OpNames = OpNames /\ G!NoGroup = NoGroup
  /\ G!NoRequest = NoRequest /\ G!AllGroups = AllGroups
  /\ \A s : G!ToSet(s) = ToSet(s)
  /\ \A S : G!IsFiniteSet(S) <=> IsFiniteSet(S)
  BY DEF G!store, store, G!OpNames, OpNames, G!NoGroup, NoGroup, G!NoRequest, NoRequest,
         G!AllGroups, AllGroups, G!ToSet, ToSet, G!IsFiniteSet, IsFiniteSet

LEMMA CopiedOrders ==
  ASSUME NEW order, NEW g
  PROVE  G!Placements(order, g) = Placements(order, g) /\ G!Others(g) = Others(g)
  BY DEF G!Placements, Placements, G!InsertAt, InsertAt, G!Others, Others, G!Contains, Contains,
         G!RemoveAt, RemoveAt

LEMMA CopiedStatements ==
  ASSUME NEW g, NEW ts, NEW t
  PROVE  /\ InsertGroup(g, ts) <=> G!InsertGroup(g, ts)
         /\ WriteGroup(g, ts) <=> G!WriteGroup(g, ts)
         /\ UpdateGroupAddTeam(g, t) <=> G!UpdateGroupAddTeam(g, t)
         /\ DeleteGroup(g) <=> G!DeleteGroup(g)
         /\ TeamInTournament(t) <=> G!TeamInTournament(t)
<1>1. \A order, x : G!Placements(order, x) = Placements(order, x) /\ G!Others(x) = Others(x)
  BY CopiedOrders
<1>2. \A x, us : WriteGroup(x, us) <=> G!WriteGroup(x, us)
  BY <1>1 DEF WriteGroup, G!WriteGroup
<1>3. \A us, u : WithTeam(us, u) = G!WithTeam(us, u)
  BY DEF WithTeam, G!WithTeam
<1> QED
  BY <1>1, <1>2, <1>3, CopiedData
  DEF InsertGroup, G!InsertGroup, UpdateGroupAddTeam, G!UpdateGroupAddTeam,
      DeleteGroup, G!DeleteGroup, TeamInTournament, G!TeamInTournament

LEMMA CopiedRequests ==
  ASSUME NEW w, NEW op, NEW pc
  PROVE  /\ At(w, op, pc) <=> G!At(w, op, pc)
         /\ Accepts(w, op) <=> G!Accepts(w, op)
         /\ Current(w) = G!Current(w)
         /\ Finish(w) <=> G!Finish(w)
         /\ NextTeam(w, pc) <=> G!NextTeam(w, pc)
         /\ \A g : Fresh(g) <=> G!Fresh(g)
         /\ \A g, ts, seen : Begin(w, op, pc, g, ts, seen) <=> G!Begin(w, op, pc, g, ts, seen)
  BY CopiedData DEF At, G!At, Accepts, G!Accepts, Current, G!Current, Finish, G!Finish,
     NextTeam, G!NextTeam, Fresh, G!Fresh, Begin, G!Begin

LEMMA CopiedBegins ==
  ASSUME NEW w
  PROVE  BeginRequest(w) => G!BeginRequest(w)
<1>1. \A g, t : BeginAdd(w, g, t) => G!BeginAdd(w, g, t)
  BY CopiedRequests DEF store, G!store, BeginAdd, G!BeginAdd
<1>2. \A g, ts : BeginBatch(w, g, ts) => G!BeginBatch(w, g, ts)
  BY CopiedRequests DEF store, G!store, BeginBatch, G!BeginBatch
<1>3. \A g, ts : BeginCreate(w, g, ts) => G!BeginCreate(w, g, ts)
  BY CopiedRequests DEF store, G!store, BeginCreate, G!BeginCreate
<1>4. \A g : BeginRename(w, g) => G!BeginRename(w, g)
  BY CopiedRequests DEF store, G!store, BeginRename, G!BeginRename
<1>5. \A g : BeginRemove(w, g) => G!BeginRemove(w, g)
  BY CopiedRequests DEF store, G!store, BeginRemove, G!BeginRemove
<1> QED
  BY <1>1, <1>2, <1>3, <1>4, <1>5 DEF BeginRequest, G!BeginRequest

LEMMA CopiedServes ==
  ASSUME NEW w
  PROVE  ServeRequest(w) => G!ServeRequest(w)
<1>1. CheckAdd(w) => G!CheckAdd(w)
  BY CopiedRequests, CopiedStatements DEF store, G!store, CheckAdd, G!CheckAdd
<1>2. WriteAdd(w) => G!WriteAdd(w)
  BY CopiedRequests, CopiedStatements DEF store, G!store, WriteAdd, G!WriteAdd
<1>3. PublishTeamAdd(w) => G!PublishTeamAdd(w)
  BY CopiedRequests DEF PublishTeamAdd, G!PublishTeamAdd
<1>4. FailToPublish(w) => G!FailToPublish(w)
  BY CopiedRequests DEF store, G!store, FailToPublish, G!FailToPublish
<1>5. CheckBatch(w) => G!CheckBatch(w)
  BY CopiedRequests, CopiedStatements DEF store, G!store, CheckBatch, G!CheckBatch
<1>6. WriteBatch(w) => G!WriteBatch(w)
  BY CopiedRequests, CopiedStatements DEF WriteBatch, G!WriteBatch
<1>7. CheckCreate(w) => G!CheckCreate(w)
  BY CopiedRequests, CopiedStatements DEF store, G!store, CheckCreate, G!CheckCreate
<1>8. WriteCreate(w) => G!WriteCreate(w)
  BY CopiedRequests, CopiedStatements DEF WriteCreate, G!WriteCreate
<1>9. WriteRename(w) => G!WriteRename(w)
  BY CopiedRequests, CopiedStatements DEF WriteRename, G!WriteRename
<1>10. WriteRemove(w) => G!WriteRemove(w)
  BY CopiedRequests, CopiedStatements DEF WriteRemove, G!WriteRemove
<1> QED
  BY <1>1, <1>2, <1>3, <1>4, <1>5, <1>6, <1>7, <1>8, <1>9, <1>10 DEF ServeRequest, G!ServeRequest

LEMMA GroupStepIs == GroupStep => G!Next
<1>1. \A w : Abort(w) => G!Abort(w)
  BY CopiedRequests DEF store, G!store, Abort, G!Abort
<1>2. GroupServiceNext => G!GroupServiceNext
  BY <1>1, CopiedBegins, CopiedServes DEF GroupServiceNext, G!GroupServiceNext
<1> QED
  BY <1>2 DEF GroupStep, G!Next

LEMMA CopiedTypes ==
  /\ G!MatchKey = MatchKey /\ G!Result = Result /\ G!TeamEvent = TeamEvent
  /\ G!Request = Request
  BY CopiedData DEF G!MatchKey, MatchKey, G!Rounds, Rounds, G!Result, Result, G!NoTeam, NoTeam,
     G!TeamEvent, TeamEvent, G!Request, Request

---------------------------------------------------------------------------
\* Types

\* A listener that inserts has a fixture to insert, of the kind it serves.
TeamListenerOK ==
  /\ teamListener \in ListenerState
  /\ teamListener.pc = "inserting" =>
       teamListener.todo \in Seq(KeysOf("group")) /\ teamListener.todo # <<>>

ScoreListenerOK ==
  /\ scoreListener \in ListenerState
  /\ scoreListener.pc = "inserting" =>
       scoreListener.todo \in Seq(KnockoutKey) /\ scoreListener.todo # <<>>

CountsOK == publishing \in 0..PatchWorkers /\ faults \in 0..MaxFaults

\* That every row listed is there (G!RowsInv) is what makes a SELECT return
\* groups: a listener reads while requests insert, move and delete rows.
TypeInv ==
  /\ G!TypeInv /\ G!RowsInv
  /\ MatchTable(matches) /\ CountsOK
  /\ TeamListenerOK /\ ScoreListenerOK

LEMMA TypeInvIsTypeOK == TypeInv => TypeOK
  BY CopiedTypes DEF TypeInv, TypeOK, StoreTypeOK, ConsumerTypeOK, G!TypeInv, G!GroupsTypeOK,
     G!RequestOK, G!QueueTypeOK, CountsOK, TeamListenerOK, ScoreListenerOK

\* What a SELECT of the groups returns.
LEMMA AllGroupsType ==
  ASSUME TypeInv
  PROVE  /\ AllGroups \in Seq(Seq(Team))
         /\ \A i \in DOMAIN AllGroups : \E g \in DOMAIN groups : AllGroups[i] = groups[g]
<1>1. heap \in Seq(DOMAIN groups) /\ \A g \in DOMAIN groups : groups[g] \in Seq(Team)
  BY DEF TypeInv, G!TypeInv, G!GroupsTypeOK, G!RowsInv, G!Lists
<1>2. /\ Len(heap) \in Nat /\ DOMAIN heap = 1..Len(heap)
      /\ \A i \in 1..Len(heap) : heap[i] \in DOMAIN groups
  BY <1>1, LenProperties, ElementOfSeq
<1>3. AllGroups \in [1..Len(heap) -> Seq(Team)]
  BY <1>1, <1>2 DEF AllGroups
<1>4. AllGroups \in Seq(Seq(Team))
  BY <1>2, <1>3, FunctionIsSeq
<1> QED
  BY <1>2, <1>4 DEF AllGroups

LEMMA IdleType == Idle \in ListenerState /\ Idle.pc = "idle"
  BY DEF Idle, ListenerState

LEMMA InitTypes == Init => TypeInv
<1> SUFFICES ASSUME Init PROVE TypeInv
  OBVIOUS
<1>1. PICK s \in Starts : /\ groups = s.groups /\ heap = s.heap /\ matches = s.matches
                          /\ teamEvents = s.teamEvents /\ scoreEvents = s.scoreEvents
  BY DEF Init
<1>2. /\ teamListener = Idle /\ scoreListener = Idle /\ faults = 0 /\ publishing = 0
      /\ req = [w \in Worker |-> NoRequest]
  BY DEF Init, MatchServiceInit, ConsumerInit, GroupServiceInit
<1>3. MatchTable(matches)
  BY <1>1, StartsAssumption DEF MatchTable
<1>4. heap \in Seq(DOMAIN groups) /\ heap \in Seq(GroupId)
  BY <1>1, StartsAssumption, SeqMonotonic
<1>5. G!RowsInv
  <2>1. G!Lists(heap, DOMAIN groups)
    BY <1>1, <1>4, StartsAssumption, CopiedData DEF G!Lists, G!Distinct, IsInjective
  <2>2. \A w \in Worker : req[w].op # "create"
    BY <1>2 DEF NoRequest
  <2> QED
    BY <2>1, <2>2 DEF G!RowsInv
<1>6. G!TypeInv
  <2>1. NoRequest \in Request /\ NoRequest.pc = "idle" /\ NoRequest.op # "add"
    BY DEF NoRequest, Request, NoGroup
  <2>2. G!RequestOK
    BY <1>2, <2>1, CopiedTypes DEF G!RequestOK
  <2> QED
    BY <1>1, <1>4, <2>2, StartsAssumption, CopiedTypes DEF G!TypeInv, G!GroupsTypeOK, G!QueueTypeOK
<1>7. CountsOK
  BY <1>2, FaultsAssumption, MatchServiceAssumption DEF CountsOK
<1> QED
  BY <1>2, <1>3, <1>5, <1>6, <1>7, IdleType DEF TypeInv, TeamListenerOK, ScoreListenerOK

LEMMA GroupStepLeaves == GroupStep => UNCHANGED <<matches, publishing, listeners, faults>>
  BY DEF GroupStep, GroupServiceNext, BeginRequest, ServeRequest, Abort, BeginAdd, BeginBatch,
         BeginCreate, BeginRename, BeginRemove, CheckAdd, WriteAdd, PublishTeamAdd,
         FailToPublish, CheckBatch, WriteBatch, CheckCreate, WriteCreate, WriteRename,
         WriteRemove, store

LEMMA GroupStepTypes == ASSUME TypeInv, GroupStep PROVE TypeInv'
<1>1. G!TypeInv' /\ G!RowsInv'
  BY GroupAssumptions, GroupStepIs, G!TypeInvStep, G!RowsStep DEF TypeInv
<1>2. UNCHANGED <<matches, publishing, listeners, faults>>
  BY GroupStepLeaves
<1> QED
  BY <1>1, <1>2 DEF TypeInv, MatchTable, CountsOK, TeamListenerOK, ScoreListenerOK, listeners

\* The other steps leave the groups and the requests alone; they only take events
\* out of the queue of announcements.
LEMMA OtherStepGroups ==
  ASSUME TypeInv, UNCHANGED <<groups, heap, req>>,
         teamEvents' = teamEvents \/ (teamEvents # <<>> /\ teamEvents' = Tail(teamEvents)),
         MatchTable(matches'), scoreEvents' \in Nat
  PROVE  G!TypeInv' /\ G!RowsInv'
<1>1. teamEvents \in Seq(TeamEvent)
  BY CopiedTypes DEF TypeInv, G!TypeInv, G!QueueTypeOK
<1>2. /\ teamEvents' \in Seq(TeamEvent)
      /\ \A i \in DOMAIN teamEvents' : \E j \in DOMAIN teamEvents : teamEvents'[i] = teamEvents[j]
  <2>1. CASE teamEvents # <<>> /\ teamEvents' = Tail(teamEvents)
    <3>1. /\ Tail(teamEvents) \in Seq(TeamEvent)
          /\ Len(Tail(teamEvents)) = Len(teamEvents) - 1
          /\ \A i \in 1..Len(Tail(teamEvents)) : Tail(teamEvents)[i] = teamEvents[i + 1]
      BY <1>1, <2>1, HeadTailProperties
    <3>2. /\ Len(teamEvents) \in Nat /\ DOMAIN teamEvents = 1..Len(teamEvents)
          /\ DOMAIN Tail(teamEvents) = 1..Len(Tail(teamEvents))
      BY <1>1, <3>1, LenProperties
    <3>3. \A i \in 1..(Len(teamEvents) - 1) : i + 1 \in 1..Len(teamEvents)
      BY <3>2
    <3> QED
      BY <2>1, <3>1, <3>2, <3>3
  <2> QED
    BY <1>1, <2>1
<1>3. G!TypeInv'
  BY <1>2, CopiedTypes
  DEF TypeInv, G!TypeInv, G!GroupsTypeOK, G!RequestOK, G!QueueTypeOK, MatchTable
<1>4. ASSUME NEW w \in Worker, req'[w].op = "create" PROVE G!NewGroup(w)'
  <2>1. G!NewGroup(w)
    BY <1>4 DEF TypeInv, G!RowsInv
  <2> QED
    BY <1>2, <2>1 DEF G!NewGroup
<1>5. G!Lists(heap', DOMAIN groups')
  BY DEF TypeInv, G!RowsInv
<1> QED
  BY <1>3, <1>4, <1>5 DEF G!RowsInv

\* A score sets the winner to one of the two teams.
LEMMA ScoredResultType ==
  ASSUME NEW k \in MatchKey, NEW s \in Scores
  PROVE  ScoredResult(k, s) \in Result
<1>1. s[1] \in Nat /\ s[2] \in Nat /\ s = <<s[1], s[2]>>
  BY MatchServiceAssumption
<1>2. k.home \in Team /\ k.visitor \in Team
  BY DEF MatchKey
<1>3. WinnerTeamId(k, s) \in {k.home, k.visitor}
  BY DEF WinnerTeamId, PickDeterministicWinner
<1>4. /\ WithScore(Unset, k, s).score = s
      /\ WithScore(Unset, k, s).winnerTeamId = WinnerTeamId(k, s)
  BY DEF WithScore, Unset
<1>5. s # NoScore
  BY <1>1 DEF NoScore
<1>6. ScoredResult(k, s) = [home |-> s[1], visitor |-> s[2], winner |-> WinnerTeamId(k, s)]
  BY <1>4, <1>5 DEF ScoredResult, ResultOf
<1> QED
  BY <1>1, <1>2, <1>3, <1>6 DEF Result

LEMMA MatchStepTypes == ASSUME TypeInv, MatchStep PROVE TypeInv'
<1>1. /\ publishing \in Nat /\ scoreEvents \in Nat /\ faults \in Nat
      /\ publishing <= PatchWorkers /\ faults <= MaxFaults
      /\ PatchWorkers \in Nat /\ MaxFaults \in Nat /\ MatchTable(matches)
  BY FaultsAssumption, MatchServiceAssumption DEF TypeInv, CountsOK, G!TypeInv, G!QueueTypeOK
<1>2. UNCHANGED <<req, listeners, groups, heap, teamEvents>>
  BY DEF MatchStep, MatchServiceNext, UpdateScore, PublishScoreRecorded, LoseScoreRecorded,
         CreateMatch, store
<1> DEFINE Goal == MatchTable(matches') /\ scoreEvents' \in Nat /\ CountsOK'
<1>3. Goal
  <2>1. ASSUME NEW k \in DOMAIN matches, NEW s \in Scores, UpdateScore(k, s) PROVE Goal
    <3>1. matches' = [matches EXCEPT ![k] = ScoredResult(k, s)]
      BY <2>1 DEF UpdateScore, WriteResult
    <3>2. ScoredResult(k, s) \in Result
      BY <1>1, ScoredResultType DEF MatchTable
    <3> HIDE DEF ScoredResult
    <3>3. MatchTable(matches')
      BY <1>1, <3>1, <3>2, RowWritten
    <3> QED
      BY <1>1, <2>1, <3>3 DEF UpdateScore, CountsOK
  <2>2. CASE PublishScoreRecorded
    BY <1>1, <2>2 DEF PublishScoreRecorded, CountsOK
  <2>3. CASE LoseScoreRecorded
    BY <1>1, <2>3 DEF LoseScoreRecorded, Fault, store, CountsOK
  <2>4. ASSUME NEW k \in ManualMatches, CreateMatch(k) PROVE Goal
    <3>1. MatchTable(matches')
      BY <1>1, <2>4, RowInserted, MatchServiceAssumption DEF CreateMatch, InsertMatch
    <3> QED
      BY <1>1, <2>4, <3>1 DEF CreateMatch, CountsOK
  <2> QED
    BY <2>1, <2>2, <2>3, <2>4 DEF MatchStep, MatchServiceNext
<1>4. G!TypeInv' /\ G!RowsInv'
  BY <1>2, <1>3, OtherStepGroups
<1> QED
  BY <1>2, <1>3, <1>4 DEF TypeInv, TeamListenerOK, ScoreListenerOK, listeners

\* Advance drops the head of todo, or makes the listener idle.
LEMMA AdvanceIs ==
  ASSUME NEW S, S \subseteq MatchKey, NEW l \in ListenerState, l.todo \in Seq(S), l.todo # <<>>
  PROVE  /\ Head(l.todo) \in S /\ Head(l.todo) \in ToSet(l.todo)
         /\ Advance(l) \in ListenerState
         /\ \/ Advance(l) = Idle
            \/ /\ Advance(l).todo \in Seq(S) /\ Advance(l).todo # <<>>
               /\ ToSet(Advance(l).todo) \subseteq ToSet(l.todo)
<1> DEFINE t    == l.todo
           rest == Tail(t)
<1>1. /\ Head(t) \in S /\ Head(t) \in ToSet(t)
      /\ Len(t) # 1 => /\ rest \in Seq(S) /\ rest # <<>>
                       /\ ToSet(rest) \subseteq ToSet(t)
  BY RestOfList
<1>2. CASE Len(t) = 1
  BY <1>1, <1>2, IdleType DEF Advance
<1>3. CASE Len(t) # 1
  <2>1. Advance(l) = [l EXCEPT !.todo = rest]
    BY <1>3 DEF Advance
  <2>2. rest \in Seq(MatchKey)
    BY <1>1, <1>3, SeqMonotonic
  <2> HIDE DEF rest
  <2>3. Advance(l) \in ListenerState /\ Advance(l).todo = rest
    BY <2>1, <2>2 DEF ListenerState
  <2> QED
    BY <1>1, <1>3, <2>3 DEF rest
<1> QED
  BY <1>2, <1>3

\* The two queues, the matches table and the faults under the consumer.
LEMMA ConsumerStepTables ==
  ASSUME TypeInv, ConsumerStep
  PROVE  /\ UNCHANGED <<groups, heap, req, publishing>>
         /\ teamEvents' = teamEvents \/ (teamEvents # <<>> /\ teamEvents' = Tail(teamEvents))
         /\ MatchTable(matches') /\ scoreEvents' \in Nat /\ CountsOK'
<1>1. /\ scoreEvents \in Nat /\ faults \in Nat /\ faults <= MaxFaults /\ MaxFaults \in Nat
      /\ MatchTable(matches) /\ CountsOK
  BY FaultsAssumption DEF TypeInv, CountsOK, G!TypeInv, G!QueueTypeOK
<1>2. UNCHANGED <<groups, heap, req, publishing>>
  BY DEF ConsumerStep, ConsumerNext, TeamListenerStep, ScoreListenerStep, ReceiveTeamAdd,
         IsTournamentReady, CreateGroupStageMatches, InsertGroupMatch, ReceiveScoreRecorded,
         AllGroupMatchesPlayed, ReadGroups, CreateKnockoutMatches, CrashReadingWinners,
         InsertKnockoutMatch, TeamListenerError, ScoreListenerError, ConsumerCrash,
         BrokerRestart, store
<1> DEFINE Goal ==
      /\ teamEvents' = teamEvents \/ (teamEvents # <<>> /\ teamEvents' = Tail(teamEvents))
      /\ MatchTable(matches') /\ scoreEvents' \in Nat /\ CountsOK'
<1>3. CASE ReceiveTeamAdd \/ ReceiveScoreRecorded
  BY <1>1, <1>2, <1>3 DEF ReceiveTeamAdd, ReceiveScoreRecorded, CountsOK
<1>4. CASE InsertGroupMatch
  <2>1. MatchTable(matches')
    <3>1. CASE UNCHANGED matches
      BY <1>1, <3>1
    <3>2. CASE InsertMatch(Head(teamListener.todo))
      <4>1. Head(teamListener.todo) \in MatchKey
        BY <1>4, KeyKinds, AdvanceIs DEF InsertGroupMatch, TypeInv, TeamListenerOK
      <4> QED
        BY <1>1, <3>2, <4>1, RowInserted DEF InsertMatch
    <3> QED
      BY <1>4, <3>1, <3>2 DEF InsertGroupMatch
  <2> QED
    BY <1>1, <1>2, <1>4, <2>1 DEF InsertGroupMatch, CountsOK
<1>5. CASE InsertKnockoutMatch
  <2>1. MatchTable(matches')
    <3>1. CASE UNCHANGED matches
      BY <1>1, <3>1
    <3>2. CASE InsertMatch(Head(scoreListener.todo))
      <4>1. Head(scoreListener.todo) \in MatchKey
        BY <1>5, KeyKinds, AdvanceIs DEF InsertKnockoutMatch, TypeInv, ScoreListenerOK
      <4> QED
        BY <1>1, <3>2, <4>1, RowInserted DEF InsertMatch
    <3> QED
      BY <1>5, <3>1, <3>2 DEF InsertKnockoutMatch
  <2> QED
    BY <1>1, <1>2, <1>5, <2>1 DEF InsertKnockoutMatch, CountsOK
<1>6. CASE \/ IsTournamentReady \/ CreateGroupStageMatches \/ AllGroupMatchesPlayed
           \/ ReadGroups \/ CreateKnockoutMatches \/ CrashReadingWinners
  <2>1. UNCHANGED <<store, faults>>
    BY <1>6 DEF IsTournamentReady, CreateGroupStageMatches, AllGroupMatchesPlayed, ReadGroups,
                CreateKnockoutMatches, CrashReadingWinners
  <2> QED
    BY <1>1, <1>2, <2>1 DEF store, CountsOK
<1>7. CASE TeamListenerError \/ ScoreListenerError \/ ConsumerCrash
  <2>1. UNCHANGED store /\ Fault
    BY <1>7 DEF TeamListenerError, ScoreListenerError, ConsumerCrash
  <2> QED
    BY <1>1, <1>2, <2>1 DEF store, CountsOK, Fault
<1>8. CASE BrokerRestart
  BY <1>1, <1>2, <1>8 DEF BrokerRestart, CountsOK, Fault
<1>9. Goal
  BY <1>3, <1>4, <1>5, <1>6, <1>7, <1>8
  DEF ConsumerStep, ConsumerNext, TeamListenerStep, ScoreListenerStep
<1> QED
  BY <1>2, <1>9

\* The step leaves the local state of a listener alone, ends its event, or is
\* one of those that go on with it.
LEMMA TeamListenerKept == ASSUME TypeInv, ConsumerStep PROVE TeamListenerOK'
<1>1. teamListener \in ListenerState /\ TeamListenerOK
  BY DEF TypeInv, TeamListenerOK
<1>2. CASE UNCHANGED teamListener
  BY <1>1, <1>2 DEF TeamListenerOK
<1>3. CASE teamListener' = Idle
  BY <1>3, IdleType DEF TeamListenerOK
<1>4. CASE ReceiveTeamAdd
  <2>1. teamListener' = [pc |-> "checking", seen |-> <<>>, todo |-> <<>>]
    BY <1>4 DEF ReceiveTeamAdd, Idle
  <2> QED
    BY <2>1 DEF TeamListenerOK, ListenerState
<1>5. CASE IsTournamentReady
  <2>1. CASE teamListener' = [teamListener EXCEPT !.pc = "reading"]
    BY <1>1, <2>1 DEF TeamListenerOK, ListenerState
  <2> QED
    BY <1>3, <1>5, <2>1 DEF IsTournamentReady
<1>6. CASE CreateGroupStageMatches /\ ~RegularPhaseError(AllGroups)
  <2> DEFINE fixtures == CreateRegularPhaseMatches(AllGroups)
  <2>1. AllGroups \in Seq(Seq(Team))
    BY AllGroupsType
  <2>2. fixtures \in Seq(KeysOf("group")) /\ fixtures # <<>> /\ fixtures \in Seq(MatchKey)
    BY <1>6, <2>1, RegularPhaseType, RegularPhaseNotEmpty, KeyKinds, SeqMonotonic
  <2>3. teamListener' = [pc |-> "inserting", seen |-> AllGroups, todo |-> fixtures]
    BY <1>6 DEF CreateGroupStageMatches
  <2> HIDE DEF fixtures
  <2> QED
    BY <2>1, <2>2, <2>3 DEF TeamListenerOK, ListenerState
<1>7. CASE InsertGroupMatch
  <2>1. /\ teamListener.todo \in Seq(KeysOf("group")) /\ teamListener.todo # <<>>
        /\ teamListener.pc = "inserting"
    BY <1>1, <1>7 DEF InsertGroupMatch, TeamListenerOK
  <2>2. CASE teamListener' = Advance(teamListener)
    <3>1. /\ Advance(teamListener) \in ListenerState
          /\ \/ Advance(teamListener) = Idle
             \/ /\ Advance(teamListener).todo \in Seq(KeysOf("group"))
                /\ Advance(teamListener).todo # <<>>
      BY <1>1, <2>1, KeyKinds, AdvanceIs
    <3> QED
      BY <1>3, <2>2, <3>1 DEF TeamListenerOK
  <2> QED
    BY <1>3, <1>7, <2>2 DEF InsertGroupMatch
<1> QED
  BY <1>2, <1>3, <1>4, <1>5, <1>6, <1>7
     DEF ConsumerStep, listeners, ConsumerNext, TeamListenerStep, ScoreListenerStep,
         CreateGroupStageMatches, ReceiveScoreRecorded, AllGroupMatchesPlayed, ReadGroups,
         CreateKnockoutMatches, CrashReadingWinners, InsertKnockoutMatch, TeamListenerError,
         ScoreListenerError, ConsumerCrash, BrokerRestart

LEMMA ScoreListenerKept == ASSUME TypeInv, ConsumerStep PROVE ScoreListenerOK'
<1>1. scoreListener \in ListenerState /\ ScoreListenerOK /\ MatchTable(matches)
  BY DEF TypeInv, ScoreListenerOK
<1>2. CASE UNCHANGED scoreListener
  BY <1>1, <1>2 DEF ScoreListenerOK
<1>3. CASE scoreListener' = Idle
  BY <1>3, IdleType DEF ScoreListenerOK
<1>4. CASE ReceiveScoreRecorded
  <2>1. scoreListener' = [pc |-> "checking", seen |-> <<>>, todo |-> <<>>]
    BY <1>4 DEF ReceiveScoreRecorded, Idle
  <2> QED
    BY <2>1 DEF ScoreListenerOK, ListenerState
<1>5. CASE AllGroupMatchesPlayed
  <2>1. CASE scoreListener' = [scoreListener EXCEPT !.pc = "reading"]
    BY <1>1, <2>1 DEF ScoreListenerOK, ListenerState
  <2> QED
    BY <1>3, <1>5, <2>1 DEF AllGroupMatchesPlayed
<1>6. CASE ReadGroups
  <2> DEFINE gs == AllGroups
  <2>1. scoreListener' = [scoreListener EXCEPT !.pc = "composing", !.seen = gs]
    BY <1>6 DEF ReadGroups
  <2>2. gs \in Seq(Seq(Team))
    BY AllGroupsType
  <2> HIDE DEF gs
  <2> QED
    BY <1>1, <2>1, <2>2 DEF ScoreListenerOK, ListenerState
<1>7. CASE CreateKnockoutMatches /\ scoreListener' # Idle
  <2> DEFINE gs   == scoreListener.seen
             todo == Missing(gs)
             p    == CreatePlayoffMatches(matches, gs)
  <2>1. Seeded(gs)
    BY <1>1, <1>7 DEF CreateKnockoutMatches, ListenerState, Seeded
  <2>2. p \in Seq(KnockoutKey)
    BY <1>1, <2>1, Proposals
  <2>3. todo = Without(p, DOMAIN matches)
    BY DEF Missing, Without
  <2> HIDE DEF p
  <2>4. todo \in Seq(KnockoutKey) /\ todo \in Seq(MatchKey)
    BY <2>2, <2>3, WithoutIsPart, KeyKinds, SeqMonotonic
  <2>5. todo # <<>> /\ scoreListener' = [scoreListener EXCEPT !.pc = "inserting", !.todo = todo]
    BY <1>7 DEF CreateKnockoutMatches, StartInserting
  <2> HIDE DEF todo
  <2> QED
    BY <1>1, <2>4, <2>5 DEF ScoreListenerOK, ListenerState
<1>8. CASE scoreListener.pc = "inserting" /\ scoreListener' = Advance(scoreListener)
  <2>1. scoreListener.todo \in Seq(KnockoutKey) /\ scoreListener.todo # <<>>
    BY <1>1, <1>8 DEF ScoreListenerOK
  <2>2. /\ Advance(scoreListener) \in ListenerState
        /\ \/ Advance(scoreListener) = Idle
           \/ /\ Advance(scoreListener).todo \in Seq(KnockoutKey)
              /\ Advance(scoreListener).todo # <<>>
    BY <1>1, <2>1, KeyKinds, AdvanceIs
  <2> QED
    BY <1>3, <1>8, <2>1, <2>2 DEF ScoreListenerOK
<1> QED
  BY <1>2, <1>3, <1>4, <1>5, <1>6, <1>7, <1>8
     DEF ConsumerStep, listeners, ConsumerNext, TeamListenerStep, ScoreListenerStep,
         ReceiveTeamAdd, IsTournamentReady, CreateGroupStageMatches, InsertGroupMatch,
         CrashReadingWinners, InsertKnockoutMatch, TeamListenerError, ScoreListenerError,
         ConsumerCrash, BrokerRestart

LEMMA TypeStep == TypeInv /\ [Next]_vars => TypeInv'
<1> SUFFICES ASSUME TypeInv, [Next]_vars PROVE TypeInv'
  OBVIOUS
<1>1. CASE UNCHANGED vars
  <2>1. /\ UNCHANGED <<groups, heap, matches, teamEvents, scoreEvents>>
        /\ UNCHANGED <<req, publishing, listeners, faults>>
    BY <1>1 DEF vars, store
  <2>2. MatchTable(matches) /\ scoreEvents \in Nat
    BY DEF TypeInv, G!TypeInv, G!QueueTypeOK
  <2>3. G!TypeInv' /\ G!RowsInv'
    BY <2>1, <2>2, OtherStepGroups DEF MatchTable
  <2> QED
    BY <2>1, <2>3 DEF TypeInv, MatchTable, CountsOK, TeamListenerOK, ScoreListenerOK, listeners
<1>2. CASE ConsumerStep
  <2>1. G!TypeInv' /\ G!RowsInv' /\ MatchTable(matches') /\ CountsOK'
    BY <1>2, ConsumerStepTables, OtherStepGroups
  <2> QED
    BY <1>2, <2>1, TeamListenerKept, ScoreListenerKept DEF TypeInv, MatchTable
<1> QED
  BY <1>1, <1>2, GroupStepTypes, MatchStepTypes DEF Next

LEMMA TypeAlways == Spec => []TypeInv
  BY InitTypes, TypeStep, PTL DEF Spec

\* Groups, matches, queues, requests and listeners stay within their types,
\* whatever the requests do to the groups between two reads of a listener.
THEOREM TypeCorrect == Spec => []TypeOK
  BY TypeInvIsTypeOK, TypeAlways, PTL

---------------------------------------------------------------------------
\* Fixtures are drawn within the groups

\* No group loses a team and no group match is made by hand; the starts are so.
Within(k, gs) == \E g \in DOMAIN gs : {k.home, k.visitor} \subseteq ToSet(gs[g])

DrawOnlyGrows ==
  /\ "rename" \notin Ops /\ "remove" \notin Ops
  /\ \A k \in ManualMatches : k.round # "group"
  /\ \A s \in Starts : \A k \in DOMAIN s.matches : k.round = "group" => Within(k, s.groups)

\* What is still to be inserted was drawn from groups as they were when they
\* were read; they have only grown since.
WithinInv ==
  /\ G!OnlyAdding
  /\ \A k \in GroupStage : Within(k, groups)
  /\ teamListener.pc = "inserting" => \A k \in ToSet(teamListener.todo) : Within(k, groups)

LEMMA WithinInit == ASSUME DrawOnlyGrows, Init PROVE WithinInv
<1>1. teamListener = Idle /\ \A w \in Worker : req[w] = NoRequest
  BY DEF Init, ConsumerInit, GroupServiceInit
<1>2. G!OnlyAdding
  BY <1>1 DEF G!OnlyAdding, NoRequest
<1>3. \A k \in GroupStage : Within(k, groups)
  BY DEF Init, DrawOnlyGrows, GroupStage
<1> QED
  BY <1>1, <1>2, <1>3, IdleType DEF WithinInv

\* What lies within a group stays there while the groups grow.
LEMMA StaysWithin ==
  ASSUME G!GroupsGrow, NEW k, Within(k, groups)
  PROVE  Within(k, groups')
<1>1. PICK g \in DOMAIN groups : {k.home, k.visitor} \subseteq ToSet(groups[g])
  BY DEF Within
<1>2. g \in DOMAIN groups' /\ ToSet(groups[g]) \subseteq ToSet(groups'[g])
  BY CopiedData DEF G!GroupsGrow, G!RowsGrow, G!ToSet, ToSet
<1> QED
  BY <1>1, <1>2 DEF Within

\* The fixtures of the groups that are stored now.
LEMMA DrawnWithin ==
  ASSUME TypeInv, NEW k \in ToSet(CreateRegularPhaseMatches(AllGroups))
  PROVE  Within(k, groups)
<1>1. PICK i \in DOMAIN AllGroups : InGroup(AllGroups[i], k)
  BY AllGroupsType, RegularPhaseType
<1>2. PICK g \in DOMAIN groups : AllGroups[i] = groups[g]
  BY AllGroupsType
<1> QED
  BY <1>1, <1>2 DEF InGroup, Within

LEMMA WithinStep == ASSUME DrawOnlyGrows, TypeInv, WithinInv, [Next]_vars PROVE WithinInv'
<1>1. ASSUME GroupStep PROVE WithinInv'
  <2>1. G!OnlyAdding' /\ G!GroupsGrow
    BY <1>1, GroupAssumptions, GroupStepIs, G!AddingStep
    DEF TypeInv, WithinInv, DrawOnlyGrows, G!NoRename, G!NoRemove
  <2>2. UNCHANGED <<matches, teamListener>>
    BY <1>1, GroupStepLeaves DEF listeners
  <2> QED
    BY <2>1, <2>2, StaysWithin DEF WithinInv, GroupStage
<1>2. ASSUME MatchStep PROVE WithinInv'
  <2>1. UNCHANGED <<req, groups, teamListener>>
    BY <1>2 DEF MatchStep, MatchServiceNext, UpdateScore, PublishScoreRecorded,
                LoseScoreRecorded, CreateMatch, store, listeners
  <2>2. \/ DOMAIN matches' = DOMAIN matches
        \/ \E k \in ManualMatches : DOMAIN matches' = DOMAIN matches \cup {k}
    BY <1>2 DEF MatchStep, MatchServiceNext, UpdateScore, WriteResult, PublishScoreRecorded,
                LoseScoreRecorded, CreateMatch, InsertMatch, store
  <2>3. GroupStage' = GroupStage
    BY <2>2 DEF GroupStage, DrawOnlyGrows
  <2> QED
    BY <2>1, <2>3 DEF WithinInv, G!OnlyAdding
<1>3. ASSUME ConsumerStep PROVE WithinInv'
  <2>1. UNCHANGED <<groups, req>> /\ G!OnlyAdding'
    <3>1. UNCHANGED <<groups, req>>
      BY <1>3, ConsumerStepTables
    <3> QED
      BY <3>1 DEF WithinInv, G!OnlyAdding
  <2>2. CASE UNCHANGED <<matches, teamListener>>
    BY <2>1, <2>2 DEF WithinInv, GroupStage
  <2>3. CASE UNCHANGED matches /\ teamListener'.pc # "inserting"
    BY <2>1, <2>3 DEF WithinInv, GroupStage
  <2>4. CASE CreateGroupStageMatches /\ ~RegularPhaseError(AllGroups)
    <3>1. /\ UNCHANGED matches /\ teamListener'.todo = CreateRegularPhaseMatches(AllGroups)
      BY <2>4 DEF CreateGroupStageMatches, store
    <3> QED
      BY <2>1, <3>1, DrawnWithin DEF WithinInv, GroupStage
  <2>5. CASE InsertGroupMatch
    <3> DEFINE k == Head(teamListener.todo)
    <3>1. /\ k \in ToSet(teamListener.todo) /\ teamListener.pc = "inserting"
          /\ \/ Advance(teamListener) = Idle
             \/ ToSet(Advance(teamListener).todo) \subseteq ToSet(teamListener.todo)
      BY <2>5, KeyKinds, AdvanceIs DEF InsertGroupMatch, TypeInv, TeamListenerOK
    <3>2. Within(k, groups)
      BY <3>1 DEF WithinInv
    <3>3. GroupStage' \subseteq GroupStage \cup {k}
      BY <2>5 DEF InsertGroupMatch, InsertMatch, GroupStage
    <3>4. teamListener' = Idle \/ teamListener' = Advance(teamListener)
      BY <2>5 DEF InsertGroupMatch
    <3> QED
      BY <2>1, <3>1, <3>2, <3>3, <3>4, IdleType DEF WithinInv
  <2>6. CASE InsertKnockoutMatch
    <3> DEFINE k == Head(scoreListener.todo)
    <3>1. k \in KnockoutKey /\ k.round # "group"
      BY <2>6, KeyKinds, AdvanceIs DEF InsertKnockoutMatch, TypeInv, ScoreListenerOK
    <3>2. UNCHANGED teamListener /\ GroupStage' = GroupStage
      BY <2>6, <3>1 DEF InsertKnockoutMatch, InsertMatch, GroupStage
    <3> QED
      BY <2>1, <3>2 DEF WithinInv
  <2>7. CASE ReceiveTeamAdd \/ IsTournamentReady
    <3>1. UNCHANGED matches /\ teamListener'.pc # "inserting"
      BY <2>7, IdleType DEF ReceiveTeamAdd, IsTournamentReady, store, Idle, TypeInv,
                            TeamListenerOK, ListenerState
    <3> QED
      BY <2>3, <3>1
  <2> QED
    BY <1>3, <2>2, <2>3, <2>4, <2>5, <2>6, <2>7, IdleType
    DEF ConsumerStep, ConsumerNext, TeamListenerStep, ScoreListenerStep, CreateGroupStageMatches,
        ReceiveScoreRecorded, AllGroupMatchesPlayed, ReadGroups, CreateKnockoutMatches,
        CrashReadingWinners, TeamListenerError, ScoreListenerError, ConsumerCrash, BrokerRestart,
        store, listeners
<1>4. ASSUME UNCHANGED vars PROVE WithinInv'
  BY <1>4 DEF vars, store, listeners, WithinInv, GroupStage, G!OnlyAdding
<1> QED
  BY <1>1, <1>2, <1>3, <1>4 DEF Next

\* As long as teams are only added to the groups, every fixture of the group
\* stage is a match of two teams of one stored group, although the consumer
\* reads the groups and inserts the matches while requests change the groups
\* (MatchDelegate::CreateGroupStageMatches keeps what it read).
THEOREM FixturesStayWithinGroups == ASSUME DrawOnlyGrows PROVE Spec => []FixturesWithinGroups
<1>1. TypeInv /\ WithinInv /\ [Next]_vars => WithinInv'
  BY WithinStep
<1>2. Init => WithinInv
  BY WithinInit
<1>3. WithinInv => FixturesWithinGroups
  BY DEF WithinInv, FixturesWithinGroups, Within
<1> QED
  BY <1>1, <1>2, <1>3, TypeAlways, PTL DEF Spec
===============================================================================
