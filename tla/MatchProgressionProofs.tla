------------------------ MODULE MatchProgressionProofs ------------------------
(***************************************************************************)
(* Theorems about MatchProgression, for every draw, every set of scores    *)
(* and any number of faults.                                               *)
(***************************************************************************)
EXTENDS MatchProgression, StrategyProofs

\* The list of the group stage.
Fixtures == CreateRegularPhaseMatches(Draw)

---------------------------------------------------------------------------
\* The draw and the starts

LEMMA DrawIs ==
  /\ Draw \in Seq(Seq(Team))
  /\ \A s \in Starts : Draw = [i \in DOMAIN s.heap |-> s.groups[s.heap[i]]]
<1> DEFINE u == CHOOSE s \in Starts : TRUE
<1>1. u \in Starts
  BY StartsAssumption
<1>2. Draw = [i \in DOMAIN u.heap |-> u.groups[u.heap[i]]]
  BY DEF Draw
<1> HIDE DEF u
<1>3. \A s \in Starts : Draw = [i \in DOMAIN s.heap |-> s.groups[s.heap[i]]]
  BY <1>1, <1>2, StartsAssumption
<1>4. /\ u.heap \in Seq(DOMAIN u.groups)
      /\ \A g \in DOMAIN u.groups : u.groups[g] \in Seq(Team)
  BY <1>1, StartsAssumption
<1>5. /\ Len(u.heap) \in Nat /\ DOMAIN u.heap = 1..Len(u.heap)
      /\ \A i \in 1..Len(u.heap) : u.heap[i] \in DOMAIN u.groups
  BY <1>4, LenProperties, ElementOfSeq
<1>6. Draw \in [1..Len(u.heap) -> Seq(Team)]
  BY <1>2, <1>4, <1>5
<1>7. Draw \in Seq(Seq(Team))
  BY <1>5, <1>6, FunctionIsSeq
<1> QED
  BY <1>3, <1>7

LEMMA FixturesType == Fixtures \in Seq(KeysOf("group"))
  BY DrawIs, RegularPhaseType DEF Fixtures

LEMMA FixturesAreGroup == \A k \in ToSet(Fixtures) : k.round = "group"
<1>1. \A i \in DOMAIN Fixtures : Fixtures[i] \in KeysOf("group")
  BY FixturesType, LenProperties, ElementOfSeq
<1> QED
  BY <1>1 DEF ToSet, KeysOf

LEMMA FixturesNotEmpty == ASSUME ~RegularPhaseError(Draw) PROVE Fixtures # <<>>
  BY DrawIs, RegularPhaseNotEmpty DEF Fixtures

---------------------------------------------------------------------------
\* The steps of the matches table

LEMMA InsertedTable ==
  ASSUME MatchTable(matches), NEW k \in MatchKey, InsertMatch(k)
  PROVE  /\ MatchTable(matches') /\ DOMAIN matches' = DOMAIN matches \cup {k}
         /\ matches'[k] = NoResult /\ \A x \in DOMAIN matches \ {k} : matches'[x] = matches[x]
  BY RowInserted DEF InsertMatch

\* A score sets the winner, the one the goals show unless the match is drawn.
LEMMA ScoredResultIs ==
  ASSUME NEW k \in MatchKey, NEW s \in Scores
  PROVE  /\ ScoredResult(k, s) \in Result /\ ScoredResult(k, s) # NoResult
         /\ ScoredResult(k, s) = [home |-> s[1], visitor |-> s[2], winner |-> WinnerTeamId(k, s)]
         /\ WinnerTeamId(k, s) \in {k.home, k.visitor}
<1>1. s[1] \in Nat /\ s[2] \in Nat /\ s = <<s[1], s[2]>>
  BY MatchServiceAssumption
<1>2. k.home \in Team /\ k.visitor \in Team /\ NoTeam \notin Team
  BY TeamAssumption DEF MatchKey, NoTeam
<1>3. WinnerTeamId(k, s) \in {k.home, k.visitor}
  BY DEF WinnerTeamId, PickDeterministicWinner
<1>4. /\ WithScore(Unset, k, s).score = s
      /\ WithScore(Unset, k, s).winnerTeamId = WinnerTeamId(k, s)
  BY DEF WithScore, Unset
<1>5. s # NoScore
  BY <1>1 DEF NoScore
<1>6. ScoredResult(k, s) = [home |-> s[1], visitor |-> s[2], winner |-> WinnerTeamId(k, s)]
  BY <1>4, <1>5 DEF ScoredResult, ResultOf
<1> QED
  BY <1>1, <1>2, <1>3, <1>6 DEF Result, NoResult

LEMMA ScoredTable ==
  ASSUME MatchTable(matches), NEW k \in DOMAIN matches, NEW s \in Scores, UpdateScore(k, s)
  PROVE  /\ MatchTable(matches') /\ DOMAIN matches' = DOMAIN matches
         /\ matches'[k] = ScoredResult(k, s)
         /\ \A x \in DOMAIN matches \ {k} : matches'[x] = matches[x]
<1>1. matches' = [matches EXCEPT ![k] = ScoredResult(k, s)]
  BY DEF UpdateScore, WriteResult
<1>2. ScoredResult(k, s) \in Result
  BY ScoredResultIs DEF MatchTable
<1> HIDE DEF ScoredResult
<1> QED
  BY <1>1, <1>2, RowWritten

---------------------------------------------------------------------------
\* The two listeners

LEMMA IdleType == Idle \in ListenerState
  BY DEF Idle, ListenerState

\* Advance drops the head of todo, or makes the listener idle.
LEMMA AdvanceIs ==
  ASSUME NEW S, S \subseteq MatchKey, NEW l \in ListenerState, l.todo \in Seq(S), l.todo # <<>>
  PROVE  /\ Head(l.todo) \in S /\ Head(l.todo) \in ToSet(l.todo)
         /\ Advance(l) \in ListenerState
         /\ \/ Advance(l) = Idle
            \/ /\ Advance(l).pc = l.pc /\ Advance(l).seen = l.seen
               /\ Advance(l).todo = Tail(l.todo) /\ Advance(l).todo # <<>>
               /\ Tail(l.todo) \in Seq(S) /\ Len(l.todo) # 1
               /\ ToSet(Tail(l.todo)) \subseteq ToSet(l.todo)
<1> DEFINE t    == l.todo
           rest == Tail(t)
<1>1. /\ Head(t) \in S /\ Head(t) \in ToSet(t)
      /\ Len(t) # 1 => /\ rest \in Seq(S) /\ rest # <<>>
                       /\ ToSet(rest) \subseteq ToSet(t)
  BY RestOfList
<1>2. CASE Len(t) = 1
  BY <1>1, <1>2, IdleType DEF Advance
<1>3. CASE Len(t) # 1
  <2>1. Advance(l) = [l EXCEPT !.todo = rest]
    BY <1>3 DEF Advance
  <2>2. rest \in Seq(MatchKey)
    BY <1>1, <1>3, SeqMonotonic
  <2> HIDE DEF rest
  <2>3. /\ Advance(l) \in ListenerState
        /\ Advance(l).pc = l.pc /\ Advance(l).seen = l.seen /\ Advance(l).todo = rest
    BY <2>1, <2>2 DEF ListenerState
  <2> QED
    BY <1>1, <1>3, <2>3 DEF rest
<1> QED
  BY <1>2, <1>3

\* The missing fixtures are proposals that are not stored.
LEMMA MissingIs ==
  ASSUME MatchTable(matches), NEW gs, Seeded(gs)
  PROVE  /\ Missing(gs) \in Seq(KnockoutKey)
         /\ ToSet(Missing(gs)) \subseteq ToSet(CreatePlayoffMatches(matches, gs))
<1> DEFINE p == CreatePlayoffMatches(matches, gs)
<1>1. p \in Seq(KnockoutKey)
  BY Proposals
<1>2. Missing(gs) = Without(p, DOMAIN matches)
  BY DEF Missing, Without
<1> QED
  BY <1>1, <1>2, WithoutIsPart

---------------------------------------------------------------------------
\* Types

TablesOK ==
  /\ StoreTypeOK /\ MatchTable(matches)
  /\ publishing \in 0..PatchWorkers
  /\ faults \in 0..MaxFaults
  /\ AllGroups = Draw

\* A listener that inserts has a fixture to insert, of the kind it serves; what
\* it read of the groups is the draw.
TeamListenerOK ==
  /\ teamListener \in ListenerState
  /\ teamListener.pc = "inserting" =>
       teamListener.todo \in Seq(KeysOf("group")) /\ teamListener.todo # <<>>

ScoreListenerOK ==
  /\ scoreListener \in ListenerState
  /\ scoreListener.pc \in {"composing", "inserting"} => scoreListener.seen = Draw
  /\ scoreListener.pc = "inserting" =>
       /\ scoreListener.todo \in Seq(KnockoutKey) /\ scoreListener.todo # <<>>
       /\ Seeded(Draw)

TypeInv == TablesOK /\ TeamListenerOK /\ ScoreListenerOK

LEMMA IdleListeners ==
  /\ teamListener = Idle => TeamListenerOK
  /\ scoreListener = Idle => ScoreListenerOK
<1>1. Idle.pc = "idle"
  BY DEF Idle
<1> QED
  BY <1>1, IdleType DEF TeamListenerOK, ScoreListenerOK

LEMMA InitTypes == Init => TypeInv
<1> SUFFICES ASSUME Init PROVE TypeInv
  OBVIOUS
<1>1. PICK s \in Starts : /\ groups = s.groups /\ heap = s.heap /\ matches = s.matches
                          /\ teamEvents = s.teamEvents /\ scoreEvents = s.scoreEvents
  BY DEF Init
<1>2. /\ teamListener = Idle /\ scoreListener = Idle /\ faults = 0 /\ publishing = 0
  BY DEF Init, MatchServiceInit, ConsumerInit
<1>3. MatchTable(matches)
  BY <1>1, StartsAssumption DEF MatchTable
<1>4. AllGroups = Draw
  BY <1>1, DrawIs DEF AllGroups
<1>5. heap \in Seq(GroupId)
  BY <1>1, StartsAssumption, SeqMonotonic
<1>6. StoreTypeOK
  BY <1>1, <1>5, StartsAssumption DEF StoreTypeOK
<1>7. faults \in 0..MaxFaults /\ publishing \in 0..PatchWorkers
  BY <1>2, FaultsAssumption, MatchServiceAssumption
<1> QED
  BY <1>2, <1>3, <1>4, <1>6, <1>7, IdleListeners DEF TypeInv, TablesOK

\* The tables: no step touches the groups, and the match rows stay typed.
LEMMA TablesKept == ASSUME TypeInv, [Next]_vars PROVE TablesOK'
<1> USE DEF TypeInv
<1>1. /\ publishing \in Nat /\ scoreEvents \in Nat /\ faults \in Nat
      /\ publishing <= PatchWorkers /\ faults <= MaxFaults
      /\ PatchWorkers \in Nat /\ MaxFaults \in Nat
      /\ teamEvents \in Seq(TeamEvent)
  BY FaultsAssumption, MatchServiceAssumption DEF TablesOK, StoreTypeOK
<1>2. groups' = groups /\ heap' = heap
  BY DEF Next, vars, store, MatchStep, MatchServiceNext, UpdateScore, PublishScoreRecorded,
         LoseScoreRecorded, CreateMatch, ConsumerStep, ConsumerNext, TeamListenerStep,
         ScoreListenerStep, ReceiveTeamAdd, IsTournamentReady, CreateGroupStageMatches,
         InsertGroupMatch, ReceiveScoreRecorded, AllGroupMatchesPlayed, ReadGroups,
         CreateKnockoutMatches, CrashReadingWinners, InsertKnockoutMatch, TeamListenerError,
         ScoreListenerError, ConsumerCrash, BrokerRestart
<1>3. MatchTable(matches') =>
        (teamEvents' \in Seq(TeamEvent) /\ scoreEvents' \in Nat => StoreTypeOK')
  BY <1>2 DEF TablesOK, StoreTypeOK, MatchTable
<1>4. AllGroups' = Draw
  BY <1>2 DEF TablesOK, AllGroups
<1>5. SUFFICES /\ MatchTable(matches')
               /\ teamEvents' \in Seq(TeamEvent) /\ scoreEvents' \in Nat
               /\ publishing' \in 0..PatchWorkers /\ faults' \in 0..MaxFaults
  BY <1>3, <1>4 DEF TablesOK
<1>6. MatchTable(matches) /\ publishing \in 0..PatchWorkers /\ faults \in 0..MaxFaults
  BY DEF TablesOK
<1>7. CASE UNCHANGED vars
  BY <1>1, <1>6, <1>7 DEF vars, store
<1>8. CASE MatchStep
  <2>1. ASSUME NEW k \in DOMAIN matches, NEW s \in Scores, UpdateScore(k, s)
        PROVE  <1>5!1
    BY <1>1, <1>6, <2>1, ScoredTable DEF UpdateScore
  <2>2. CASE PublishScoreRecorded
    BY <1>1, <1>6, <2>2 DEF PublishScoreRecorded
  <2>3. CASE LoseScoreRecorded
    BY <1>1, <1>6, <2>3 DEF LoseScoreRecorded, Fault, store
  <2>4. ASSUME NEW k \in ManualMatches, CreateMatch(k) PROVE <1>5!1
    <3>1. k \in MatchKey
      BY MatchServiceAssumption
    <3> QED
      BY <1>1, <1>6, <2>4, <3>1, InsertedTable DEF CreateMatch
  <2> QED
    BY <1>8, <2>1, <2>2, <2>3, <2>4 DEF MatchStep, MatchServiceNext
<1>9. CASE ConsumerStep
  <2>0. publishing' = publishing
    BY <1>9 DEF ConsumerStep
  <2>1. CASE ReceiveTeamAdd
    BY <1>1, <1>6, <2>0, <2>1, HeadTailProperties DEF ReceiveTeamAdd
  <2>2. CASE InsertGroupMatch
    <3>1. CASE UNCHANGED matches
      BY <1>1, <1>6, <2>0, <2>2, <3>1 DEF InsertGroupMatch
    <3>2. CASE InsertMatch(Head(teamListener.todo))
      <4>1. Head(teamListener.todo) \in MatchKey
        BY <2>2, KeyKinds, AdvanceIs DEF InsertGroupMatch, TeamListenerOK
      <4> QED
        BY <1>1, <1>6, <2>0, <2>2, <3>2, <4>1, InsertedTable DEF InsertGroupMatch
    <3> QED
      BY <2>2, <3>1, <3>2 DEF InsertGroupMatch
  <2>3. CASE InsertKnockoutMatch
    <3>1. CASE UNCHANGED matches
      BY <1>1, <1>6, <2>0, <2>3, <3>1 DEF InsertKnockoutMatch
    <3>2. CASE InsertMatch(Head(scoreListener.todo))
      <4>1. Head(scoreListener.todo) \in MatchKey
        BY <2>3, KeyKinds, AdvanceIs DEF InsertKnockoutMatch, ScoreListenerOK
      <4> QED
        BY <1>1, <1>6, <2>0, <2>3, <3>2, <4>1, InsertedTable DEF InsertKnockoutMatch
    <3> QED
      BY <2>3, <3>1, <3>2 DEF InsertKnockoutMatch
  <2>4. CASE ReceiveScoreRecorded
    BY <1>1, <1>6, <2>0, <2>4 DEF ReceiveScoreRecorded
  <2>5. CASE \/ IsTournamentReady \/ CreateGroupStageMatches \/ AllGroupMatchesPlayed
             \/ ReadGroups \/ CreateKnockoutMatches \/ CrashReadingWinners
    BY <1>1, <1>6, <2>0, <2>5
       DEF IsTournamentReady, CreateGroupStageMatches, AllGroupMatchesPlayed, ReadGroups,
           CreateKnockoutMatches, CrashReadingWinners, store
  <2>6. CASE TeamListenerError \/ ScoreListenerError \/ ConsumerCrash
    BY <1>1, <1>6, <2>0, <2>6
       DEF TeamListenerError, ScoreListenerError, ConsumerCrash, Fault, store
  <2>7. CASE BrokerRestart
    BY <1>1, <1>6, <2>0, <2>7 DEF BrokerRestart, Fault
  <2> QED
    BY <1>9, <2>1, <2>2, <2>3, <2>4, <2>5, <2>6, <2>7
       DEF ConsumerStep, ConsumerNext, TeamListenerStep, ScoreListenerStep
<1> QED
  BY <1>7, <1>8, <1>9 DEF Next

\* The step leaves the local state of a listener alone, ends its event, or is
\* one of those that go on with it.
LEMMA TeamListenerKept == ASSUME TypeInv, [Next]_vars PROVE TeamListenerOK'
<1>1. teamListener \in ListenerState /\ TeamListenerOK /\ AllGroups = Draw
  BY DEF TypeInv, TablesOK, TeamListenerOK
<1>2. CASE UNCHANGED teamListener
  BY <1>1, <1>2 DEF TeamListenerOK
<1>3. CASE teamListener' = Idle
  <2>1. Idle.pc = "idle"
    BY DEF Idle
  <2> QED
    BY <1>3, <2>1, IdleType DEF TeamListenerOK
<1>4. CASE ReceiveTeamAdd
  <2>1. teamListener' = [pc |-> "checking", seen |-> <<>>, todo |-> <<>>]
    BY <1>4 DEF ReceiveTeamAdd, Idle
  <2> QED
    BY <2>1 DEF TeamListenerOK, ListenerState
<1>5. CASE IsTournamentReady
  <2>1. CASE teamListener' = [teamListener EXCEPT !.pc = "reading"]
    BY <1>1, <2>1 DEF TeamListenerOK, ListenerState
  <2> QED
    BY <1>3, <1>5, <2>1 DEF IsTournamentReady
<1>6. CASE CreateGroupStageMatches /\ ~RegularPhaseError(AllGroups)
  <2>1. /\ teamListener' = [pc |-> "inserting", seen |-> Draw, todo |-> Fixtures]
        /\ Fixtures \in Seq(KeysOf("group")) /\ Fixtures # <<>>
    BY <1>1, <1>6, FixturesType, FixturesNotEmpty DEF CreateGroupStageMatches, Fixtures
  <2>2. Fixtures \in Seq(MatchKey) /\ Draw \in Seq(Seq(Team))
    BY <2>1, KeyKinds, SeqMonotonic, DrawIs
  <2> QED
    BY <2>1, <2>2 DEF TeamListenerOK, ListenerState
<1>7. CASE InsertGroupMatch
  <2>1. /\ teamListener.todo \in Seq(KeysOf("group")) /\ teamListener.todo # <<>>
        /\ teamListener.pc = "inserting"
    BY <1>1, <1>7 DEF InsertGroupMatch, TeamListenerOK
  <2>2. CASE teamListener' = Advance(teamListener)
    <3>1. /\ Advance(teamListener) \in ListenerState
          /\ \/ Advance(teamListener) = Idle
             \/ /\ Advance(teamListener).todo \in Seq(KeysOf("group"))
                /\ Advance(teamListener).todo # <<>>
      BY <1>1, <2>1, KeyKinds, AdvanceIs
    <3> QED
      BY <1>3, <2>2, <3>1 DEF TeamListenerOK
  <2> QED
    BY <1>3, <1>7, <2>2 DEF InsertGroupMatch
<1> QED
  BY <1>2, <1>3, <1>4, <1>5, <1>6, <1>7
     DEF Next, vars, listeners, MatchStep, ConsumerStep, ConsumerNext, TeamListenerStep,
         ScoreListenerStep, CreateGroupStageMatches, ReceiveScoreRecorded,
         AllGroupMatchesPlayed, ReadGroups, CreateKnockoutMatches, CrashReadingWinners,
         InsertKnockoutMatch, TeamListenerError, ScoreListenerError, ConsumerCrash,
         BrokerRestart

LEMMA ScoreListenerKept == ASSUME TypeInv, [Next]_vars PROVE ScoreListenerOK'
<1>1. /\ scoreListener \in ListenerState /\ ScoreListenerOK /\ AllGroups = Draw
      /\ MatchTable(matches)
  BY DEF TypeInv, TablesOK, ScoreListenerOK
<1>2. CASE UNCHANGED scoreListener
  BY <1>1, <1>2 DEF ScoreListenerOK
<1>3. CASE scoreListener' = Idle
  <2>1. Idle.pc = "idle"
    BY DEF Idle
  <2> QED
    BY <1>3, <2>1, IdleType DEF ScoreListenerOK
<1>4. CASE ReceiveScoreRecorded
  <2>1. scoreListener' = [pc |-> "checking", seen |-> <<>>, todo |-> <<>>]
    BY <1>4 DEF ReceiveScoreRecorded, Idle
  <2> QED
    BY <2>1 DEF ScoreListenerOK, ListenerState
<1>5. CASE AllGroupMatchesPlayed
  <2>1. CASE scoreListener' = [scoreListener EXCEPT !.pc = "reading"]
    BY <1>1, <2>1 DEF ScoreListenerOK, ListenerState
  <2> QED
    BY <1>3, <1>5, <2>1 DEF AllGroupMatchesPlayed
<1>6. CASE ReadGroups
  <2>1. scoreListener' = [scoreListener EXCEPT !.pc = "composing", !.seen = Draw]
    BY <1>1, <1>6 DEF ReadGroups
  <2> QED
    BY <1>1, <2>1, DrawIs DEF ScoreListenerOK, ListenerState
<1>7. CASE CreateKnockoutMatches
  <2>1. CASE ~PlayoffError(scoreListener.seen) /\ Missing(Draw) # <<>>
    <3>1. scoreListener.seen = Draw /\ Seeded(Draw)
      BY <1>1, <1>7, <2>1, DrawIs DEF CreateKnockoutMatches, ScoreListenerOK, Seeded
    <3> DEFINE todo == Missing(Draw)
    <3>2. todo \in Seq(KnockoutKey) /\ todo \in Seq(MatchKey)
      BY <1>1, <3>1, MissingIs, KeyKinds, SeqMonotonic
    <3>3. scoreListener' = [scoreListener EXCEPT !.pc = "inserting", !.todo = todo]
      BY <1>7, <2>1, <3>1 DEF CreateKnockoutMatches, StartInserting
    <3>4. todo # <<>>
      BY <2>1
    <3> HIDE DEF todo
    <3> QED
      BY <1>1, <3>1, <3>2, <3>3, <3>4 DEF ScoreListenerOK, ListenerState
  <2>2. CASE ~PlayoffError(scoreListener.seen) /\ Missing(Draw) = <<>>
    <3>1. scoreListener.seen = Draw
      BY <1>1, <1>7 DEF CreateKnockoutMatches, ScoreListenerOK
    <3> QED
      BY <1>3, <1>7, <2>2, <3>1 DEF CreateKnockoutMatches, StartInserting
  <2> QED
    BY <1>3, <1>7, <2>1, <2>2 DEF CreateKnockoutMatches
<1>8. CASE scoreListener.pc = "inserting" /\ scoreListener' = Advance(scoreListener)
  <2>1. /\ scoreListener.todo \in Seq(KnockoutKey) /\ scoreListener.todo # <<>>
        /\ Seeded(Draw) /\ scoreListener.seen = Draw
    BY <1>1, <1>8 DEF ScoreListenerOK
  <2>2. /\ Advance(scoreListener) \in ListenerState
        /\ \/ Advance(scoreListener) = Idle
           \/ /\ Advance(scoreListener).todo \in Seq(KnockoutKey)
              /\ Advance(scoreListener).todo # <<>>
              /\ Advance(scoreListener).seen = scoreListener.seen
    BY <1>1, <2>1, KeyKinds, AdvanceIs
  <2> QED
    BY <1>3, <1>8, <2>1, <2>2 DEF ScoreListenerOK
<1> QED
  BY <1>2, <1>3, <1>4, <1>5, <1>6, <1>7, <1>8
     DEF Next, vars, listeners, MatchStep, ConsumerStep, ConsumerNext, TeamListenerStep,
         ScoreListenerStep, ReceiveTeamAdd, IsTournamentReady, CreateGroupStageMatches,
         InsertGroupMatch, CrashReadingWinners, InsertKnockoutMatch, TeamListenerError,
         ScoreListenerError, ConsumerCrash, BrokerRestart

LEMMA TypeStep == TypeInv /\ [Next]_vars => TypeInv'
  BY TablesKept, TeamListenerKept, ScoreListenerKept DEF TypeInv

LEMMA TypeAlways == Spec => []TypeInv
  BY InitTypes, TypeStep, PTL DEF Spec

\* The tables, the queues and the listeners stay within their types: what the
\* strategy proposes is always a match of two teams, whatever was scored.
THEOREM TypeCorrect == Spec => []TypeOK
<1>1. TypeInv => TypeOK
  BY DEF TypeInv, TablesOK, TeamListenerOK, ScoreListenerOK, TypeOK, ConsumerTypeOK
<1> QED
  BY <1>1, TypeAlways, PTL
---------------------------------------------------------------------------
\* How the matches table changes

\* Nobody creates a match of the group stage, or any match, through the API.
NoGroupMatchByHand == \A k \in ManualMatches : k.round # "group"

\* The head of todo is inserted.
GroupInsert ==
  /\ InsertGroupMatch
  /\ Head(teamListener.todo) \notin DOMAIN matches
  /\ InsertMatch(Head(teamListener.todo))
  /\ teamListener' = Advance(teamListener)
  /\ UNCHANGED publishing

KnockoutInsert ==
  /\ InsertKnockoutMatch
  /\ Head(scoreListener.todo) \notin DOMAIN matches
  /\ InsertMatch(Head(scoreListener.todo))
  /\ UNCHANGED publishing

Score(k, s) ==
  /\ UpdateScore(k, s)
  /\ EagerScoring \/ teamListener.pc # "inserting" \/ UNCHANGED matches
  /\ UNCHANGED listeners

LEMMA MatchesChange ==
  ASSUME [Next]_vars
  PROVE  \/ UNCHANGED matches
         \/ \E k \in DOMAIN matches, s \in Scores : Score(k, s)
         \/ \E k \in ManualMatches : CreateMatch(k) /\ UNCHANGED listeners
         \/ GroupInsert
         \/ KnockoutInsert
<1>1. CASE UNCHANGED vars
  BY <1>1 DEF vars, store
<1>2. CASE MatchStep
  BY <1>2 DEF MatchStep, MatchServiceNext, PublishScoreRecorded, LoseScoreRecorded, store, Score
<1>3. CASE ConsumerStep
  BY <1>3 DEF ConsumerStep, ConsumerNext, TeamListenerStep, ScoreListenerStep, ReceiveTeamAdd,
       IsTournamentReady, CreateGroupStageMatches, InsertGroupMatch, ReceiveScoreRecorded,
       AllGroupMatchesPlayed, ReadGroups, CreateKnockoutMatches, CrashReadingWinners,
       InsertKnockoutMatch, TeamListenerError, ScoreListenerError, ConsumerCrash,
       BrokerRestart, GroupInsert, KnockoutInsert, store
<1> QED
  BY <1>1, <1>2, <1>3 DEF Next

\* Rows are never deleted, and only GroupInsert adds one to the group stage.
LEMMA RowsStay ==
  ASSUME TypeInv, [Next]_vars
  PROVE  /\ DOMAIN matches \subseteq DOMAIN matches'
         /\ NoGroupMatchByHand /\ GroupStage' # GroupStage =>
              /\ GroupInsert
              /\ GroupStage' = GroupStage \cup {Head(teamListener.todo)}
<1>1. MatchTable(matches)
  BY DEF TypeInv, TablesOK
<1>2. CASE UNCHANGED matches
  BY <1>2 DEF GroupStage
<1>3. ASSUME NEW k \in DOMAIN matches, NEW s \in Scores, Score(k, s)
      PROVE  DOMAIN matches' = DOMAIN matches
  BY <1>1, <1>3, ScoredTable DEF Score
<1>4. ASSUME NEW k \in ManualMatches, CreateMatch(k)
      PROVE  DOMAIN matches' = DOMAIN matches \cup {k}
  BY <1>4 DEF CreateMatch, InsertMatch
<1>5. CASE GroupInsert
  <2>1. DOMAIN matches' = DOMAIN matches \cup {Head(teamListener.todo)}
    BY <1>5 DEF GroupInsert, InsertMatch
  <2>2. Head(teamListener.todo).round = "group"
    BY <1>5, KeyKinds, AdvanceIs DEF GroupInsert, InsertGroupMatch, TypeInv, TeamListenerOK
  <2> QED
    BY <1>5, <2>1, <2>2 DEF GroupStage
<1>6. CASE KnockoutInsert
  <2>1. DOMAIN matches' = DOMAIN matches \cup {Head(scoreListener.todo)}
    BY <1>6 DEF KnockoutInsert, InsertMatch
  <2>2. Head(scoreListener.todo).round # "group"
    BY <1>6, KeyKinds, AdvanceIs DEF KnockoutInsert, InsertKnockoutMatch, TypeInv, ScoreListenerOK
  <2> QED
    BY <2>1, <2>2 DEF GroupStage
<1>7. GroupStage = {k \in DOMAIN matches : k.round = "group"}
      /\ GroupStage' = {k \in DOMAIN matches' : k.round = "group"}
  BY DEF GroupStage
<1>8. CASE \E k \in DOMAIN matches, s \in Scores : Score(k, s)
  BY <1>3, <1>7, <1>8
<1>9. CASE \E k \in ManualMatches : CreateMatch(k) /\ UNCHANGED listeners
  BY <1>4, <1>7, <1>9 DEF NoGroupMatchByHand
<1> QED
  BY <1>2, <1>5, <1>6, <1>8, <1>9, MatchesChange

---------------------------------------------------------------------------
\* The group stage is inserted in order

First(n) == ToSet(SubSeq(Fixtures, 1, n))

\* The fixtures still to insert after the first n.
Remaining(n) == SubSeq(Fixtures, n + 1, Len(Fixtures))

LEMMA FixtureLists ==
  /\ Len(Fixtures) \in Nat
  /\ First(0) = {} /\ Remaining(0) = Fixtures
  /\ \A n \in 1..Len(Fixtures) : Fixtures[1] \in First(n)
  /\ \A n \in 0..(Len(Fixtures) - 1) :
       /\ Head(Remaining(n)) = Fixtures[n + 1]
       /\ First(n + 1) = First(n) \cup {Fixtures[n + 1]}
       /\ Len(Remaining(n)) = Len(Fixtures) - n
       /\ n + 1 < Len(Fixtures) => Tail(Remaining(n)) = Remaining(n + 1)
<1> DEFINE S == KeysOf("group")
           N == Len(Fixtures)
<1>1. Fixtures \in Seq(S) /\ N \in Nat /\ DOMAIN Fixtures = 1..N
      /\ \A i \in 1..N : Fixtures[i] \in S
  BY FixturesType, LenProperties, ElementOfSeq
<1>2. ASSUME NEW n \in 0..N PROVE First(n) = {Fixtures[i] : i \in 1..n}
  <2>1. /\ SubSeq(Fixtures, 1, n) \in Seq(S) /\ Len(SubSeq(Fixtures, 1, n)) = n
        /\ \A i \in 1..n : SubSeq(Fixtures, 1, n)[i] = Fixtures[i]
    BY <1>1
  <2>2. DOMAIN SubSeq(Fixtures, 1, n) = 1..n
    BY <2>1, LenProperties
  <2> QED
    BY <2>1, <2>2 DEF First, ToSet
<1>3. ASSUME NEW n \in 0..N
      PROVE  /\ Remaining(n) \in Seq(S) /\ Len(Remaining(n)) = N - n
             /\ \A i \in 1..(N - n) : Remaining(n)[i] = Fixtures[n + i]
  <2>1. n + 1 \in Int /\ N \in Int /\ \A i \in (n + 1)..N : Fixtures[i] \in S
    BY <1>1
  <2> HIDE DEF N
  <2>2. /\ Remaining(n) \in Seq(S)
        /\ Len(Remaining(n)) = IF n + 1 <= N THEN N - (n + 1) + 1 ELSE 0
        /\ \A i \in 1..(N - (n + 1) + 1) : Remaining(n)[i] = Fixtures[(n + 1) + i - 1]
    BY <2>1, SubSeqProperties DEF Remaining, N
  <2>3. /\ N - (n + 1) + 1 = N - n /\ (~(n + 1 <= N) => N - n = 0)
        /\ \A i \in 1..(N - n) : (n + 1) + i - 1 = n + i
    BY <1>1
  <2> QED
    BY <2>2, <2>3
<1>4. First(0) = {}
  BY <1>1, <1>2
<1>5. Remaining(0) = Fixtures
  <2> DEFINE r == Remaining(0)
  <2>1. r \in Seq(S) /\ Len(r) = N - 0 /\ \A i \in 1..(N - 0) : r[i] = Fixtures[0 + i]
    <3>1. 0 \in 0..N
      BY <1>1
    <3> HIDE DEF N
    <3> QED
      BY <1>3, <3>1
  <2> HIDE DEF r
  <2>2. Len(r) = Len(Fixtures) /\ \A i \in 1..Len(r) : r[i] = Fixtures[i]
    BY <1>1, <2>1
  <2>3. r = Fixtures
    BY <1>1, <2>1, <2>2, SeqEqual
  <2> QED
    BY <2>3 DEF r
<1>6. \A n \in 1..N : Fixtures[1] \in First(n)
  BY <1>1, <1>2
<1>7. ASSUME NEW n \in 0..(N - 1)
      PROVE  /\ Head(Remaining(n)) = Fixtures[n + 1]
             /\ First(n + 1) = First(n) \cup {Fixtures[n + 1]}
             /\ n + 1 < N => Tail(Remaining(n)) = Remaining(n + 1)
  <2>1. n \in 0..N /\ n + 1 \in 0..N /\ 1 \in 1..(N - n) /\ N - n \in Nat
    BY <1>1
  <2> DEFINE r == Remaining(n)
             q == Remaining(n + 1)
  <2>2. /\ r \in Seq(S) /\ Len(r) = N - n /\ \A i \in 1..(N - n) : r[i] = Fixtures[n + i]
        /\ q \in Seq(S) /\ Len(q) = N - (n + 1)
        /\ \A i \in 1..(N - (n + 1)) : q[i] = Fixtures[(n + 1) + i]
    BY <1>3, <2>1
  <2> HIDE DEF r, q
  <2>3. r # <<>>
    BY <2>1, <2>2
  <2>4. /\ Head(r) = r[1] /\ Tail(r) \in Seq(S) /\ Len(Tail(r)) = Len(r) - 1
        /\ \A i \in 1..Len(Tail(r)) : Tail(r)[i] = r[i + 1]
    BY <2>2, <2>3, HeadTailProperties
  <2>5. Tail(r) = q
    <3>1. Len(Tail(r)) = Len(q)
      <4>1. (N - n) - 1 = N - (n + 1)
        BY <1>1
      <4> HIDE DEF N
      <4> QED
        BY <2>2, <2>4, <4>1
    <3>2. ASSUME NEW i \in 1..Len(q) PROVE Tail(r)[i] = q[i]
      <4>1. i + 1 \in 1..(N - n) /\ i \in 1..(N - (n + 1)) /\ n + (i + 1) = (n + 1) + i
        BY <1>1, <2>2
      <4> QED
        BY <2>2, <2>4, <3>1, <4>1
    <3> QED
      BY <2>2, <2>4, <3>1, <3>2, SeqEqual
  <2>6. First(n + 1) = First(n) \cup {Fixtures[n + 1]}
    <3>1. 1..(n + 1) = 1..n \cup {n + 1}
      BY <1>1
    <3>2. First(n) = {Fixtures[i] : i \in 1..n} /\ First(n + 1) = {Fixtures[i] : i \in 1..(n + 1)}
      BY <1>2, <2>1
    <3> QED
      BY <3>1, <3>2
  <2> QED
    BY <2>1, <2>2, <2>4, <2>5, <2>6 DEF r, q
<1>8. \A n \in 0..(N - 1) : Len(Remaining(n)) = N - n
  <2>1. \A n \in 0..(N - 1) : n \in 0..N
    BY <1>1
  <2> HIDE DEF N
  <2> QED
    BY <1>3, <2>1
<1> QED
  BY <1>1, <1>4, <1>5, <1>6, <1>7, <1>8

\* The group stage in the store is a first part of the list.
StartsInOrder ==
  \A s \in Starts : \E n \in 0..Len(Fixtures) :
    {k \in DOMAIN s.matches : k.round = "group"} = First(n)

\* A listener that inserts either is about to meet a duplicate or goes on where
\* the stored part ends.
OrderInv ==
  /\ \E n \in 0..Len(Fixtures) : GroupStage = First(n)
  /\ teamListener.pc = "inserting" =>
       \/ Head(teamListener.todo) \in GroupStage
       \/ \E n \in 0..(Len(Fixtures) - 1) :
            GroupStage = First(n) /\ teamListener.todo = Remaining(n)
\* A listener that inserts afterwards inserted before, or has just listed the
\* fixtures of the draw.
LEMMA TeamListenerInserts ==
  ASSUME TypeInv, [Next]_vars, teamListener'.pc = "inserting"
  PROVE  \/ UNCHANGED teamListener
         \/ /\ teamListener'.todo = Fixtures /\ ~RegularPhaseError(Draw)
            /\ UNCHANGED <<store, publishing, scoreListener>>
         \/ /\ GroupInsert /\ teamListener' = Advance(teamListener) /\ Advance(teamListener) # Idle
            /\ teamListener.pc = "inserting"
<1>1. Idle.pc = "idle" /\ AllGroups = Draw
  BY DEF Idle, TypeInv, TablesOK
<1>2. teamListener' # Idle
  BY <1>1
<1>3. CASE CreateGroupStageMatches /\ UNCHANGED publishing
  BY <1>1, <1>2, <1>3 DEF CreateGroupStageMatches, Fixtures
<1>4. CASE InsertGroupMatch /\ UNCHANGED publishing
  BY <1>1, <1>2, <1>4 DEF InsertGroupMatch, GroupInsert
<1>5. CASE ReceiveTeamAdd
  <2>1. teamListener' = [pc |-> "checking", seen |-> <<>>, todo |-> <<>>]
    BY <1>5 DEF ReceiveTeamAdd, Idle
  <2> QED
    BY <2>1
<1>6. CASE IsTournamentReady
  <2>1. teamListener' = [teamListener EXCEPT !.pc = "reading"]
    BY <1>2, <1>6 DEF IsTournamentReady
  <2>2. teamListener \in ListenerState
    BY DEF TypeInv, TeamListenerOK
  <2> QED
    BY <2>1, <2>2 DEF ListenerState
<1> QED
  BY <1>2, <1>3, <1>4, <1>5, <1>6
     DEF Next, vars, listeners, MatchStep, ConsumerStep, ConsumerNext, TeamListenerStep,
         ScoreListenerStep, ReceiveScoreRecorded, AllGroupMatchesPlayed, ReadGroups,
         CreateKnockoutMatches, CrashReadingWinners, InsertKnockoutMatch, TeamListenerError,
         ScoreListenerError, ConsumerCrash, BrokerRestart

LEMMA OrderInit == ASSUME StartsInOrder, Init PROVE OrderInv
<1>1. PICK s \in Starts : matches = s.matches
  BY DEF Init
<1>2. \E n \in 0..Len(Fixtures) : GroupStage = First(n)
  BY <1>1 DEF StartsInOrder, GroupStage
<1>3. teamListener.pc = "idle"
  BY DEF Init, ConsumerInit, Idle
<1> QED
  BY <1>2, <1>3 DEF OrderInv

LEMMA OrderStep ==
  ASSUME NoGroupMatchByHand, TypeInv, OrderInv, [Next]_vars
  PROVE  OrderInv'
<1> DEFINE todo == teamListener.todo
           N == Len(Fixtures)
<1>1. PICK n \in 0..N : GroupStage = First(n)
  BY DEF OrderInv
<1>2. N \in Nat
  BY FixtureLists
\* The stored part grows by the next fixture.
<1>3. ASSUME GroupInsert
      PROVE  \E p \in 0..(N - 1) : /\ todo = Remaining(p)
                                   /\ GroupStage' = First(p + 1)
  <2>1. teamListener.pc = "inserting" /\ todo \in Seq(KeysOf("group")) /\ todo # <<>>
    BY <1>3 DEF GroupInsert, InsertGroupMatch, TypeInv, TeamListenerOK
  <2>2. Head(todo) \notin GroupStage
    BY <1>3 DEF GroupInsert, GroupStage
  <2>3. PICK p \in 0..(N - 1) : GroupStage = First(p) /\ todo = Remaining(p)
    BY <2>1, <2>2 DEF OrderInv
  <2>4. GroupStage' = GroupStage \cup {Head(todo)}
    <3>1. Head(todo).round = "group"
      BY <2>1, KeyKinds, HeadTailProperties
    <3>2. DOMAIN matches' = DOMAIN matches \cup {Head(todo)}
      BY <1>3 DEF GroupInsert, InsertMatch
    <3> QED
      BY <3>1, <3>2 DEF GroupStage
  <2>5. Head(todo) = Fixtures[p + 1] /\ First(p + 1) = First(p) \cup {Fixtures[p + 1]}
    BY <2>3, FixtureLists
  <2> QED
    BY <2>3, <2>4, <2>5
<1>4. \E p \in 0..N : GroupStage' = First(p)
  <2>1. CASE GroupStage' = GroupStage
    BY <1>1, <2>1
  <2>2. CASE GroupInsert
    <3>1. PICK p \in 0..(N - 1) : GroupStage' = First(p + 1)
      BY <1>3, <2>2
    <3>2. p + 1 \in 0..N
      BY <1>2
    <3> QED
      BY <3>1, <3>2
  <2> QED
    BY <2>1, <2>2, RowsStay
<1>5. ASSUME teamListener'.pc = "inserting"
      PROVE  \/ Head(teamListener'.todo) \in GroupStage'
             \/ \E p \in 0..(N - 1) : GroupStage' = First(p) /\ teamListener'.todo = Remaining(p)
  <2>1. CASE GroupInsert /\ teamListener' = Advance(teamListener) /\ Advance(teamListener) # Idle
             /\ teamListener.pc = "inserting"
    <3>1. PICK p \in 0..(N - 1) : todo = Remaining(p) /\ GroupStage' = First(p + 1)
      BY <1>3, <2>1
    <3>2. teamListener'.todo = Tail(todo) /\ Len(todo) # 1
      BY <2>1, KeyKinds, AdvanceIs DEF TypeInv, TeamListenerOK
    <3>3. Len(todo) = N - p
      BY <3>1, FixtureLists
    <3>4. p + 1 < N /\ p + 1 \in 0..(N - 1)
      BY <1>2, <3>2, <3>3
    <3>5. Tail(todo) = Remaining(p + 1)
      BY <3>1, <3>4, FixtureLists
    <3> QED
      BY <3>1, <3>2, <3>4, <3>5
  <2>2. CASE UNCHANGED teamListener /\ ~GroupInsert
    <3>1. GroupStage' = GroupStage
      BY <2>2, RowsStay
    <3> QED
      BY <1>5, <2>2, <3>1 DEF OrderInv
  <2>3. CASE UNCHANGED teamListener /\ GroupInsert
    <3>1. todo \in Seq(KeysOf("group")) /\ todo # <<>>
      BY <2>3 DEF GroupInsert, InsertGroupMatch, TypeInv, TeamListenerOK
    <3>2. PICK p \in 0..(N - 1) : todo = Remaining(p) /\ GroupStage' = First(p + 1)
      BY <1>3, <2>3
    <3>3. Head(todo) \in First(p + 1)
      <4>1. /\ Head(Remaining(p)) = Fixtures[p + 1]
            /\ First(p + 1) = First(p) \cup {Fixtures[p + 1]}
        BY FixtureLists
      <4> QED
        BY <3>2, <4>1
    <3> QED
      BY <2>3, <3>2, <3>3
  <2>4. CASE /\ teamListener'.todo = Fixtures /\ ~RegularPhaseError(Draw)
             /\ UNCHANGED <<store, publishing, scoreListener>>
    <3>1. GroupStage' = First(n)
      BY <1>1, <2>4 DEF store, GroupStage
    <3>2. Fixtures # <<>> /\ Fixtures \in Seq(KeysOf("group"))
      BY <2>4, FixturesType, FixturesNotEmpty
    <3>3. N # 0
      BY <3>2, EmptySeq
    <3>4. CASE n = 0
      BY <1>2, <2>4, <3>1, <3>3, <3>4, FixtureLists
    <3>5. CASE n # 0
      <4>1. Head(Fixtures) = Fixtures[1]
        BY <3>2
      <4> QED
        BY <2>4, <3>1, <3>5, <4>1, FixtureLists
    <3> QED
      BY <3>4, <3>5
  <2> QED
    BY <1>5, <2>1, <2>2, <2>3, <2>4, TeamListenerInserts
<1> QED
  BY <1>4, <1>5 DEF OrderInv

LEMMA OrderAlways ==
  ASSUME NoGroupMatchByHand, StartsInOrder
  PROVE  Spec => [](TypeInv /\ OrderInv)
<1>1. Init => TypeInv /\ OrderInv
  BY InitTypes, OrderInit
<1>2. (TypeInv /\ OrderInv) /\ [Next]_vars => (TypeInv /\ OrderInv)'
  BY TypeStep, OrderStep
<1> QED
  BY <1>1, <1>2, PTL DEF Spec

\* The stored group fixtures are always the first ones of the list: the listener
\* that was cut off, or that was called again, never leaves a gap.
THEOREM InsertedInOrder ==
  ASSUME NoGroupMatchByHand, StartsInOrder
  PROVE  Spec => []GroupStageInOrder
<1>1. OrderInv => GroupStageInOrder
  BY DEF OrderInv, GroupStageInOrder, First, Fixtures
<1> QED
  BY <1>1, OrderAlways, PTL
---------------------------------------------------------------------------
\* The knockout waits for the stored group stage

\* A cup that has not reached the knockout, with no score event about nothing.
FreshStarts ==
  \A s \in Starts :
    /\ \A k \in DOMAIN s.matches : k.round = "group"
    /\ s.scoreEvents > 0 => DOMAIN s.matches # {}

\* If results may come in while the fixtures are inserted, all are there already.
ScoringWaits ==
  EagerScoring => \A s \in Starts : ToSet(Fixtures) \subseteq DOMAIN s.matches

\* The conditions under which the group stage is closed when the knockout opens.
OrderlyCup == ManualMatches = {} /\ StartsInOrder /\ FreshStarts /\ ScoringWaits

\* Nothing has been scored and no trace of a score is on its way.
Quiet ==
  /\ scoreEvents = 0 /\ publishing = 0 /\ scoreListener = Idle
  /\ Knockout = {} /\ \A k \in DOMAIN matches : ~HasScore(matches, k)

Passed == {"reading", "composing", "inserting"}

\* The fixtures are inserted before the first score or not at all: once a score
\* exists a listener that starts over meets a duplicate first.  So what the
\* other listener found played is all there is and will be.
PlayInv ==
  /\ ~Quiet => GroupStage # {}
  /\ teamListener.pc = "inserting" => Head(teamListener.todo) \in GroupStage \/ Quiet
  /\ EagerScoring => ToSet(Fixtures) \subseteq GroupStage
  /\ Knockout # {} \/ scoreListener.pc \in Passed => \A k \in GroupStage : HasScore(matches, k)

LEMMA OrderlyIsByTheApp == OrderlyCup => NoGroupMatchByHand
  BY DEF OrderlyCup, NoGroupMatchByHand

\* A match that has a score keeps one.
LEMMA ScoresStay ==
  ASSUME TypeInv, [Next]_vars, NEW k \in DOMAIN matches, HasScore(matches, k)
  PROVE  HasScore(matches', k)
<1>1. MatchTable(matches)
  BY DEF TypeInv, TablesOK
<1>2. ASSUME NEW m \in DOMAIN matches, NEW s \in Scores, Score(m, s)
      PROVE  HasScore(matches', k)
  <2>1. /\ matches'[m] = ScoredResult(m, s)
        /\ \A x \in DOMAIN matches \ {m} : matches'[x] = matches[x]
    BY <1>1, <1>2, ScoredTable DEF Score
  <2>2. ScoredResult(m, s) # NoResult
    BY <1>1, ScoredResultIs DEF MatchTable
  <2> QED
    BY <2>1, <2>2 DEF HasScore
<1>3. ASSUME NEW m, m \notin DOMAIN matches, InsertMatch(m)
      PROVE  HasScore(matches', k)
  BY <1>3 DEF InsertMatch, HasScore
<1>4. CASE UNCHANGED matches
  BY <1>4 DEF HasScore
<1> QED
  BY <1>2, <1>3, <1>4, MatchesChange DEF CreateMatch, GroupInsert, KnockoutInsert

\* Only a score ends the quiet, and none is given while fixtures are inserted
\* unless EagerScoring says so.
LEMMA QuietEnds ==
  ASSUME OrderlyCup, TypeInv, [Next]_vars, Quiet, ~Quiet'
  PROVE  GroupStage # {} /\ (EagerScoring \/ teamListener.pc # "inserting")
<1>1. MatchTable(matches) /\ publishing \in Nat /\ scoreEvents \in Nat
  BY MatchServiceAssumption DEF TypeInv, TablesOK, StoreTypeOK
<1>2. Idle.pc = "idle"
  BY DEF Idle
<1>3. ASSUME NEW k \in DOMAIN matches, NEW s \in Scores, Score(k, s)
      PROVE  GroupStage # {} /\ (EagerScoring \/ teamListener.pc # "inserting")
  <2>1. matches'[k] = ScoredResult(k, s) /\ ScoredResult(k, s) # NoResult
    BY <1>1, <1>3, ScoredTable, ScoredResultIs DEF Score, MatchTable
  <2>2. matches[k] = NoResult
    BY DEF Quiet, HasScore
  <2>3. k \in MatchKey
    BY <1>1 DEF MatchTable
  <2>4. k.round = "group"
    BY <2>3 DEF Quiet, Knockout, KnockoutRounds, MatchKey
  <2> QED
    BY <1>3, <2>1, <2>2, <2>4 DEF Score, GroupStage
<1>4. CASE GroupInsert
  <2>1. DOMAIN matches' = DOMAIN matches \cup {Head(teamListener.todo)}
        /\ matches'[Head(teamListener.todo)] = NoResult
        /\ \A x \in DOMAIN matches \ {Head(teamListener.todo)} : matches'[x] = matches[x]
    BY <1>4 DEF GroupInsert, InsertMatch
  <2>2. Head(teamListener.todo).round = "group"
    BY <1>4, KeyKinds, AdvanceIs DEF GroupInsert, InsertGroupMatch, TypeInv, TeamListenerOK
  <2>3. Knockout' = {}
    BY <2>1, <2>2 DEF Quiet, Knockout, KnockoutRounds
  <2>4. \A k \in DOMAIN matches' : ~HasScore(matches', k)
    BY <2>1 DEF Quiet, HasScore
  <2>5. UNCHANGED <<scoreEvents, publishing, scoreListener>>
    BY <1>4 DEF GroupInsert, InsertGroupMatch
  <2> QED
    BY <2>3, <2>4, <2>5 DEF Quiet
<1>5. CASE UNCHANGED <<matches, scoreEvents, publishing, scoreListener>>
  BY <1>5 DEF Quiet, Knockout, HasScore
<1>6. CASE scoreListener' = Idle /\ UNCHANGED <<matches, scoreEvents, publishing>>
  BY <1>6 DEF Quiet, Knockout, HasScore
<1>7. CASE BrokerRestart /\ UNCHANGED listeners
  BY <1>1, <1>7 DEF BrokerRestart, Quiet
<1>8. CASE MatchStep
  <2>1. CASE PublishScoreRecorded \/ LoseScoreRecorded
    BY <1>1, <2>1 DEF PublishScoreRecorded, LoseScoreRecorded, Quiet
  <2> QED
    BY <1>3, <1>8, <2>1 DEF OrderlyCup, MatchStep, MatchServiceNext, Score
<1>9. CASE ConsumerStep
  <2>1. CASE ScoreListenerStep \/ ScoreListenerError
    BY <1>1, <1>2, <2>1 DEF Quiet, ScoreListenerStep, ReceiveScoreRecorded,
         AllGroupMatchesPlayed, ReadGroups, CreateKnockoutMatches, CrashReadingWinners,
         InsertKnockoutMatch, ScoreListenerError
  <2>2. CASE TeamListenerStep
    BY <1>4, <1>5, <1>9, <2>2 DEF TeamListenerStep, ReceiveTeamAdd, IsTournamentReady,
         CreateGroupStageMatches, InsertGroupMatch, GroupInsert, store, ConsumerStep
  <2>3. CASE TeamListenerError \/ ConsumerCrash
    BY <1>5, <1>6, <1>9, <2>3 DEF TeamListenerError, ConsumerCrash, store, ConsumerStep
  <2> QED
    BY <1>7, <1>9, <2>1, <2>2, <2>3 DEF ConsumerStep, ConsumerNext
<1>10. CASE UNCHANGED vars
  BY <1>5, <1>10 DEF vars, store, listeners
<1> QED
  BY <1>8, <1>9, <1>10 DEF Next

\* The first step towards the knockout is the check of the group stage.
LEMMA KnockoutBegins ==
  ASSUME ManualMatches = {}, TypeInv, [Next]_vars, ~AllGroupMatchesPlayed,
         Knockout = {}, scoreListener.pc \notin Passed
  PROVE  Knockout' = {} /\ scoreListener'.pc \notin Passed
<1>1. MatchTable(matches) /\ Idle.pc = "idle" /\ "idle" \notin Passed /\ "checking" \notin Passed
  BY DEF TypeInv, TablesOK, Idle, Passed
<1>2. \A k \in DOMAIN matches' : k \in DOMAIN matches \/ k.round \notin KnockoutRounds
  <2>1. CASE GroupInsert
    <3>1. DOMAIN matches' = DOMAIN matches \cup {Head(teamListener.todo)}
      BY <2>1 DEF GroupInsert, InsertMatch
    <3>2. Head(teamListener.todo).round = "group"
      BY <2>1, KeyKinds, AdvanceIs DEF GroupInsert, InsertGroupMatch, TypeInv, TeamListenerOK
    <3> QED
      BY <3>1, <3>2 DEF KnockoutRounds
  <2>2. ASSUME NEW k \in DOMAIN matches, NEW s \in Scores, Score(k, s)
        PROVE  DOMAIN matches' = DOMAIN matches
    BY <1>1, <2>2, ScoredTable DEF Score
  <2>3. ~KnockoutInsert
    BY <1>1 DEF KnockoutInsert, InsertKnockoutMatch, Passed
  <2> QED
    BY <2>1, <2>2, <2>3, MatchesChange
<1>3. Knockout' = {}
  BY <1>2 DEF Knockout
<1>4. scoreListener'.pc \in {scoreListener.pc, "idle", "checking"}
  <2>1. CASE ReceiveScoreRecorded
    BY <2>1 DEF ReceiveScoreRecorded, Idle
  <2>2. ~ReadGroups /\ ~CreateKnockoutMatches /\ ~InsertKnockoutMatch
    BY DEF Passed, ReadGroups, CreateKnockoutMatches, InsertKnockoutMatch
  <2>3. CASE ScoreListenerError
    BY <1>1, <2>3 DEF ScoreListenerError, Passed
  <2> QED
    BY <1>1, <2>1, <2>2, <2>3
       DEF Next, vars, listeners, MatchStep, ConsumerStep, ConsumerNext, TeamListenerStep,
           ScoreListenerStep, ReceiveTeamAdd, IsTournamentReady, CreateGroupStageMatches,
           InsertGroupMatch, CrashReadingWinners, TeamListenerError, ConsumerCrash,
           BrokerRestart
<1> QED
  BY <1>1, <1>3, <1>4

LEMMA PlayInit == ASSUME OrderlyCup, Init PROVE PlayInv
<1>1. PICK s \in Starts : matches = s.matches /\ scoreEvents = s.scoreEvents
  BY DEF Init
<1>2. /\ teamListener = Idle /\ scoreListener = Idle /\ publishing = 0
      /\ Idle.pc = "idle"
  BY DEF Init, ConsumerInit, MatchServiceInit, Idle
<1>3. /\ \A k \in DOMAIN matches : k.round = "group"
      /\ scoreEvents > 0 => DOMAIN matches # {}
      /\ scoreEvents \in Nat
  BY <1>1, StartsAssumption DEF OrderlyCup, FreshStarts
<1>4. GroupStage = DOMAIN matches /\ Knockout = {}
  BY <1>3 DEF GroupStage, Knockout, KnockoutRounds
<1>5. ~Quiet => GroupStage # {}
  BY <1>2, <1>3, <1>4 DEF Quiet
<1>6. EagerScoring => ToSet(Fixtures) \subseteq GroupStage
  BY <1>1, <1>4 DEF OrderlyCup, ScoringWaits
<1> QED
  BY <1>2, <1>4, <1>5, <1>6 DEF PlayInv, Passed

LEMMA PlayStep ==
  ASSUME OrderlyCup, TypeInv, OrderInv, PlayInv, [Next]_vars
  PROVE  PlayInv'
<1>1. GroupStage \subseteq GroupStage' /\ Idle.pc = "idle"
  BY RowsStay DEF GroupStage, Idle
<1>2. (~Quiet => GroupStage # {})'
  BY <1>1, QuietEnds DEF PlayInv
<1>3. (EagerScoring => ToSet(Fixtures) \subseteq GroupStage)'
  BY <1>1 DEF PlayInv
\* The head of todo is one of the fixtures, so with EagerScoring it is stored.
<1>4. EagerScoring /\ teamListener.pc = "inserting" => Head(teamListener.todo) \in GroupStage
  <2>1. ASSUME NEW n \in 0..(Len(Fixtures) - 1), teamListener.todo = Remaining(n)
        PROVE  Head(teamListener.todo) \in ToSet(Fixtures)
    <3>1. Head(teamListener.todo) = Fixtures[n + 1] /\ Len(Fixtures) \in Nat
      BY <2>1, FixtureLists
    <3>2. n + 1 \in DOMAIN Fixtures
      BY <3>1, FixturesType, LenProperties
    <3> QED
      BY <3>1, <3>2 DEF ToSet
  <2> QED
    BY <2>1 DEF OrderInv, PlayInv
<1>5. ASSUME teamListener'.pc = "inserting"
      PROVE  Head(teamListener'.todo) \in GroupStage' \/ Quiet'
  <2>1. CASE UNCHANGED teamListener
    <3>1. CASE Head(teamListener.todo) \in GroupStage
      BY <1>1, <2>1, <3>1
    <3>2. CASE Head(teamListener.todo) \notin GroupStage
      <4>1. Quiet /\ ~EagerScoring
        BY <1>4, <1>5, <2>1, <3>2 DEF PlayInv
      <4> QED
        BY <1>5, <2>1, <4>1, QuietEnds
    <3> QED
      BY <3>1, <3>2
  <2>2. CASE /\ teamListener'.todo = Fixtures /\ ~RegularPhaseError(Draw)
             /\ UNCHANGED <<store, publishing, scoreListener>>
    <3>1. Quiet => Quiet'
      BY <2>2 DEF Quiet, store, Knockout
    <3>2. PICK n \in 0..Len(Fixtures) : GroupStage = First(n)
      BY DEF OrderInv
    <3>3. CASE n = 0
      <4>1. GroupStage = {}
        BY <3>2, <3>3, FixtureLists
      <4> QED
        BY <3>1, <4>1 DEF PlayInv
    <3>4. CASE n # 0
      <4>1. n \in 1..Len(Fixtures)
        BY <3>4, FixtureLists
      <4>2. Fixtures \in Seq(KeysOf("group")) /\ Fixtures # <<>>
        BY <2>2, FixturesType, FixturesNotEmpty
      <4>3. Head(Fixtures) = Fixtures[1]
        BY <4>2
      <4>4. Head(Fixtures) \in GroupStage
        BY <3>2, <4>1, <4>3, FixtureLists
      <4> QED
        BY <1>1, <2>2, <4>4
    <3> QED
      BY <3>3, <3>4
  <2>3. CASE GroupInsert /\ teamListener.pc = "inserting"
    <3>1. Head(teamListener.todo) \notin GroupStage
      BY <2>3 DEF GroupInsert, GroupStage
    <3>2. Quiet /\ ~EagerScoring
      BY <1>4, <2>3, <3>1 DEF PlayInv
    <3> QED
      BY <2>3, <3>2, QuietEnds
  <2> QED
    BY <1>5, <2>1, <2>2, <2>3, TeamListenerInserts
\* Who passed the check saw every stored group match played.
<1>6. ASSUME Knockout' # {} \/ scoreListener'.pc \in Passed
      PROVE  \A k \in GroupStage' : HasScore(matches', k)
  <2>1. CASE Knockout # {} \/ scoreListener.pc \in Passed
    <3>1. ~Quiet
      BY <1>1, <2>1 DEF Quiet, Passed
    <3>2. GroupStage' = GroupStage
      <4>1. ~GroupInsert
        BY <3>1 DEF PlayInv, GroupInsert, InsertGroupMatch, GroupStage
      <4> QED
        BY <4>1, RowsStay, OrderlyIsByTheApp
    <3>3. \A k \in GroupStage : k \in DOMAIN matches /\ HasScore(matches, k)
      BY <2>1 DEF PlayInv, GroupStage
    <3> QED
      BY <3>2, <3>3, ScoresStay
  <2>2. CASE ~(Knockout # {} \/ scoreListener.pc \in Passed)
    <3>1. CASE AllGroupMatchesPlayed
      BY <1>1, <1>6, <2>2, <3>1 DEF AllGroupMatchesPlayed, store, Passed, Knockout, GroupStage, HasScore
    <3>2. CASE ~AllGroupMatchesPlayed
      <4>1. Knockout' = {} /\ scoreListener'.pc \notin Passed
        BY <2>2, <3>2, KnockoutBegins DEF OrderlyCup
      <4> QED
        BY <1>6, <4>1
    <3> QED
      BY <3>1, <3>2
  <2> QED
    BY <2>1, <2>2
<1> QED
  BY <1>2, <1>3, <1>5, <1>6 DEF PlayInv

LEMMA PlayAlways ==
  ASSUME OrderlyCup
  PROVE  Spec => [](TypeInv /\ OrderInv /\ PlayInv)
<1>1. Init => TypeInv /\ OrderInv /\ PlayInv
  BY InitTypes, OrderInit, PlayInit DEF OrderlyCup
<1>2. (TypeInv /\ OrderInv /\ PlayInv) /\ [Next]_vars => (TypeInv /\ OrderInv /\ PlayInv)'
  BY TypeStep, OrderStep, PlayStep, OrderlyIsByTheApp
<1> QED
  BY <1>1, <1>2, PTL DEF Spec

\* No knockout match exists while a stored match of the group stage is open,
\* with any number of lost events, failed calls and crashes.
THEOREM KnockoutWaits ==
  ASSUME OrderlyCup
  PROVE  Spec => []KnockoutAfterStoredStage
<1>1. PlayInv => KnockoutAfterStoredStage
  BY DEF PlayInv, KnockoutAfterStoredStage
<1> QED
  BY <1>1, PlayAlways, PTL
---------------------------------------------------------------------------
\* What is proposed stays right until it is inserted

NoKnockoutByHand == \A k \in ManualMatches : k.round = "group"

StartsBeforeKnockout == \A s \in Starts : \A k \in DOMAIN s.matches : k.round = "group"

\* The knockout fixtures the listener has listed and not inserted yet.
Todo == IF scoreListener.pc = "inserting" THEN ToSet(scoreListener.todo) ELSE {}

LEMMA TodoType == ASSUME TypeInv PROVE Todo \subseteq KnockoutKey
<1>1. CASE scoreListener.pc = "inserting"
  <2>1. scoreListener.todo \in Seq(KnockoutKey)
    BY <1>1 DEF TypeInv, ScoreListenerOK
  <2> QED
    BY <2>1, LenProperties, ElementOfSeq DEF Todo, ToSet
<1> QED
  BY <1>1 DEF Todo

\* The list is made from the matches as they are, and then only gets shorter.
LEMMA TodoComes ==
  ASSUME TypeInv, [Next]_vars
  PROVE  \/ Todo' \subseteq Todo
         \/ /\ Todo' \subseteq ToSet(CreatePlayoffMatches(matches, Draw))
            /\ Seeded(Draw) /\ UNCHANGED matches
<1>1. /\ MatchTable(matches) /\ Idle.pc = "idle" /\ scoreListener \in ListenerState
  BY DEF TypeInv, TablesOK, ScoreListenerOK, Idle
<1>2. CASE UNCHANGED scoreListener
  BY <1>2 DEF Todo
<1>3. CASE scoreListener' = Idle
  BY <1>1, <1>3 DEF Todo
<1>4. CASE scoreListener.pc = "inserting" /\ scoreListener' = Advance(scoreListener)
  <2>1. /\ scoreListener.todo \in Seq(KnockoutKey) /\ scoreListener.todo # <<>>
    BY <1>4 DEF TypeInv, ScoreListenerOK
  <2>2. \/ Advance(scoreListener) = Idle
        \/ /\ Advance(scoreListener).todo = Tail(scoreListener.todo)
           /\ ToSet(Tail(scoreListener.todo)) \subseteq ToSet(scoreListener.todo)
    BY <1>1, <2>1, KeyKinds, AdvanceIs
  <2> QED
    BY <1>3, <1>4, <2>2 DEF Todo
<1>5. CASE CreateKnockoutMatches
  <2>1. scoreListener.seen = Draw
    BY <1>5 DEF TypeInv, ScoreListenerOK, CreateKnockoutMatches
  <2>2. CASE ~PlayoffError(Draw) /\ Missing(Draw) # <<>>
    <3>1. Seeded(Draw)
      BY <2>2, DrawIs DEF Seeded
    <3> DEFINE todo == Missing(Draw)
    <3>2. ToSet(todo) \subseteq ToSet(CreatePlayoffMatches(matches, Draw))
      BY <1>1, <3>1, MissingIs
    <3>3. scoreListener' = [scoreListener EXCEPT !.pc = "inserting", !.todo = todo]
      BY <1>5, <2>1, <2>2 DEF CreateKnockoutMatches, StartInserting
    <3> HIDE DEF todo
    <3>4. scoreListener'.todo = todo
      BY <1>1, <3>3 DEF ListenerState
    <3> QED
      BY <1>5, <3>1, <3>2, <3>4 DEF Todo, CreateKnockoutMatches, store
  <2>3. CASE ~(~PlayoffError(Draw) /\ Missing(Draw) # <<>>)
    BY <1>3, <1>5, <2>1, <2>3 DEF CreateKnockoutMatches, StartInserting
  <2> QED
    BY <2>2, <2>3
<1>6. CASE ReceiveScoreRecorded \/ AllGroupMatchesPlayed \/ ReadGroups
  <2>1. scoreListener'.pc # "inserting"
    BY <1>1, <1>6 DEF ReceiveScoreRecorded, AllGroupMatchesPlayed, ReadGroups, Idle, ListenerState
  <2> QED
    BY <2>1 DEF Todo
<1> QED
  BY <1>2, <1>3, <1>4, <1>5, <1>6
     DEF Next, vars, listeners, MatchStep, ConsumerStep, ConsumerNext, TeamListenerStep,
         ScoreListenerStep, ReceiveTeamAdd, IsTournamentReady, CreateGroupStageMatches,
         InsertGroupMatch, CrashReadingWinners, InsertKnockoutMatch, TeamListenerError,
         ScoreListenerError, ConsumerCrash, BrokerRestart

\* Knockout matches come from the list alone.
LEMMA KnockoutComes ==
  ASSUME NoKnockoutByHand, TypeInv, [Next]_vars
  PROVE  Knockout \subseteq Knockout' /\ Knockout' \subseteq Knockout \cup Todo
<1>1. MatchTable(matches) /\ Knockout \subseteq Knockout'
  BY RowsStay DEF TypeInv, TablesOK, Knockout
<1>2. \A k \in DOMAIN matches' :
        k \in DOMAIN matches \/ k.round \notin KnockoutRounds \/ k \in Todo
  <2>1. CASE GroupInsert
    <3>1. DOMAIN matches' = DOMAIN matches \cup {Head(teamListener.todo)}
      BY <2>1 DEF GroupInsert, InsertMatch
    <3>2. Head(teamListener.todo).round = "group"
      BY <2>1, KeyKinds, AdvanceIs DEF GroupInsert, InsertGroupMatch, TypeInv, TeamListenerOK
    <3> QED
      BY <3>1, <3>2 DEF KnockoutRounds
  <2>2. ASSUME NEW k \in DOMAIN matches, NEW s \in Scores, Score(k, s)
        PROVE  DOMAIN matches' = DOMAIN matches
    BY <1>1, <2>2, ScoredTable DEF Score
  <2>3. CASE KnockoutInsert
    <3>1. DOMAIN matches' = DOMAIN matches \cup {Head(scoreListener.todo)}
      BY <2>3 DEF KnockoutInsert, InsertMatch
    <3>2. Head(scoreListener.todo) \in Todo
      BY <2>3, KeyKinds, AdvanceIs
         DEF KnockoutInsert, InsertKnockoutMatch, TypeInv, ScoreListenerOK, Todo
    <3> QED
      BY <3>1, <3>2
  <2>4. ASSUME NEW k \in ManualMatches, CreateMatch(k)
        PROVE  DOMAIN matches' = DOMAIN matches \cup {k} /\ k.round \notin KnockoutRounds
    BY <2>4 DEF CreateMatch, InsertMatch, NoKnockoutByHand, KnockoutRounds
  <2> QED
    BY <2>1, <2>2, <2>3, <2>4, MatchesChange
<1>3. Knockout' \subseteq Knockout \cup Todo
  BY <1>2 DEF Knockout
<1> QED
  BY <1>1, <1>3

\* Without corrections a result is final.
LEMMA ResultsFinal ==
  ASSUME Corrections = FALSE, TypeInv, [Next]_vars, NEW k \in DOMAIN matches,
         HasScore(matches, k)
  PROVE  matches'[k] = matches[k]
<1>1. MatchTable(matches)
  BY DEF TypeInv, TablesOK
<1>2. ASSUME NEW m \in DOMAIN matches, NEW s \in Scores, Score(m, s)
      PROVE  matches'[k] = matches[k]
  <2>1. m # k
    BY <1>2 DEF Score, UpdateScore
  <2> QED
    BY <1>1, <1>2, <2>1, ScoredTable DEF Score
<1>3. ASSUME NEW m, m \notin DOMAIN matches, InsertMatch(m)
      PROVE  matches'[k] = matches[k]
  BY <1>3 DEF InsertMatch
<1> QED
  BY <1>2, <1>3, MatchesChange DEF CreateMatch, GroupInsert, KnockoutInsert
---------------------------------------------------------------------------
\* The teams that meet are recorded winners

RecordedIn(r) == {matches[m].winner : m \in RoundMatches(r)}

\* The winner the strategy sees is the recorded one, and the teams of a later
\* round, stored or listed, are recorded winners of the round before.
RecordedInv ==
  /\ \A k \in Knockout : WinnerOf(matches, k) \in {NoTeam, matches[k].winner}
  /\ \A k \in Knockout \cup Todo :
       k.round \in DOMAIN Earlier => TeamsIn(k) \subseteq RecordedIn(Earlier[k.round])

LEMMA RecordedInit == ASSUME StartsBeforeKnockout, Init PROVE RecordedInv
<1>1. PICK s \in Starts : matches = s.matches
  BY DEF Init
<1>2. Knockout = {}
  BY <1>1 DEF StartsBeforeKnockout, Knockout, KnockoutRounds
<1>3. Todo = {}
  BY DEF Init, ConsumerInit, Idle, Todo
<1> QED
  BY <1>2, <1>3 DEF RecordedInv

LEMMA RecordedStep ==
  ASSUME Corrections = FALSE, NoKnockoutByHand, TypeInv, RecordedInv, [Next]_vars
  PROVE  RecordedInv'
<1>1. MatchTable(matches) /\ MatchTable(matches')
  BY TypeStep DEF TypeInv, TablesOK
<1>2. ASSUME NEW k \in Knockout'
      PROVE  WinnerOf(matches', k) \in {NoTeam, matches'[k].winner}
  <2>1. CASE k \notin DOMAIN matches \/ ~HasScore(matches, k)
    <3>1. CASE k \in DOMAIN matches' /\ matches'[k] = NoResult
      BY <3>1 DEF WinnerOf, NoResult
    <3>2. ASSUME NEW s \in Scores, k \in DOMAIN matches, Score(k, s)
          PROVE  WinnerOf(matches', k) \in {NoTeam, matches'[k].winner}
      <4>1. /\ matches'[k] = ScoredResult(k, s)
            /\ ScoredResult(k, s) = [home |-> s[1], visitor |-> s[2], winner |-> WinnerTeamId(k, s)]
        BY <1>1, <3>2, ScoredTable, ScoredResultIs DEF Score, MatchTable
      <4>2. s[1] \in Nat /\ s[2] \in Nat
        BY MatchServiceAssumption
      <4>3. WinnerTeamId(k, s) = IF s[1] > s[2] THEN k.home ELSE IF s[2] > s[1] THEN k.visitor
                                 ELSE PickDeterministicWinner(k)
        BY <4>2 DEF WinnerTeamId
      <4>4. WinnerOf(matches', k) = IF s[1] > s[2] THEN k.home ELSE IF s[1] < s[2] THEN k.visitor
                                    ELSE NoTeam
        BY <4>1, <4>2 DEF WinnerOf
      <4> QED
        BY <4>1, <4>2, <4>3, <4>4
    <3>3. ASSUME NEW m \in DOMAIN matches, NEW s \in Scores, m # k, Score(m, s)
          PROVE  k \in DOMAIN matches => matches'[k] = matches[k]
      BY <1>1, <3>3, ScoredTable DEF Score
    <3>4. ASSUME NEW m, m \notin DOMAIN matches, InsertMatch(m)
          PROVE  /\ k \in DOMAIN matches => matches'[k] = matches[k]
                 /\ k \notin DOMAIN matches => matches'[k] = NoResult
      BY <3>4 DEF InsertMatch, Knockout
    <3>5. k \in DOMAIN matches'
      BY DEF Knockout
    <3>6. ASSUME NEW m \in DOMAIN matches, NEW s \in Scores, Score(m, s)
          PROVE  k \in DOMAIN matches
      BY <1>1, <3>5, <3>6, ScoredTable DEF Score
    <3> QED
      BY <2>1, <3>1, <3>2, <3>3, <3>4, <3>5, <3>6, MatchesChange
         DEF CreateMatch, GroupInsert, KnockoutInsert, HasScore
  <2>2. CASE k \in DOMAIN matches /\ HasScore(matches, k)
    <3>1. matches'[k] = matches[k] /\ k \in Knockout
      BY <2>2, ResultsFinal DEF Knockout
    <3> QED
      BY <3>1 DEF RecordedInv, WinnerOf
  <2> QED
    BY <2>1, <2>2
\* A recorded winner stays recorded.
<1>3. ASSUME NEW r PROVE RecordedIn(r) \ {NoTeam} \subseteq RecordedIn(r)'
  <2> SUFFICES ASSUME NEW m \in RoundMatches(r), matches[m].winner # NoTeam
               PROVE  m \in RoundMatches(r)' /\ matches'[m].winner = matches[m].winner
    BY DEF RecordedIn
  <2>1. m \in DOMAIN matches /\ HasScore(matches, m)
    BY DEF RoundMatches, HasScore, NoResult
  <2> QED
    BY <2>1, RowsStay, ResultsFinal DEF RoundMatches
<1>4. ASSUME NEW k \in MatchKey, NEW r, TeamsIn(k) \subseteq RecordedIn(r)
      PROVE  TeamsIn(k) \subseteq RecordedIn(r)'
  <2>1. NoTeam \notin TeamsIn(k)
    BY TeamAssumption DEF TeamsIn, MatchKey, NoTeam
  <2> QED
    BY <1>3, <1>4, <2>1
\* A new proposal rests on winners the strategy saw, which are recorded.
<1>5. ASSUME Seeded(Draw), NEW k \in ToSet(CreatePlayoffMatches(matches, Draw)),
             k.round \in DOMAIN Earlier
      PROVE  TeamsIn(k) \subseteq RecordedIn(Earlier[k.round])
  <2>1. k \in MatchKey
    BY <1>1, <1>5, ProposalsAreBracket, KeyKinds
  <2>2. NoTeam \notin TeamsIn(k)
    BY <2>1, TeamAssumption DEF TeamsIn, MatchKey, NoTeam
  <2>3. TeamsIn(k) \subseteq {WinnerOf(matches, m) : m \in RoundMatches(Earlier[k.round])}
    BY <1>1, <1>5, ProposedHaveWon DEF RoundMatches
  <2>4. Earlier[k.round] \in KnockoutRounds
    BY <1>5 DEF Earlier, KnockoutRounds, Rounds
  <2>5. \A m \in RoundMatches(Earlier[k.round]) : WinnerOf(matches, m) \in {NoTeam, matches[m].winner}
    BY <2>4 DEF RecordedInv, Knockout, RoundMatches
  <2> QED
    BY <2>2, <2>3, <2>5 DEF RecordedIn
<1>6. Knockout \cup Todo \subseteq MatchKey
  BY <1>1, TodoType, KeyKinds DEF Knockout, MatchTable
<1>7. ASSUME NEW k \in Knockout' \cup Todo', k.round \in DOMAIN Earlier
      PROVE  TeamsIn(k) \subseteq RecordedIn(Earlier[k.round])'
  <2>1. CASE k \in Knockout \cup Todo
    BY <1>4, <1>6, <1>7, <2>1 DEF RecordedInv
  <2>2. CASE k \notin Knockout \cup Todo
    <3>1. Seeded(Draw) /\ k \in ToSet(CreatePlayoffMatches(matches, Draw))
      BY <2>2, KnockoutComes, TodoComes
    <3>2. k \in MatchKey
      BY <1>1, <3>1, ProposalsAreBracket, KeyKinds
    <3> QED
      BY <1>4, <1>5, <1>7, <3>1, <3>2
  <2> QED
    BY <2>1, <2>2
<1> QED
  BY <1>2, <1>7 DEF RecordedInv

\* The teams of a later round are recorded winners of the one before: nobody
\* advances whom the API does not show as the winner, in whatever order scores,
\* snapshots, inserts and faults follow each other.
THEOREM WinnersAdvance ==
  ASSUME Corrections = FALSE, NoKnockoutByHand, StartsBeforeKnockout
  PROVE  Spec => []RecordedWinnersAdvance
<1>1. Init => TypeInv /\ RecordedInv
  BY InitTypes, RecordedInit
<1>2. (TypeInv /\ RecordedInv) /\ [Next]_vars => (TypeInv /\ RecordedInv)'
  BY TypeStep, RecordedStep
<1>3. RecordedInv => RecordedWinnersAdvance
  <2> SUFFICES ASSUME RecordedInv, NEW r \in DOMAIN Successor, NEW k \in RoundMatches(Successor[r])
               PROVE  {k.home, k.visitor} \subseteq {matches[m].winner : m \in RoundMatches(r)}
    BY DEF RecordedWinnersAdvance
  <2>1. k.round \in DOMAIN Earlier /\ Earlier[k.round] = r /\ k \in Knockout
    BY DEF Successor, Earlier, RoundMatches, Knockout, KnockoutRounds, Rounds
  <2> QED
    BY <2>1 DEF RecordedInv, RecordedIn, TeamsIn
<1> QED
  BY <1>1, <1>2, <1>3, PTL DEF Spec

---------------------------------------------------------------------------
\* No team is drawn twice

\* The conditions under which a result is final: no correction takes it back.
FinalResults == OrderlyCup /\ Corrections = FALSE

\* Every stored or listed knockout match is one that the strategy would still
\* propose from the matches as they are now.
BracketInv ==
  Knockout \cup Todo # {} =>
    /\ Seeded(Draw)
    /\ Knockout \cup Todo \subseteq ToSet(CreatePlayoffMatches(matches, Draw))

LEMMA OrderlyStarts ==
  ASSUME OrderlyCup
  PROVE  NoKnockoutByHand /\ StartsBeforeKnockout /\ NoGroupMatchByHand
  BY DEF OrderlyCup, FreshStarts, NoKnockoutByHand, StartsBeforeKnockout, NoGroupMatchByHand

LEMMA BracketInit == ASSUME OrderlyCup, Init PROVE BracketInv
<1>1. PICK s \in Starts : matches = s.matches
  BY DEF Init
<1>2. Knockout = {}
  BY <1>1, OrderlyStarts DEF StartsBeforeKnockout, Knockout, KnockoutRounds
<1>3. Todo = {}
  BY DEF Init, ConsumerInit, Idle, Todo
<1> QED
  BY <1>2, <1>3 DEF BracketInv

\* While there is a proposal the table changes as the standings allow.
LEMMA TableSettled ==
  ASSUME FinalResults, TypeInv, PlayInv, [Next]_vars, Knockout \cup Todo # {}
  PROVE  Settled(matches, matches')
<1>1. \A k \in GroupStage : HasScore(matches, k)
  BY DEF PlayInv, Passed, Todo
<1>2. ASSUME NEW k \in DOMAIN matches
      PROVE  k \in DOMAIN matches' /\ (HasScore(matches, k) => matches'[k] = matches[k])
  BY RowsStay, ResultsFinal DEF FinalResults
<1>3. ~Quiet
  BY DEF Quiet, Todo, Idle
<1>4. ~GroupInsert
  BY <1>3 DEF PlayInv, GroupInsert, InsertGroupMatch, GroupStage
<1>5. GroupStage' = GroupStage
  BY <1>4, RowsStay, OrderlyStarts DEF FinalResults
<1>6. \A k \in DOMAIN matches' : k.round = "group" => k \in GroupStage
  BY <1>5 DEF GroupStage
<1> QED
  BY <1>1, <1>2, <1>6 DEF Settled, GroupStage

LEMMA BracketStep ==
  ASSUME FinalResults, TypeInv, PlayInv, BracketInv, [Next]_vars
  PROVE  BracketInv'
<1>1. MatchTable(matches) /\ MatchTable(matches')
  BY TypeStep DEF TypeInv, TablesOK
<1>2. NoKnockoutByHand
  BY OrderlyStarts DEF FinalResults
<1>3. CASE Knockout \cup Todo # {}
  <2>1. Seeded(Draw) /\ Knockout \cup Todo \subseteq ToSet(CreatePlayoffMatches(matches, Draw))
    BY <1>3 DEF BracketInv
  <2>2. ToSet(CreatePlayoffMatches(matches, Draw)) \subseteq ToSet(CreatePlayoffMatches(matches', Draw))
    BY <1>1, <1>3, <2>1, TableSettled, ProposalsStay
  <2>3. Knockout' \cup Todo' \subseteq ToSet(CreatePlayoffMatches(matches, Draw))
    BY <1>2, <2>1, KnockoutComes, TodoComes
  <2> QED
    BY <2>1, <2>2, <2>3 DEF BracketInv
<1>4. CASE Knockout \cup Todo = {}
  <2>1. Knockout' = {}
    BY <1>2, <1>4, KnockoutComes
  <2>2. \/ Todo' = {}
        \/ Todo' \subseteq ToSet(CreatePlayoffMatches(matches, Draw)) /\ Seeded(Draw) /\ UNCHANGED matches
    BY <1>4, TodoComes
  <2> QED
    BY <2>1, <2>2 DEF BracketInv
<1> QED
  BY <1>3, <1>4

LEMMA BracketAlways ==
  ASSUME FinalResults
  PROVE  Spec => [](TypeInv /\ OrderInv /\ PlayInv /\ BracketInv)
<1>1. Init => TypeInv /\ OrderInv /\ PlayInv /\ BracketInv
  BY InitTypes, OrderInit, PlayInit, BracketInit DEF FinalResults, OrderlyCup
<1>2. (TypeInv /\ OrderInv /\ PlayInv /\ BracketInv) /\ [Next]_vars
        => (TypeInv /\ OrderInv /\ PlayInv /\ BracketInv)'
  BY TypeStep, OrderStep, PlayStep, OrderlyIsByTheApp, BracketStep DEF FinalResults
<1> QED
  BY <1>1, <1>2, PTL DEF Spec

\* Single elimination: whatever the results, the faults and the order of the
\* steps, no team is in two matches of a knockout round.
THEOREM SingleElimination ==
  ASSUME FinalResults, Disjoint(Draw)
  PROVE  Spec => []OneMatchPerRound
<1>1. TypeInv /\ BracketInv => OneMatchPerRound
  <2> SUFFICES ASSUME TypeInv, BracketInv, NEW k \in Knockout, NEW m \in Knockout,
                      k.round = m.round, {k.home, k.visitor} \cap {m.home, m.visitor} # {}
               PROVE  k = m
    BY DEF OneMatchPerRound
  <2>1. Seeded(Draw) /\ Knockout \subseteq ToSet(CreatePlayoffMatches(matches, Draw))
    BY DEF BracketInv
  <2>2. MatchTable(matches)
    BY DEF TypeInv, TablesOK
  <2> QED
    BY <2>1, <2>2, ProposalsOneMatchEach DEF TeamsIn
<1> QED
  BY <1>1, BracketAlways, PTL
---------------------------------------------------------------------------
\* Seen through the matches table the system is the knockout cup

\* KnockoutCup has its own copies of the strategy's operators; they are the
\* same, one after the other.
LEMMA CupToSet ==
  ASSUME NEW s
  PROVE  Cup!ToSet(s) = ToSet(s)
  BY DEF Cup!ToSet, ToSet

LEMMA CupEasy ==
  /\ Cup!KnockoutRounds = KnockoutRounds /\ Cup!NoResult = NoResult
  /\ Cup!Result = Result /\ Cup!NoTeam = NoTeam
  /\ \A r, h, v : Cup!Fixture(r, h, v) = Fixture(r, h, v)
  BY DEF Cup!KnockoutRounds, KnockoutRounds, Cup!Rounds, Rounds, Cup!NoResult, NoResult,
         Cup!NoTeam, NoTeam, Cup!Result, Result, Cup!Fixture, Fixture

LEMMA CupWinner ==
  ASSUME NEW ms, NEW k
  PROVE  Cup!WinnerOf(ms, k) = WinnerOf(ms, k) /\ (Cup!HasScore(ms, k) <=> HasScore(ms, k))
  BY CupEasy DEF Cup!WinnerOf, WinnerOf, Cup!HasScore, HasScore

LEMMA CupFlat ==
  ASSUME NEW s
  PROVE  Cup!FlattenSeq(s) = FlattenSeq(s)
  BY DEF Cup!FlattenSeq, FlattenSeq

LEMMA CupLeader ==
  ASSUME NEW r
  PROVE  Cup!Leader(r) = Leader(r)
  BY DEF Cup!Leader, Leader, Cup!Better, Better, Cup!GoalDifference, GoalDifference

LEMMA CupCard ==
  ASSUME NEW S
  PROVE  Cup!Cardinality(S) = Cardinality(S)
  BY DEF Cup!Cardinality, Cardinality

LEMMA CupRow ==
  ASSUME NEW ms, NEW played, NEW t
  PROVE  Cup!TableRow(ms, played, t) = TableRow(ms, played, t)
<1> DEFINE own     == {k \in played : t \in {k.home, k.visitor}}
           won     == {k \in own : WinnerOf(ms, k) = t}
           wonHere == {k \in own : Cup!WinnerOf(ms, k) = t}
<1>1. wonHere = won
  BY CupWinner
<1>2. Cup!Cardinality(wonHere) = Cardinality(won)
  BY <1>1, CupCard
<1>3. MapThenSumSet(LAMBDA k : GoalsOf(ms, k, t), own)
      = Cup!MapThenSumSet(LAMBDA k : Cup!GoalsOf(ms, k, t), own)
  BY DEF Cup!GoalsOf, GoalsOf, Cup!MapThenSumSet, MapThenSumSet, Cup!MapThenFoldSet, MapThenFoldSet
<1>4. MapThenSumSet(LAMBDA k : GoalsAgainst(ms, k, t), own)
      = Cup!MapThenSumSet(LAMBDA k : Cup!GoalsAgainst(ms, k, t), own)
  BY DEF Cup!GoalsAgainst, GoalsAgainst, Cup!MapThenSumSet, MapThenSumSet,
         Cup!MapThenFoldSet, MapThenFoldSet
<1> QED
  BY <1>2, <1>3, <1>4 DEF Cup!TableRow, TableRow

LEMMA CupPlayed ==
  ASSUME NEW ms, NEW gs, NEW i
  PROVE  Cup!GroupMatches(ms, gs, i) = GroupMatches(ms, gs, i)
  BY CupWinner, CupToSet DEF Cup!GroupMatches, GroupMatches, Cup!InGroup, InGroup

LEMMA CupTopTwo ==
  ASSUME NEW ms, NEW gs, NEW i
  PROVE  Cup!TopTwo(ms, gs, i) = TopTwo(ms, gs, i)
  BY CupLeader, CupRow, CupPlayed, CupToSet
  DEF Cup!TopTwo, TopTwo, Cup!TwoBest, TwoBest, Cup!Standings, Standings, Cup!Rows, Rows

LEMMA CupRobin ==
  ASSUME NEW ts
  PROVE  Cup!RoundRobin(ts) = RoundRobin(ts)
  BY CupFlat, CupEasy DEF Cup!RoundRobin, RoundRobin

LEMMA CupCreate ==
  ASSUME NEW gs
  PROVE  Cup!CreateRegularPhaseMatches(gs) = CreateRegularPhaseMatches(gs)
  BY CupFlat, CupRobin DEF Cup!CreateRegularPhaseMatches, CreateRegularPhaseMatches

\* The whole group stage is stored when the knockout opens.
StageStored == scoreListener.pc \in Passed => ToSet(Fixtures) \subseteq DOMAIN matches

LEMMA CupFixtures == Cup!GroupFixtures = ToSet(Fixtures)
  BY CupToSet, CupCreate DEF Cup!GroupFixtures, Fixtures

LEMMA CupInit ==
  ASSUME OrderlyCup, Init
  PROVE  Cup!Init
<1>1. MatchTable(matches) /\ GroupStage = DOMAIN matches
  <2>1. PICK s \in Starts : matches = s.matches
    BY DEF Init
  <2> QED
    BY <2>1, InitTypes, OrderlyStarts
       DEF TypeInv, TablesOK, StartsBeforeKnockout, GroupStage
<1>2. PICK n \in 0..Len(Fixtures) : GroupStage = First(n)
  BY OrderInit DEF OrderlyCup, OrderInv
<1>3. First(n) \subseteq ToSet(Fixtures)
  <2>1. /\ Fixtures \in Seq(KeysOf("group")) /\ Len(Fixtures) \in Nat
        /\ DOMAIN Fixtures = 1..Len(Fixtures)
        /\ \A i \in 1..Len(Fixtures) : Fixtures[i] \in KeysOf("group")
    BY FixturesType, LenProperties, ElementOfSeq
  <2>2. /\ DOMAIN SubSeq(Fixtures, 1, n) = 1..n
        /\ \A i \in 1..n : SubSeq(Fixtures, 1, n)[i] = Fixtures[i]
    BY <2>1
  <2> QED
    BY <2>1, <2>2 DEF First, ToSet
<1> QED
  BY <1>1, <1>2, <1>3, CupFixtures, CupEasy DEF Cup!Init, MatchTable

\* The next fixture of the group stage is scheduled.
LEMMA GroupInsertSchedules ==
  ASSUME TypeInv, OrderInv, GroupInsert
  PROVE  Cup!Schedule(Head(teamListener.todo)) /\ Head(teamListener.todo) \in Cup!GroupFixtures
<1> DEFINE k == Head(teamListener.todo)
<1>1. k \notin DOMAIN matches /\ InsertMatch(k) /\ teamListener.pc = "inserting"
  BY DEF GroupInsert, InsertGroupMatch
<1>2. PICK n \in 0..(Len(Fixtures) - 1) : teamListener.todo = Remaining(n)
  BY <1>1 DEF OrderInv, GroupStage
<1>3. k = Fixtures[n + 1] /\ Len(Fixtures) \in Nat
  BY <1>2, FixtureLists
<1>4. n + 1 \in DOMAIN Fixtures
  BY <1>3, FixturesType, LenProperties
<1>5. k \in Cup!GroupFixtures
  BY <1>3, <1>4, CupFixtures DEF ToSet
<1> QED
  BY <1>1, <1>5, CupEasy DEF Cup!Schedule, Cup!Enter, InsertMatch

\* A score is the result of a match that had none.
LEMMA ScorePlays ==
  ASSUME Corrections = FALSE, TypeInv, NEW k \in DOMAIN matches, NEW s \in Scores, Score(k, s)
  PROVE  Cup!Play(k)
<1>1. k \in MatchKey
  BY DEF TypeInv, TablesOK, MatchTable
<1>2. ~HasScore(matches, k) /\ matches' = [matches EXCEPT ![k] = ScoredResult(k, s)]
  BY DEF Score, UpdateScore, WriteResult
<1>3. /\ ScoredResult(k, s) = [home |-> s[1], visitor |-> s[2], winner |-> WinnerTeamId(k, s)]
      /\ WinnerTeamId(k, s) \in {k.home, k.visitor}
  BY <1>1, ScoredResultIs
<1> QED
  BY <1>2, <1>3, CupWinner DEF Cup!Play

LEMMA PairMembers ==
  ASSUME NEW a, NEW b
  PROVE  LET p == <<a, b>> IN p[1] \in ToSet(p) /\ p[2] \in ToSet(p)
<1>1. 1 \in DOMAIN <<a, b>> /\ 2 \in DOMAIN <<a, b>>
  OBVIOUS
<1> QED
  BY <1>1 DEF ToSet

LEMMA BothThrough ==
  ASSUME NEW ms, NEW gs, NEW i
  PROVE  TopTwo(ms, gs, i)[1] \in ToSet(TopTwo(ms, gs, i))
         /\ TopTwo(ms, gs, i)[2] \in ToSet(TopTwo(ms, gs, i))
  BY PairMembers DEF TopTwo, TwoBest

\* Who is proposed has earned the place: qualified, or won in the round before.
LEMMA ProposedContend ==
  ASSUME MatchTable(matches), Seeded(Draw),
         NEW k \in ToSet(CreatePlayoffMatches(matches, Draw))
  PROVE  TeamsIn(k) \subseteq Cup!Contenders(k.round)
<1>1. k \in KnockoutKey /\ k.round \in KnockoutRounds /\ k \in ToSet(Bracket(matches, Draw)[k.round])
  BY ProposalsAreBracket
<1>2. CASE k.round = "r16"
  <2>1. k \in ToSet(R16Pairs(matches, Draw))
    BY <1>1, <1>2 DEF Bracket
  <2>2. /\ R16Pairs(matches, Draw) \in Seq(KeysOf("r16"))
        /\ DOMAIN R16Pairs(matches, Draw) = 1..Len(Draw)
        /\ DOMAIN Draw = 1..Len(Draw) /\ Len(Draw) \in Nat /\ Len(Draw) % 2 = 0
    BY R16PairsAre, SeededGroups, LenProperties
  <2>3. PICK i \in 1..Len(Draw) : k = R16Pairs(matches, Draw)[i]
    BY <2>1, <2>2 DEF ToSet
  <2>4. k = Fixture("r16", TopTwo(matches, Draw, i)[1], TopTwo(matches, Draw, Rival(i))[2])
    BY <2>3, R16PairsAre
  <2>5. Rival(i) \in 1..Len(Draw)
    BY <2>2, RivalGroups
  <2>6. \A j : /\ TopTwo(matches, Draw, j)[1] \in ToSet(TopTwo(matches, Draw, j))
               /\ TopTwo(matches, Draw, j)[2] \in ToSet(TopTwo(matches, Draw, j))
    BY BothThrough
  <2>7. TeamsIn(k) \subseteq UNION {ToSet(TopTwo(matches, Draw, j)) : j \in DOMAIN Draw}
    BY <2>2, <2>4, <2>5, <2>6 DEF TeamsIn, Fixture
  <2> QED
    BY <1>2, <2>7, CupToSet, CupTopTwo DEF Cup!Contenders, Cup!Qualified
<1>3. CASE k.round # "r16"
  <2>1. k.round \in DOMAIN Earlier
    BY <1>1, <1>3 DEF Earlier, KnockoutRounds, Rounds
  <2>2. TeamsIn(k) \subseteq {WinnerOf(matches, m) : m \in Cup!InRound(Earlier[k.round])}
    BY <2>1, ProposedHaveWon DEF Cup!InRound
  <2>3. NoTeam \notin TeamsIn(k)
    BY <1>1, TeamAssumption DEF TeamsIn, KnockoutKey, NoTeam
  <2>4. TeamsIn(k) \subseteq Cup!Survivors(Earlier[k.round])
    BY <2>2, <2>3, CupWinner, CupEasy DEF Cup!Survivors
  <2>5. Cup!Contenders(k.round) = Cup!Survivors(Earlier[k.round])
    BY <2>1 DEF Earlier, Cup!Contenders
  <2> QED
    BY <2>4, <2>5
<1> QED
  BY <1>2, <1>3

\* A listed fixture is still right when it is inserted.
LEMMA KnockoutInsertPromotes ==
  ASSUME Disjoint(Draw), TypeInv, PlayInv, BracketInv, StageStored, KnockoutInsert
  PROVE  \E r \in KnockoutRounds : Cup!Promote(r)
<1> DEFINE k == Head(scoreListener.todo)
<1>1. MatchTable(matches)
  BY DEF TypeInv, TablesOK
<1>2. /\ k \notin DOMAIN matches /\ InsertMatch(k) /\ scoreListener.pc = "inserting"
      /\ k \in Todo
  BY KeyKinds, AdvanceIs
     DEF KnockoutInsert, InsertKnockoutMatch, TypeInv, ScoreListenerOK, Todo
<1>3. Cup!GroupStageOver
  BY <1>2, CupFixtures, CupWinner, FixturesAreGroup DEF StageStored, Passed, PlayInv, Cup!GroupStageOver, GroupStage
<1>4. Seeded(Draw) /\ Knockout \cup Todo \subseteq ToSet(CreatePlayoffMatches(matches, Draw))
  BY <1>2 DEF BracketInv
<1>5. k \in KnockoutKey /\ k.round \in KnockoutRounds
  BY <1>1, <1>2, <1>4, ProposalsAreBracket
<1> HIDE DEF k
<1>6. TeamsIn(k) \subseteq Cup!Contenders(k.round)
  BY <1>1, <1>2, <1>4, ProposedContend
<1>7. k.home # k.visitor
  BY <1>1, <1>2, <1>4, ProposalsOneMatchEach
<1>8. ASSUME NEW m \in Cup!InRound(k.round) PROVE TeamsIn(k) \cap TeamsIn(m) = {}
  <2>1. m \in Knockout /\ m.round = k.round /\ m # k
    BY <1>2, <1>5, <1>8 DEF Cup!InRound, Knockout
  <2> QED
    BY <1>1, <1>2, <1>4, <2>1, ProposalsOneMatchEach
<1>9. TeamsIn(k) \cap Cup!TeamsOf(Cup!InRound(k.round)) = {}
  BY <1>8 DEF Cup!TeamsOf, TeamsIn
<1>10. k = Fixture(k.round, k.home, k.visitor)
  BY <1>5 DEF KnockoutKey, Fixture
<1>11. Cup!Enter(Fixture(k.round, k.home, k.visitor))
  BY <1>2, <1>10, CupEasy DEF Cup!Enter, InsertMatch
<1> QED
  BY <1>3, <1>5, <1>6, <1>7, <1>9, <1>11, CupEasy DEF Cup!Promote, TeamsIn

LEMMA CupStep ==
  ASSUME FinalResults, Disjoint(Draw), TypeInv, OrderInv, PlayInv, BracketInv, StageStored,
         [Next]_vars
  PROVE  [Cup!Next]_matches
<1>1. CASE UNCHANGED matches
  BY <1>1
<1>2. ASSUME NEW k \in DOMAIN matches, NEW s \in Scores, Score(k, s)
      PROVE  Cup!Next
  BY <1>2, ScorePlays DEF FinalResults, Cup!Next
<1>3. CASE GroupInsert
  BY <1>3, GroupInsertSchedules DEF Cup!Next
<1>4. CASE KnockoutInsert
  BY <1>4, KnockoutInsertPromotes, CupEasy DEF Cup!Next
<1>5. ManualMatches = {}
  BY DEF FinalResults, OrderlyCup
<1> QED
  BY <1>1, <1>2, <1>3, <1>4, <1>5, MatchesChange

\* The starts have the whole group stage stored.
WholeStage == \A s \in Starts : ToSet(Fixtures) \subseteq DOMAIN s.matches

LEMMA WholeStageStays ==
  ASSUME WholeStage
  PROVE  Spec => [](ToSet(Fixtures) \subseteq DOMAIN matches)
<1> DEFINE Whole == ToSet(Fixtures) \subseteq DOMAIN matches
<1>1. Init => Whole
  BY DEF WholeStage, Init
<1>2. TypeInv /\ Whole /\ [Next]_vars => Whole'
  <2> SUFFICES ASSUME TypeInv, Whole, [Next]_vars PROVE Whole'
    OBVIOUS
  <2>1. DOMAIN matches \subseteq DOMAIN matches'
    BY RowsStay
  <2> QED
    BY <2>1
<1> QED
  BY <1>1, <1>2, TypeAlways, PTL DEF Spec

\* Whatever was proposed from a snapshot is still right when it is inserted:
\* every step that changes the matches table is a step of the cup, and every
\* other step leaves the cup as it is.
THEOREM CupRefined ==
  ASSUME FinalResults, Disjoint(Draw), WholeStage
  PROVE  Spec => RefinesCup
<1>1. Init => Cup!Init
  BY CupInit DEF FinalResults
<1>2. TypeInv /\ OrderInv /\ PlayInv /\ BracketInv /\ ToSet(Fixtures) \subseteq DOMAIN matches
      /\ [Next]_vars => [Cup!Next]_matches
  BY CupStep DEF StageStored
<1> QED
  BY <1>1, <1>2, BracketAlways, WholeStageStays, PTL DEF Spec, RefinesCup, Cup!Spec
===============================================================================
