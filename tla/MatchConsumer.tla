---------------------------- MODULE MatchConsumer ----------------------------
(***************************************************************************)
(* The tournament_consumer process: one listener thread per queue, both    *)
(* calling the same MatchDelegate, which keeps no state of its own.        *)
(* Every repository call is a step, because the other thread and the API   *)
(* run between two of them.                                                *)
(*                                                                         *)
(* teamListener serves tournament.team-add: it looks whether all groups    *)
(* are full, reads them again and inserts the group-stage fixtures.        *)
(* scoreListener serves match.score-recorded: it looks whether every       *)
(* stored group match is scored, reads groups and then matches, and        *)
(* inserts the knockout fixtures that are missing.                         *)
(***************************************************************************)
EXTENDS Faults

VARIABLES teamListener, scoreListener

listeners == <<teamListener, scoreListener>>

Idle == [pc |-> "idle", seen |-> <<>>, todo |-> <<>>]

ListenerState ==
  [pc   : {"idle", "checking", "reading", "composing", "inserting"},
   seen : Seq(Seq(Team)),       \* the groups as this event's handler read them
   todo : Seq(MatchKey)]        \* the fixtures still to insert

ConsumerTypeOK ==
  /\ teamListener \in ListenerState
  /\ scoreListener \in ListenerState
  /\ faults \in 0..MaxFaults

---------------------------------------------------------------------------
\* tournament.team-add

\* AUTO_ACKNOWLEDGE: the message leaves the queue before it is processed.
ReceiveTeamAdd ==
  /\ teamListener.pc = "idle"
  /\ teamEvents # <<>>
  /\ teamEvents' = Tail(teamEvents)
  /\ teamListener' = [Idle EXCEPT !.pc = "checking"]
  /\ UNCHANGED <<groups, heap, matches, scoreEvents, scoreListener, faults>>

Ready(gs) ==
  /\ Len(gs) = NumberOfGroups
  /\ \A i \in DOMAIN gs : Len(gs[i]) = MaxTeamsPerGroup

IsTournamentReady ==
  /\ teamListener.pc = "checking"
  /\ teamListener' = IF Ready(AllGroups) THEN [teamListener EXCEPT !.pc = "reading"]
                                         ELSE Idle
  /\ UNCHANGED <<store, scoreListener, faults>>

\* The groups are read a second time, and not checked again.
CreateGroupStageMatches ==
  /\ teamListener.pc = "reading"
  /\ teamListener' =
       IF RegularPhaseError(AllGroups) THEN Idle
       ELSE [pc |-> "inserting", seen |-> AllGroups,
             todo |-> CreateRegularPhaseMatches(AllGroups)]
  /\ UNCHANGED <<store, scoreListener, faults>>

\* What is left of a listener once the head of todo has been dealt with.
Advance(l) ==
  IF Len(l.todo) = 1 THEN Idle ELSE [l EXCEPT !.todo = Tail(l.todo)]

\* A duplicate key throws out of the handler: the rest is never inserted.
InsertGroupMatch ==
  /\ teamListener.pc = "inserting"
  /\ IF Head(teamListener.todo) \in DOMAIN matches
     THEN teamListener' = Idle /\ UNCHANGED matches
     ELSE teamListener' = Advance(teamListener) /\ InsertMatch(Head(teamListener.todo))
  /\ UNCHANGED <<groups, heap, teamEvents, scoreEvents, scoreListener, faults>>

---------------------------------------------------------------------------
\* match.score-recorded

\* Mutation: a receive() that timed out is handled like a message.
ReceiveScoreRecordedOrTimeout ==
  /\ scoreListener.pc = "idle"
  /\ scoreEvents' = scoreEvents - 1
  /\ scoreListener' = [Idle EXCEPT !.pc = "checking"]
  /\ UNCHANGED <<groups, heap, matches, teamEvents, teamListener, faults>>

ReceiveScoreRecorded ==
  /\ scoreListener.pc = "idle"
  /\ scoreEvents > 0
  /\ scoreEvents' = scoreEvents - 1
  /\ scoreListener' = [Idle EXCEPT !.pc = "checking"]
  /\ UNCHANGED <<groups, heap, matches, teamEvents, teamListener, faults>>

\* Mutation: open group matches do not hold the knockout back.
AllGroupMatchesPlayedUnchecked ==
  /\ scoreListener.pc = "checking"
  /\ scoreListener' = [scoreListener EXCEPT !.pc = "reading"]
  /\ UNCHANGED <<store, teamListener, faults>>

\* Every group match stored so far has a score; none stored counts as well.
AllGroupMatchesPlayed ==
  /\ scoreListener.pc = "checking"
  /\ scoreListener' =
       IF \A k \in GroupStage : HasScore(matches, k)
       THEN [scoreListener EXCEPT !.pc = "reading"] ELSE Idle
  /\ UNCHANGED <<store, teamListener, faults>>

ReadGroups ==
  /\ scoreListener.pc = "reading"
  /\ scoreListener' = [scoreListener EXCEPT !.pc = "composing", !.seen = AllGroups]
  /\ UNCHANGED <<store, teamListener, faults>>

\* The proposals that are not stored yet, from the groups read before and the
\* matches read now.
Missing(gs) ==
  LET proposals == CreatePlayoffMatches(matches, gs)
  IN  FlattenSeq([i \in DOMAIN proposals |->
                    IF proposals[i] \in DOMAIN matches THEN <<>> ELSE <<proposals[i]>>])

StartInserting(l, fixtures) ==
  IF fixtures = <<>> THEN Idle ELSE [l EXCEPT !.pc = "inserting", !.todo = fixtures]

CreateKnockoutMatches ==
  /\ scoreListener.pc = "composing"
  /\ scoreListener' =
       IF PlayoffError(scoreListener.seen) THEN Idle
       ELSE StartInserting(scoreListener, Missing(scoreListener.seen))
  /\ UNCHANGED <<store, teamListener, faults>>

\* Too few round-of-16 winners: the read past the end takes the process down,
\* or leaves the strategy without quarter-finals (CreateKnockoutMatches).
CrashReadingWinners ==
  /\ scoreListener.pc = "composing"
  /\ ReadsPastWinners(matches, scoreListener.seen)
  /\ teamListener' = Idle
  /\ scoreListener' = Idle
  /\ UNCHANGED <<store, faults>>

\* CreateIfNotExists names columns the schema lacks and throws; Create then
\* inserts, or throws on a duplicate key.  Both are caught match by match.
InsertKnockoutMatch ==
  /\ scoreListener.pc = "inserting"
  /\ IF Head(scoreListener.todo) \in DOMAIN matches
     THEN UNCHANGED matches ELSE InsertMatch(Head(scoreListener.todo))
  /\ scoreListener' = Advance(scoreListener)
  /\ UNCHANGED <<groups, heap, teamEvents, scoreEvents, teamListener, faults>>

---------------------------------------------------------------------------
\* Faults

\* Mutation: the group-stage insertion, too, goes on with the next fixture.
TeamListenerErrorGoesOn ==
  /\ Fault
  /\ teamListener.pc # "idle"
  /\ teamListener' = IF teamListener.pc = "inserting" THEN Advance(teamListener) ELSE Idle
  /\ UNCHANGED <<store, scoreListener>>

\* A repository call throws.  The listener logs it and drops the event; the
\* knockout insertion goes on with the next fixture.
TeamListenerError ==
  /\ Fault
  /\ teamListener.pc # "idle"
  /\ teamListener' = Idle
  /\ UNCHANGED <<store, scoreListener>>

ScoreListenerError ==
  /\ Fault
  /\ scoreListener.pc # "idle"
  /\ scoreListener' = IF scoreListener.pc = "inserting" THEN Advance(scoreListener) ELSE Idle
  /\ UNCHANGED <<store, teamListener>>

\* The process is killed and started again: acknowledged messages are gone.
ConsumerCrash ==
  /\ Fault
  /\ teamListener' = Idle
  /\ scoreListener' = Idle
  /\ UNCHANGED store

ConsumerInit == teamListener = Idle /\ scoreListener = Idle /\ faults = 0

TeamListenerStep ==
  ReceiveTeamAdd \/ IsTournamentReady \/ CreateGroupStageMatches \/ InsertGroupMatch

ScoreListenerStep ==
  \/ ReceiveScoreRecorded \/ AllGroupMatchesPlayed \/ ReadGroups
  \/ CreateKnockoutMatches \/ CrashReadingWinners \/ InsertKnockoutMatch

ConsumerNext ==
  \/ TeamListenerStep \/ ScoreListenerStep
  \/ TeamListenerError \/ ScoreListenerError \/ ConsumerCrash
  \/ BrokerRestart /\ UNCHANGED listeners

TeamListenerBusy  == teamListener.pc # "idle" \/ teamEvents # <<>>
ScoreListenerBusy == scoreListener.pc # "idle" \/ scoreEvents > 0

\* Each thread loops over receive() for as long as the process lives: a thread
\* that stays busy keeps moving.  This is weak fairness of the thread's steps,
\* with the state predicate that enables them written out (a busy thread always
\* has a step, and every step changes its local state).
ConsumerFairness ==
  /\ []<>~TeamListenerBusy  \/ []<><<TeamListenerStep>>_teamListener
  /\ []<>~ScoreListenerBusy \/ []<><<ScoreListenerStep>>_scoreListener
==============================================================================
