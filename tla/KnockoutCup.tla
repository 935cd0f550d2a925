----------------------------- MODULE KnockoutCup -----------------------------
(***************************************************************************)
(* What a tournament promises, without queues, threads or snapshots: a     *)
(* round robin in every group, then single elimination among the two best  *)
(* of each group.  A fixture enters a knockout round in one step, and only *)
(* if both its teams have earned the place at that very moment and neither *)
(* is in the round already.                                                *)
(***************************************************************************)
EXTENDS WorldCupStrategy

CONSTANTS Draw,     \* the groups of the tournament, in order
          Scores    \* the <<home, visitor>> goals a match may end with

VARIABLE matches

GroupFixtures == ToSet(CreateRegularPhaseMatches(Draw))

InRound(r) == {k \in DOMAIN matches : k.round = r}
TeamsOf(ks) == UNION {{k.home, k.visitor} : k \in ks}

\* Every fixture of every group is on the table and has been played.
GroupStageOver ==
  \A k \in GroupFixtures : k \in DOMAIN matches /\ HasScore(matches, k)

Qualified == UNION {ToSet(TopTwo(matches, Draw, i)) : i \in DOMAIN Draw}

Survivors(r) == {WinnerOf(matches, k) : k \in InRound(r)} \ {NoTeam}

\* Who may be drawn into a round.
Contenders(r) ==
  CASE r = "r16"   -> Qualified
    [] r = "qf"    -> Survivors("r16")
    [] r = "sf"    -> Survivors("qf")
    [] r = "final" -> Survivors("sf")

Enter(k) ==
  matches' = [x \in DOMAIN matches \cup {k} |-> IF x = k THEN NoResult ELSE matches[x]]

Schedule(k) == k \in GroupFixtures \ DOMAIN matches /\ Enter(k)

Promote(r) ==
  /\ GroupStageOver
  /\ LET free == Contenders(r) \ TeamsOf(InRound(r))
     IN  \E h, v \in free : h # v /\ Enter(Fixture(r, h, v))

\* A result is final.
Play(k) ==
  /\ ~HasScore(matches, k)
  /\ \E s \in Scores, w \in {k.home, k.visitor} :
       matches' = [matches EXCEPT ![k] = [home |-> s[1], visitor |-> s[2], winner |-> w]]

Init == /\ DOMAIN matches \subseteq GroupFixtures
        /\ \A k \in DOMAIN matches : matches[k] \in Result

Next == \/ \E k \in GroupFixtures : Schedule(k)
        \/ \E r \in KnockoutRounds : Promote(r)
        \/ \E k \in DOMAIN matches : Play(k)

Spec == Init /\ [][Next]_matches
==============================================================================
