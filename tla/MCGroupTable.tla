----------------------------- MODULE MCGroupTable -----------------------------
\* Two groups of three, and a match between them made by hand.
EXTENDS GroupTable

MCTeam == 1..6
\* Teams 2 and 3 share a name.
MCNameOf == [t \in MCTeam |-> IF t = 3 THEN 2 ELSE t]
MCGroups == <<<<2, 3, 1>>, <<5, 6, 4>>>>
MCCrossGroup == {Fixture("group", 1, 5)}
MCTieToVisitor == {Fixture("group", 2, 3), Fixture("group", 1, 5)}
\* Of the last three the first is out of range, and the others become <<1, 0>>
\* and a negative number in an int of 64 values.
MCGoals == {<<1, 0>>, <<0, 3>>, <<1, 1>>, <<0, 11>>, <<65, 0>>, <<0, 63>>}
==============================================================================
