------------------------------- MODULE MCGroups -------------------------------
(***************************************************************************)
(* Two groups of capacity two and three or four teams: enough for a full   *)
(* group, a team wanted by both groups, and a batch that fails half-way.   *)
(***************************************************************************)
EXTENDS GroupSystem

CONSTANTS w1, w2

MCTeam == 1..4
MCNameOf == [t \in MCTeam |-> t]
MCRegistered == 1..3
MCGroupId == 1..2
MCInitialHeap == <<1, 2>>
MCOneGroup == <<1>>
MCPayloads == {<<>>, <<1>>, <<1, 2>>, <<3, 4>>}
MCPair == {<<1, 2>>}
MCAddOps == {"add", "create", "remove"}
MCAllOps == OpNames
==============================================================================
