-------------------------------- MODULE Faults --------------------------------
(***************************************************************************)
(* What the environment does to the processes that work on matches: the    *)
(* broker refuses or forgets a message, a repository call throws, a        *)
(* process is killed.  Every such event counts as one fault, and MaxFaults *)
(* bounds them.                                                            *)
(***************************************************************************)
EXTENDS TournamentStore

CONSTANT MaxFaults   \* bound on faults

ASSUME FaultsAssumption == MaxFaults \in Nat

VARIABLE faults      \* faults so far

Fault == faults < MaxFaults /\ faults' = faults + 1

\* From here on nothing fails any more.
FaultsOver == faults = MaxFaults

\* match.score-recorded is sent NON_PERSISTENT.
BrokerRestart ==
  /\ Fault
  /\ scoreEvents > 0
  /\ scoreEvents' = 0
  /\ UNCHANGED <<groups, heap, matches, teamEvents>>
==============================================================================
