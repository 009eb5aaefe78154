---------------------------- MODULE MCHostReward ----------------------------
(***************************************************************************)
(* An instance of HostReward for TLC.                                      *)
(***************************************************************************)
EXTENDS HostReward, TLC

CONSTANT ann

\* Two tiers; one unit is 40,000 diamonds of income.
MCTiers == <<[target |-> 1, bonus |-> 10], [target |-> 2, bonus |-> 20]>>

\* One tag asks for hours, the other does not.
MCStarTiers == <<[target |-> 1, hours |-> 2], [target |-> 2, hours |-> 0]>>

Symmetry == Permutations(Calls)
=============================================================================
