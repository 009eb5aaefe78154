----------------------------- MODULE MCReferral -----------------------------
(***************************************************************************)
(* An instance of Referral for TLC.                                         *)
(***************************************************************************)
EXTENDS Referral, TLC

Symmetry == Permutations(Users) \cup Permutations(Calls)
=============================================================================
