------------------------------ MODULE MCAgency ------------------------------
(***************************************************************************)
(* An instance of AgencyMembership for TLC: three agencies under each       *)
(* other, a host who may make a fourth, the rates of AGENCY_TIERS with      *)
(* small minimums.                                                          *)
(***************************************************************************)
EXTENDS AgencyMembership, TLC

CONSTANTS a1, a2, a3, h1

\* D, C and B with minimums of 0, 50 and 100 diamonds.
SmallTiers == <<[min |-> 0, rate |-> 4], [min |-> 50, rate |-> 8], [min |-> 100, rate |-> 12]>>

Chain == {(a1 :> None) @@ (a2 :> a1) @@ (a3 :> a2)}

Symmetry == Permutations(Calls) \cup Permutations(Gifts)
=============================================================================
