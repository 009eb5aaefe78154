----------------------------- MODULE MCGiftSend -----------------------------
(***************************************************************************)
(* An instance of GiftSend for TLC.                                        *)
(***************************************************************************)
EXTENDS GiftSend, TLC

Symmetry == Permutations(Sends) \cup Permutations(Updates) \cup Permutations(Keys)
=============================================================================
