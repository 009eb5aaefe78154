----------------------------- MODULE MCChatSend -----------------------------
(***************************************************************************)
(* Instances of ChatSend for TLC.                                           *)
(***************************************************************************)
EXTENDS ChatSend, TLC

CONSTANTS ann, bea

\* ann, a user, can pay for one or two messages; bea is a host.
MCCoins == {(ann :> n) @@ (bea :> 0) : n \in {1, 2}}

Symmetry == Permutations(Sends)
=============================================================================
