---------------------------- MODULE MCWithdrawal ----------------------------
(***************************************************************************)
(* Instances of Withdrawal for TLC, and what the comments and the README    *)
(* say of it beyond the properties that hold.                               *)
(***************************************************************************)
EXTENDS Withdrawal, TLC

CONSTANTS h1, h2

\* h1 can afford one withdrawal of two or three, h2 nothing.
MCOpening == (h1 :> 3) @@ (h2 :> 0)
MCAmounts == {1, 2, 3}

\* README.md 48: "Diamonds are deducted immediately on withdrawal request
\* creation and refunded atomically on rejection."  One rejection, one refund,
\* also when the method is cut off and the admin tries again.
RefundedOnce == \A a \in Attempts : refunds[a] <= 1

Symmetry == Permutations(Attempts) \cup Permutations(Decisions)
=============================================================================
