------------------------------ MODULE MCWallet ------------------------------
(***************************************************************************)
(* Instances of Wallet for TLC, and the property of its fair runs.           *)
(***************************************************************************)
EXTENDS Wallet, TLC

CONSTANTS ann, bea, own,   \* a paying user, a host, the owner of the host's agency
          k1, k2           \* idempotency keys

Opening(giftCoins, gameCoins, diamonds) ==
  [giftCoins |-> giftCoins, gameCoins |-> gameCoins,
   diamonds |-> diamonds, promoDiamonds |-> 0]

MCBalance == (ann :> Opening(2, 1, 0)) @@ (bea :> Opening(1, 1, 2)) @@ (own :> Opening(0, 0, 0))
MCUpline  == (ann :> <<>>) @@ (bea :> <<[owner |-> own, percent |-> 50]>>) @@ (own :> <<>>)
MCHasWallet == {ann, bea}
MCRatio == <<1, 2>>
MCPar == <<1, 1>>

Make(type, user, to, coins, diamonds, key) ==
  [type |-> type, user |-> user, to |-> to, coins |-> coins, diamonds |-> diamonds,
   coinField |-> "gameCoins", promo |-> FALSE, key |-> key]

\* Two payments compete for ann's three coins, one of them sent twice with the
\* same key; a recharge, a withdrawal and conversions touch the same rows.
PayTwo    == Make("CHAT_PAYMENT", ann, bea, 2, 2, k1)
PayThree  == [Make("CHAT_PAYMENT", ann, bea, 3, 2, NoKey) EXCEPT !.promo = TRUE]
PayAll    == Make("CHAT_PAYMENT", ann, bea, 3, 3, k1)
PaySelf   == Make("CHAT_PAYMENT", ann, ann, 1, 1, NoKey)
PayBack   == Make("CHAT_PAYMENT", bea, ann, 1, 1, NoKey)
TopUp     == Make("RECHARGE", ann, ann, 1, 0, k2)
CashIn    == Make("COIN_TO_DIAMOND", bea, bea, 2, 0, NoKey)
CashOut   == Make("DIAMOND_TO_COIN", bea, bea, 0, 2, k2)
CashCrumb == Make("DIAMOND_TO_COIN", bea, bea, 0, 1, NoKey)
Withdraw  == Make("WITHDRAWAL", bea, bea, 0, 2, NoKey)
Refund    == Make("REFUND", bea, bea, 0, 2, NoKey)
Bonus     == Make("DAILY_BONUS", ann, ann, 1, 0, NoKey)
Invite    == Make("REFERRAL_REWARD", own, own, 1, 0, NoKey)

AllCalls        == {PayTwo, PayThree, PaySelf, PayBack, TopUp, CashIn, CashOut,
                    CashCrumb, Withdraw, Refund, Bonus, Invite}
CrossCalls      == {PayAll, PayBack}

\* Every request is answered: lock waits, deadlocks and waits for a key end.
EveryRequestEnds == \A r \in Requests : <>(pc[r] \in EndStates)

Symmetry == Permutations(Requests)
=============================================================================
