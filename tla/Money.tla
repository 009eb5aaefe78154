------------------------------- MODULE Money --------------------------------
(***************************************************************************)
(* The arithmetic of WalletService: balances, the calls that change them,   *)
(* and what each call does to a row (src/src/modules/wallet).  A balance is *)
(* the four counters of a wallets row; a change adds to each of them.       *)
(***************************************************************************)
EXTENDS Integers

CONSTANTS
  Users,         \* owners of wallet rows
  Keys,          \* idempotency keys clients send
  NoKey,         \* the key of a call that carries none
  CoinRatio,     \* COIN_TO_DIAMOND_RATIO <<p, q>>: p diamonds for q coins
  DiamondRatio   \* DIAMOND_TO_COIN_RATIO <<p, q>>: p coins for q diamonds

Fields == {"giftCoins", "gameCoins", "diamonds", "promoDiamonds"}
Balance == [Fields -> Nat]
Change  == [Fields -> Int]

\* One type for every method that opens a transaction on a wallet row.
CallTypes == {"CHAT_PAYMENT", "RECHARGE", "COIN_TO_DIAMOND", "DIAMOND_TO_COIN",
              "WITHDRAWAL", "REFUND", "DAILY_BONUS", "REFERRAL_REWARD"}

Call == [type: CallTypes, user: Users, to: Users, coins: Nat, diamonds: Nat,
         coinField: {"giftCoins", "gameCoins"}, promo: BOOLEAN,
         key: Keys \cup {NoKey}]

ASSUME KeysAssumption == NoKey \notin Keys
ASSUME RatioAssumption ==
  /\ CoinRatio \in Nat \X (Nat \ {0})
  /\ DiamondRatio \in Nat \X (Nat \ {0})

Zero == [f \in Fields |-> 0]
NoChange == [u \in Users |-> Zero]
Plus(w, d) == [f \in Fields |-> w[f] + d[f]]
Of(f, n) == [g \in Fields |-> IF g = f THEN n ELSE 0]

TotalCoins(w) == w.giftCoins + w.gameCoins
CoinsToDiamonds(n) == (n * CoinRatio[1]) \div CoinRatio[2]
DiamondsToCoins(n) == (n * DiamondRatio[1]) \div DiamondRatio[2]

\* Game coins are used up before gift coins are touched.
Spend(w, n) ==
  LET game == IF w.gameCoins >= n THEN n ELSE w.gameCoins
  IN  Plus(Of("gameCoins", -game), Of("giftCoins", game - n))

\* What each method does to its user's row, read under the lock as w.
ProcessChatPayment(c, w) == Spend(w, c.coins)
ConvertCoinsToDiamonds(c, w) ==
  Plus(Spend(w, c.coins), Of("diamonds", CoinsToDiamonds(c.coins)))
ConvertDiamondsToCoins(c) ==
  Plus(Of("diamonds", -c.diamonds), Of("gameCoins", DiamondsToCoins(c.diamonds)))
DeductDiamondsForWithdrawal(c) == Of("diamonds", -c.diamonds)
RefundWithdrawalDiamonds(c) == Of("diamonds", c.diamonds)
Recharge(c) == Of(c.coinField, c.coins)
AwardBonus(c) == Of("giftCoins", c.coins)

UserChange(c, w) ==
  CASE c.type = "CHAT_PAYMENT"    -> ProcessChatPayment(c, w)
    [] c.type = "COIN_TO_DIAMOND" -> ConvertCoinsToDiamonds(c, w)
    [] c.type = "DIAMOND_TO_COIN" -> ConvertDiamondsToCoins(c)
    [] c.type = "WITHDRAWAL"      -> DeductDiamondsForWithdrawal(c)
    [] c.type = "REFUND"          -> RefundWithdrawalDiamonds(c)
    [] c.type = "RECHARGE"        -> Recharge(c)
    [] OTHER                      -> AwardBonus(c)

ReceiverChange(c) == Of(IF c.promo THEN "promoDiamonds" ELSE "diamonds", c.diamonds)

Affordable(c, w) ==
  /\ c.type \in {"CHAT_PAYMENT", "COIN_TO_DIAMOND"} => TotalCoins(w) >= c.coins
  /\ c.type \in {"DIAMOND_TO_COIN", "WITHDRAWAL"} => w.diamonds >= c.diamonds

\* The early returns before the idempotency guard.
Valid(c) ==
  /\ c.type = "CHAT_PAYMENT" => c.user # c.to
  /\ c.type \in {"CHAT_PAYMENT", "RECHARGE", "COIN_TO_DIAMOND"} => c.coins > 0
  /\ c.type \in {"DIAMOND_TO_COIN", "WITHDRAWAL"} => c.diamonds > 0

\* The check convertDiamondsToCoins makes after it.
Convertible(c) == c.type = "DIAMOND_TO_COIN" => DiamondsToCoins(c.diamonds) > 0

\* recharge and the two bonuses run at the default READ COMMITTED level.
Serializable(c) == c.type \notin {"RECHARGE", "DAILY_BONUS", "REFERRAL_REWARD"}
CreatesWallet(c) == c.type = "REFERRAL_REWARD"
LogsFailure(c) == c.type \notin {"REFUND", "DAILY_BONUS", "REFERRAL_REWARD"}

\* Everything a call adds to row u besides agency commission, w being the row
\* of the call's own user before the call.
BaseChange(c, w, u) ==
  Plus(IF u = c.user THEN UserChange(c, w) ELSE Zero,
       IF u = c.to /\ c.type = "CHAT_PAYMENT" THEN ReceiverChange(c) ELSE Zero)
=============================================================================
