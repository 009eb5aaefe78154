---------------------------- MODULE WalletProofs ----------------------------
(***************************************************************************)
(* Wallet for every set of users, requests and calls: type correctness, no  *)
(* overdraft, exactly-once, and that it implements the Bank.                *)
(*                                                                         *)
(* First the arithmetic of Money: the type of every change, and that an     *)
(* affordable call leaves no counter of its user's row negative.  IInv is   *)
(* the inductive invariant: what a transaction holds, what it has changed   *)
(* so far, and that the change leaves every row it holds solvent.  RInv     *)
(* adds what an open transaction has done so far: it checked the balance    *)
(* that is still there when it commits, because it holds the row.  A commit *)
(* is a Post of the Bank, and every other step leaves the Bank alone.       *)
(***************************************************************************)
EXTENDS Wallet, SumProofs, TLAPS

-----------------------------------------------------------------------------
(* The arithmetic of Money *)

LEMMA FieldsList ==
  /\ Fields = {"giftCoins", "gameCoins", "diamonds", "promoDiamonds"}
  /\ "giftCoins" \in Fields /\ "gameCoins" \in Fields
  /\ "diamonds" \in Fields /\ "promoDiamonds" \in Fields
BY DEF Fields

\* Adding two changes adds them counter by counter.
LEMMA PlusFact ==
  ASSUME NEW w \in Change, NEW d \in Change
  PROVE  /\ Plus(w, d) \in Change
         /\ \A f \in Fields : Plus(w, d)[f] = w[f] + d[f]
BY DEF Plus, Change

LEMMA OfFact ==
  ASSUME NEW f \in Fields, NEW n \in Int
  PROVE  /\ Of(f, n) \in Change
         /\ Of(f, n)[f] = n
         /\ \A g \in Fields \ {f} : Of(f, n)[g] = 0
BY DEF Of, Change

LEMMA ZeroFact ==
  /\ Zero \in Change /\ NoChange \in [Users -> Change]
  /\ \A f \in Fields : Zero[f] = 0
  /\ \A u \in Users : NoChange[u] = Zero
BY DEF Zero, NoChange, Change

\* Spending n coins takes n in all, no more of either kind than there is.
LEMMA SpendFact ==
  ASSUME NEW w \in Change, NEW n \in Nat,
         \A f \in Fields : w[f] >= 0
  PROVE  /\ Spend(w, n) \in Change
         /\ Spend(w, n)["gameCoins"] + Spend(w, n)["giftCoins"] = -n
         /\ Spend(w, n)["diamonds"] = 0 /\ Spend(w, n)["promoDiamonds"] = 0
         /\ w["gameCoins"] + Spend(w, n)["gameCoins"] >= 0
         /\ TotalCoins(w) >= n => w["giftCoins"] + Spend(w, n)["giftCoins"] >= 0
<1> DEFINE game == IF w["gameCoins"] >= n THEN n ELSE w["gameCoins"]
           a == Of("gameCoins", -game)
           b == Of("giftCoins", game - n)
<1>1. /\ w["gameCoins"] \in Int /\ w["giftCoins"] \in Int
      /\ w["gameCoins"] >= 0 /\ w["giftCoins"] >= 0
  BY FieldsList DEF Change
<1>2. game \in Int /\ -game \in Int /\ game - n \in Int /\ game >= 0
      /\ game <= w["gameCoins"]
  BY <1>1
<1>3. a \in Change /\ a["gameCoins"] = -game /\ a["giftCoins"] = 0
      /\ a["diamonds"] = 0 /\ a["promoDiamonds"] = 0
  BY <1>2, OfFact, FieldsList
<1>4. b \in Change /\ b["giftCoins"] = game - n /\ b["gameCoins"] = 0
      /\ b["diamonds"] = 0 /\ b["promoDiamonds"] = 0
  BY <1>2, OfFact, FieldsList
<1>5. Spend(w, n) = Plus(a, b)
  BY DEF Spend
<1>6. /\ Plus(a, b) \in Change
      /\ Plus(a, b)["gameCoins"] = -game
      /\ Plus(a, b)["giftCoins"] = game - n
      /\ Plus(a, b)["diamonds"] = 0 /\ Plus(a, b)["promoDiamonds"] = 0
  <2> HIDE DEF a, b, game
  <2>1. Plus(a, b) \in Change /\ \A f \in Fields : Plus(a, b)[f] = a[f] + b[f]
    BY <1>3, <1>4, PlusFact
  <2> QED BY <2>1, <1>2, <1>3, <1>4, FieldsList
<1>7. TotalCoins(w) = w["giftCoins"] + w["gameCoins"]
  BY DEF TotalCoins
<1>8. TotalCoins(w) >= n => w["giftCoins"] + (game - n) >= 0
  BY <1>1, <1>7
<1> QED
  <2> HIDE DEF a, b, game
  <2> QED BY <1>1, <1>2, <1>5, <1>6, <1>8

LEMMA ConversionFact ==
  ASSUME NEW n \in Nat
  PROVE  CoinsToDiamonds(n) \in Nat /\ DiamondsToCoins(n) \in Nat
<1>1. ASSUME NEW p \in Nat, NEW q \in Nat \ {0}
      PROVE  (n * p) \div q \in Nat
  <2> DEFINE m == n * p
  <2>1. m \in Nat
    OBVIOUS
  <2> HIDE DEF m
  <2> QED BY <2>1
<1>2. /\ CoinRatio[1] \in Nat /\ CoinRatio[2] \in Nat \ {0}
      /\ DiamondRatio[1] \in Nat /\ DiamondRatio[2] \in Nat \ {0}
  BY RatioAssumption
<1> QED BY <1>1, <1>2 DEF CoinsToDiamonds, DiamondsToCoins

\* Whatever the row, what a call does to it is a change.
LEMMA UserChangeType ==
  ASSUME NEW c \in Call, NEW w \in Change
  PROVE  UserChange(c, w) \in Change
<1>0. /\ c.type \in CallTypes /\ c.coins \in Nat /\ c.diamonds \in Nat
      /\ c.coinField \in Fields
      /\ CoinsToDiamonds(c.coins) \in Nat /\ DiamondsToCoins(c.diamonds) \in Nat
  BY ConversionFact, FieldsList DEF Call
<1>1. Spend(w, c.coins) \in Change
  <2> DEFINE game == IF w.gameCoins >= c.coins THEN c.coins ELSE w.gameCoins
  <2>1. game \in Int /\ -game \in Int /\ game - c.coins \in Int
    BY <1>0, FieldsList DEF Change
  <2> HIDE DEF game
  <2>2. Of("gameCoins", -game) \in Change /\ Of("giftCoins", game - c.coins) \in Change
    BY <2>1, OfFact, FieldsList
  <2>3. Plus(Of("gameCoins", -game), Of("giftCoins", game - c.coins)) \in Change
    BY <2>2, PlusFact
  <2> QED BY <2>3 DEF Spend, game
<1>2. /\ Of("diamonds", CoinsToDiamonds(c.coins)) \in Change
      /\ Of("diamonds", c.diamonds) \in Change /\ Of("diamonds", -c.diamonds) \in Change
      /\ Of("gameCoins", DiamondsToCoins(c.diamonds)) \in Change
      /\ Of(c.coinField, c.coins) \in Change /\ Of("giftCoins", c.coins) \in Change
  <2>1. -c.diamonds \in Int
    BY <1>0
  <2> QED BY <1>0, <2>1, OfFact, FieldsList
<1>3. /\ Plus(Spend(w, c.coins), Of("diamonds", CoinsToDiamonds(c.coins))) \in Change
      /\ Plus(Of("diamonds", -c.diamonds), Of("gameCoins", DiamondsToCoins(c.diamonds)))
           \in Change
  BY <1>1, <1>2, PlusFact
<1> QED BY <1>0, <1>1, <1>2, <1>3
   DEF UserChange, CallTypes, ProcessChatPayment, ConvertCoinsToDiamonds,
       ConvertDiamondsToCoins, DeductDiamondsForWithdrawal, RefundWithdrawalDiamonds,
       Recharge, AwardBonus

\* What a call does to its user's row is a change, and an affordable call
\* leaves every counter of the row non-negative.
LEMMA UserChangeFact ==
  ASSUME NEW c \in Call, NEW w \in Change, \A f \in Fields : w[f] >= 0
  PROVE  /\ UserChange(c, w) \in Change
         /\ Affordable(c, w) => \A f \in Fields : w[f] + UserChange(c, w)[f] >= 0
<1>0. /\ c.type \in CallTypes /\ c.coins \in Nat /\ c.diamonds \in Nat
      /\ c.coinField \in Fields
      /\ \A f \in Fields : w[f] \in Int
      /\ CoinsToDiamonds(c.coins) \in Nat /\ DiamondsToCoins(c.diamonds) \in Nat
  BY ConversionFact, FieldsList DEF Call, Change
<1>1. CASE c.type = "CHAT_PAYMENT"
  <2>1. UserChange(c, w) = Spend(w, c.coins)
    BY <1>1 DEF UserChange, ProcessChatPayment
  <2>2. Affordable(c, w) => TotalCoins(w) >= c.coins
    BY <1>1 DEF Affordable
  <2> QED BY <1>0, <2>1, <2>2, SpendFact, FieldsList
<1>2. CASE c.type = "COIN_TO_DIAMOND"
  <2> DEFINE s == Spend(w, c.coins)
             d == Of("diamonds", CoinsToDiamonds(c.coins))
  <2>1. UserChange(c, w) = Plus(s, d)
    BY <1>2 DEF UserChange, ConvertCoinsToDiamonds
  <2>2. Affordable(c, w) => TotalCoins(w) >= c.coins
    BY <1>2 DEF Affordable
  <2>3. /\ d \in Change /\ d["diamonds"] = CoinsToDiamonds(c.coins)
        /\ d["giftCoins"] = 0 /\ d["gameCoins"] = 0 /\ d["promoDiamonds"] = 0
    BY <1>0, OfFact, FieldsList
  <2>4. /\ s \in Change /\ s["diamonds"] = 0 /\ s["promoDiamonds"] = 0
        /\ w["gameCoins"] + s["gameCoins"] >= 0
        /\ TotalCoins(w) >= c.coins => w["giftCoins"] + s["giftCoins"] >= 0
    BY <1>0, SpendFact
  <2>5. Plus(s, d) \in Change /\ \A f \in Fields : Plus(s, d)[f] = s[f] + d[f]
    BY <2>3, <2>4, PlusFact
  <2> HIDE DEF s, d
  <2>6. s["giftCoins"] \in Int /\ s["gameCoins"] \in Int
    BY <2>4, FieldsList DEF Change
  <2> QED BY <1>0, <2>1, <2>2, <2>3, <2>4, <2>5, <2>6, FieldsList
<1>3. CASE c.type = "DIAMOND_TO_COIN"
  <2> DEFINE s == Of("diamonds", -c.diamonds)
             d == Of("gameCoins", DiamondsToCoins(c.diamonds))
  <2>1. UserChange(c, w) = Plus(s, d)
    BY <1>3 DEF UserChange, ConvertDiamondsToCoins
  <2>2. Affordable(c, w) => w["diamonds"] >= c.diamonds
    BY <1>3 DEF Affordable
  <2>3. /\ d \in Change /\ d["gameCoins"] = DiamondsToCoins(c.diamonds)
        /\ d["giftCoins"] = 0 /\ d["diamonds"] = 0 /\ d["promoDiamonds"] = 0
    BY <1>0, OfFact, FieldsList
  <2>4. /\ s \in Change /\ s["diamonds"] = -c.diamonds
        /\ s["giftCoins"] = 0 /\ s["gameCoins"] = 0 /\ s["promoDiamonds"] = 0
    <3>1. -c.diamonds \in Int
      BY <1>0
    <3> QED BY <3>1, OfFact, FieldsList
  <2>5. Plus(s, d) \in Change /\ \A f \in Fields : Plus(s, d)[f] = s[f] + d[f]
    BY <2>3, <2>4, PlusFact
  <2> HIDE DEF s, d
  <2> QED BY <1>0, <2>1, <2>2, <2>3, <2>4, <2>5, FieldsList
<1>4. CASE c.type = "WITHDRAWAL"
  <2>1. UserChange(c, w) = Of("diamonds", -c.diamonds)
    BY <1>4 DEF UserChange, DeductDiamondsForWithdrawal
  <2>2. Affordable(c, w) => w["diamonds"] >= c.diamonds
    BY <1>4 DEF Affordable
  <2>3. -c.diamonds \in Int
    BY <1>0
  <2> QED BY <1>0, <2>1, <2>2, <2>3, OfFact, FieldsList
<1>5. CASE c.type \notin {"CHAT_PAYMENT", "COIN_TO_DIAMOND", "DIAMOND_TO_COIN", "WITHDRAWAL"}
  <2>1. PICK f \in Fields, n \in Nat : UserChange(c, w) = Of(f, n)
    BY <1>0, <1>5, FieldsList
    DEF UserChange, CallTypes, RefundWithdrawalDiamonds, Recharge, AwardBonus
  <2> QED BY <1>0, <2>1, OfFact
<1> QED BY <1>1, <1>2, <1>3, <1>4, <1>5

\* A receiver only ever gains, and only diamonds.
LEMMA ReceiverChangeFact ==
  ASSUME NEW c \in Call
  PROVE  /\ ReceiverChange(c) \in Change
         /\ \A f \in Fields : ReceiverChange(c)[f] >= 0
<1>1. PICK f \in Fields : ReceiverChange(c) = Of(f, c.diamonds)
  BY FieldsList DEF ReceiverChange
<1>2. c.diamonds \in Nat
  BY DEF Call
<1> QED BY <1>1, <1>2, OfFact

-----------------------------------------------------------------------------
(* Types, solvency and exactly-once *)

\* Only a transaction past its first statement holds row locks.
LockInv ==
  \A u \in Users : lock[u] # None => pc[lock[u]] \in {"receiver", "record", "commission", "owner"}

\* A transaction has changed only rows it holds; a committed one stays as it is.
DeltaInv ==
  \A r \in Requests, u \in Users : r \notin ledger /\ lock[u] # r => delta[r][u] = Zero

\* The ledger holds exactly the completed requests.
LedgerInv == \A r \in Requests : r \in ledger <=> pc[r] = "completed"

\* If the holder of a row committed now, the row would not be negative.
Solvent ==
  \A u \in Users : lock[u] # None =>
    \A f \in Fields : wallet[u][f] + delta[lock[u]][u][f] >= 0

\* A transaction that has inserted its row is alone with its key.
KeyInv ==
  \A r, q \in Requests :
    Inserted(r) /\ SameKey(r, q) /\ r # q =>
      ~Inserted(q) /\ q \notin ledger

IInv == /\ TypeOK /\ LockInv /\ DeltaInv /\ LedgerInv
        /\ NoOverdraft /\ Solvent /\ ExactlyOnce /\ KeyInv

-----------------------------------------------------------------------------
(* Typing *)

LEMMA CallFact ==
  ASSUME TypeOK, NEW r \in Requests
  PROVE  /\ call[r] \in Call /\ call[r].user \in Users /\ call[r].to \in Users
         /\ call[r].diamonds \in Nat
         /\ wallet[call[r].user] \in Change
BY CallsAssumption DEF TypeOK, Call

\* A commission that is due goes to a user, and is not negative.
LEMMA ShareFact ==
  ASSUME TypeOK, NEW r \in Requests, CommissionDue(r)
  PROVE  Owner(r) \in Users /\ Share(r, level[r]) \in Nat
<1> DEFINE line == Upline[call[r].to]
           c == call[r]
<1>1. c.to \in Users /\ c.diamonds \in Nat
  BY CallFact
<1>2. line \in Seq([owner: Users, percent: 1..100])
  BY <1>1, UplineAssumption
<1>3. level[r] \in 1..Len(line)
  BY <1>2 DEF TypeOK, CommissionDue
<1>4. line[level[r]] \in [owner: Users, percent: 1..100]
  <2> DEFINE S == [owner: Users, percent: 1..100]
             i == level[r]
  <2>1. line \in Seq(S) /\ i \in 1..Len(line)
    BY <1>2, <1>3
  <2> HIDE DEF S, line, i
  <2>2. line[i] \in S
    BY <2>1
  <2> QED BY <2>2 DEF S, i
<1>5. PICK p \in 1..100 : line[level[r]].percent = p
  BY <1>4
<1>6. c.diamonds * p \in Nat
  BY <1>1
<1>7. (c.diamonds * p) \div 100 \in Nat
  <2> DEFINE n == c.diamonds * p
  <2> HIDE DEF n
  <2> QED BY <1>6
<1> QED BY <1>4, <1>5, <1>7 DEF Owner, Share

\* Touching a row adds to one change of one transaction and takes one lock.
LEMMA TouchFact ==
  ASSUME TypeOK, NEW r \in Requests, NEW u \in Users, NEW d \in Change, Touch(r, u, d)
  PROVE  /\ lock' \in [Users -> Requests \cup {None}]
         /\ delta' \in [Requests -> [Users -> Change]]
         /\ lock'[u] = r /\ \A v \in Users \ {u} : lock'[v] = lock[v]
         /\ \A f \in Fields : delta'[r][u][f] = delta[r][u][f] + d[f]
         /\ \A v \in Users \ {u} : delta'[r][v] = delta[r][v]
         /\ \A q \in Requests \ {r} : delta'[q] = delta[q]
<1>1. delta[r] \in [Users -> Change] /\ delta[r][u] \in Change
  BY DEF TypeOK
<1>2. Plus(delta[r][u], d) \in Change
      /\ \A f \in Fields : Plus(delta[r][u], d)[f] = delta[r][u][f] + d[f]
  BY <1>1, PlusFact
<1>3. delta' = [delta EXCEPT ![r] = [delta[r] EXCEPT ![u] = Plus(delta[r][u], d)]]
  BY DEF Touch, TypeOK
<1> QED BY <1>1, <1>2, <1>3 DEF Touch, TypeOK

LEMMA RollbackType ==
  ASSUME TypeOK, NEW r \in Requests, Rollback(r), NEW s \in States, Goto(r, s),
         faults' \in 0..MaxFaults
  PROVE  TypeOK'
BY ZeroFact DEF TypeOK, Rollback, Unlocked, Goto

LEMMA AbortType ==
  ASSUME TypeOK, NEW r \in Requests, Abort(r), faults' \in 0..MaxFaults
  PROVE  TypeOK'
<1>1. PICK s \in States : Goto(r, s)
  BY DEF Abort, States, EndStates
<1> QED BY <1>1, RollbackType DEF Abort

LEMMA CommitType ==
  ASSUME TypeOK, NEW r \in Requests, Commit(r)
  PROVE  TypeOK'
<1>1. \A u \in Users : Plus(wallet[u], delta[r][u]) \in Change
  BY PlusFact DEF TypeOK
<1>2. wallet' \in [Users -> Change]
  BY <1>1 DEF Commit
<1>3. /\ rows' \in SUBSET Users /\ lock' \in [Users -> Requests \cup {None}]
      /\ stale' \in [Requests -> SUBSET Users]
  BY DEF TypeOK, Commit, Held, Unlocked
<1>4. pc' \in [Requests -> States]
  BY DEF TypeOK, Commit, Goto, States, EndStates
<1>5. level' \in [Requests -> Nat \ {0}]
  BY DEF TypeOK, Commit
<1>6. ledger' \in SUBSET Requests
  BY DEF TypeOK, Commit
<1> QED BY <1>2, <1>3, <1>4, <1>5, <1>6 DEF TypeOK, Commit

LEMMA TypeStep == TypeOK /\ [Next]_vars => TypeOK'
<1> SUFFICES ASSUME TypeOK, [Next]_vars PROVE TypeOK'
  OBVIOUS
<1>1. CASE UNCHANGED vars
  BY <1>1 DEF vars, TypeOK
<1>2. ASSUME NEW r \in Requests,
             \/ Reject(r) \/ Replay(r) \/ Admit(r) \/ Begin(r)
             \/ CreateTransaction(r) \/ MissOwner(r)
      PROVE  TypeOK'
  BY <1>2 DEF Reject, Replay, Admit, Begin, CreateTransaction, MissOwner, Goto, TypeOK,
              States, OpenStates, EndStates
<1>3. ASSUME NEW r \in Requests, LockUser(r) PROVE TypeOK'
  <2> DEFINE u == call[r].user
             d == UserChange(call[r], wallet[u])
  <2>1. call[r] \in Call /\ u \in Users /\ wallet[u] \in Change
    BY CallFact
  <2>2. d \in Change
    BY <2>1, UserChangeType
  <2>3. Touch(r, u, d)
    BY <1>3 DEF LockUser
  <2> HIDE DEF d, u
  <2>4. lock' \in [Users -> Requests \cup {None}] /\ delta' \in [Requests -> [Users -> Change]]
    BY <2>1, <2>2, <2>3, TouchFact
  <2> QED BY <1>3, <2>4 DEF LockUser, Goto, TypeOK, States, OpenStates
<1>4. ASSUME NEW r \in Requests, LockReceiver(r) PROVE TypeOK'
  <2>1. /\ call[r].to \in Users /\ ReceiverChange(call[r]) \in Change
        /\ Touch(r, call[r].to, ReceiverChange(call[r]))
    BY <1>4, CallFact, ReceiverChangeFact DEF LockReceiver
  <2>2. lock' \in [Users -> Requests \cup {None}] /\ delta' \in [Requests -> [Users -> Change]]
    BY <2>1, TouchFact
  <2> QED BY <1>4, <2>2 DEF LockReceiver, Goto, TypeOK, States, OpenStates
<1>5. ASSUME NEW r \in Requests, CreditCommission(r) PROVE TypeOK'
  <2> DEFINE d == Of("diamonds", Share(r, level[r]))
  <2>1. Owner(r) \in Users /\ d \in Change /\ Touch(r, Owner(r), d)
    BY <1>5, ShareFact, OfFact, FieldsList DEF CreditCommission
  <2> HIDE DEF d
  <2>2. lock' \in [Users -> Requests \cup {None}] /\ delta' \in [Requests -> [Users -> Change]]
    BY <2>1, TouchFact
  <2>3. level[r] + 1 \in Nat \ {0}
    BY DEF TypeOK
  <2>4. level' \in [Requests -> Nat \ {0}]
    BY <1>5, <2>3 DEF CreditCommission, TypeOK
  <2> QED BY <1>5, <2>2, <2>4 DEF CreditCommission, Goto, TypeOK, States, OpenStates
<1>6. ASSUME NEW r \in Requests, Refuse(r) \/ BreakDeadlock(r) \/ Timeout(r)
      PROVE  TypeOK'
  <2>1. Abort(r) /\ faults' \in 0..MaxFaults
    BY <1>6, FaultsAssumption DEF Refuse, BreakDeadlock, Timeout, TypeOK
  <2> QED BY <2>1, AbortType
<1>7. ASSUME NEW r \in Requests, Crash(r) PROVE TypeOK'
  <2>1. faults' \in 0..MaxFaults
    BY <1>7, FaultsAssumption DEF Crash, TypeOK
  <2> QED BY <1>7, <2>1, RollbackType DEF Crash, States, EndStates
<1>8. ASSUME NEW r \in Requests, LogFailedTransaction(r) PROVE TypeOK'
  <2>1. call[r].key \in Keys \cup {NoKey}
    BY CallFact DEF Call
  <2> QED BY <1>8, <2>1 DEF LogFailedTransaction, Goto, TypeOK, States, EndStates
<1> QED BY <1>1, <1>2, <1>3, <1>4, <1>5, <1>6, <1>7, <1>8, CommitType
        DEF Next, Step, Quiescent

\* Every variable of the wallet service keeps its type (schema.prisma types
\* and the states of a request in wallet.service.ts).
THEOREM TypeCorrect == Spec => []TypeOK
<1>1. Init => TypeOK
  BY OpeningAssumption, FaultsAssumption, ZeroFact
  DEF Init, TypeOK, States, Balance, Change
<1> QED BY <1>1, TypeStep, PTL DEF Spec

-----------------------------------------------------------------------------
(* The inductive invariant *)

\* A request that is in no transaction and stays in none changes nothing here.
LEMMA QuietStep ==
  ASSUME IInv, NEW r \in Requests, TypeOK',
         Reject(r) \/ Replay(r) \/ Admit(r) \/ Begin(r) \/ LogFailedTransaction(r)
  PROVE  IInv'
<1>1. UNCHANGED <<wallet, call, lock, delta, ledger>>
  BY DEF Reject, Replay, Admit, Begin, LogFailedTransaction
<1>2. /\ pc[r] \in {"idle", "begin", "log"}
      /\ pc'[r] \in {"rejected", "replayed", "begin", "user", "create", "failed"}
      /\ \A q \in Requests \ {r} : pc'[q] = pc[q]
  BY DEF IInv, TypeOK, Reject, Replay, Admit, Begin, LogFailedTransaction, Goto
<1>3. LockInv'
  BY <1>1, <1>2 DEF IInv, TypeOK, LockInv
<1>4. DeltaInv' /\ NoOverdraft' /\ Solvent' /\ ExactlyOnce'
  BY <1>1 DEF IInv, DeltaInv, NoOverdraft, Solvent, ExactlyOnce, SameKey
<1>5. LedgerInv'
  BY <1>1, <1>2 DEF IInv, LedgerInv
<1>6. KeyInv'
  BY <1>1, <1>2 DEF IInv, KeyInv, SameKey, Inserted
<1> QED BY <1>3, <1>4, <1>5, <1>6 DEF IInv

\* The transaction's change to a row it may touch is still none, or solvent.
LEMMA BeforeTouch ==
  ASSUME IInv, NEW r \in Requests, NEW u \in Users,
         InTx(r), Available(r, u)
  PROVE  /\ \A f \in Fields : wallet[u][f] \in Int /\ wallet[u][f] >= 0
         /\ \A f \in Fields : delta[r][u][f] \in Int
         /\ lock[u] # r => \A f \in Fields : delta[r][u][f] = 0
         /\ \A f \in Fields : wallet[u][f] + delta[r][u][f] >= 0
<1>1. \A f \in Fields : wallet[u][f] \in Int /\ delta[r][u][f] \in Int
  BY DEF IInv, TypeOK, Change
<1>2. \A f \in Fields : wallet[u][f] >= 0
  BY DEF IInv, NoOverdraft
<1>3. r \notin ledger
  BY DEF IInv, LedgerInv, InTx, OpenStates
<1>4. CASE lock[u] # r
  <2>1. delta[r][u] = Zero
    BY <1>3, <1>4 DEF IInv, DeltaInv
  <2> QED BY <1>1, <1>2, <1>4, <2>1, ZeroFact
<1>5. CASE lock[u] = r
  <2>1. \A f \in Fields : wallet[u][f] + delta[r][u][f] >= 0
    BY <1>5, RequestsAssumption DEF IInv, Solvent
  <2> QED BY <1>1, <1>2, <1>5, <2>1
<1> QED BY <1>4, <1>5

\* Touching a row with a change the row can bear keeps the invariant.
LEMMA TouchStep ==
  ASSUME IInv, NEW r \in Requests, TypeOK', NEW u \in Users, NEW d \in Change,
         Touch(r, u, d), Available(r, u), InTx(r),
         UNCHANGED <<wallet, call, ledger>>,
         \A f \in Fields : wallet[u][f] + (delta[r][u][f] + d[f]) >= 0,
         pc'[r] \in {"receiver", "record", "commission", "owner"},
         Inserted(r)' => Inserted(r),
         \A q \in Requests \ {r} : pc'[q] = pc[q]
  PROVE  IInv'
<1>1. TypeOK /\ r \notin ledger /\ pc[r] # "completed"
  BY DEF IInv, LedgerInv, InTx, OpenStates
<1>2. /\ lock'[u] = r /\ \A v \in Users \ {u} : lock'[v] = lock[v]
      /\ \A f \in Fields : delta'[r][u][f] = delta[r][u][f] + d[f]
      /\ \A v \in Users \ {u} : delta'[r][v] = delta[r][v]
      /\ \A q \in Requests \ {r} : delta'[q] = delta[q]
  BY <1>1, TouchFact
<1>3. LockInv'
  <2> SUFFICES ASSUME NEW v \in Users, lock'[v] # None
               PROVE  pc'[lock'[v]] \in {"receiver", "record", "commission", "owner"}
    BY DEF LockInv
  <2>1. CASE lock'[v] = r
    BY <2>1
  <2>2. CASE lock'[v] # r
    <3>1. v # u /\ lock'[v] = lock[v] /\ lock[v] \in Requests \ {r}
      BY <1>1, <1>2, <2>2 DEF TypeOK
    <3>2. pc[lock[v]] \in {"receiver", "record", "commission", "owner"}
      BY <3>1 DEF IInv, LockInv
    <3> QED BY <3>1, <3>2
  <2> QED BY <2>1, <2>2
<1>4. DeltaInv'
  <2> SUFFICES ASSUME NEW q \in Requests, NEW v \in Users,
                      q \notin ledger, lock'[v] # q
               PROVE  delta'[q][v] = Zero
    BY DEF DeltaInv
  <2>1. lock[v] # q
    BY <1>2, RequestsAssumption DEF Available
  <2>2. delta[q][v] = Zero
    BY <2>1 DEF IInv, DeltaInv
  <2> QED BY <1>2, <2>2
<1>5. Solvent'
  <2> SUFFICES ASSUME NEW v \in Users, lock'[v] # None, NEW f \in Fields
               PROVE  wallet[v][f] + delta'[lock'[v]][v][f] >= 0
    BY DEF Solvent
  <2>1. CASE v = u
    BY <1>2, <2>1
  <2>2. CASE v # u
    <3>1. lock'[v] = lock[v] /\ lock[v] \in Requests
      BY <1>1, <1>2, <2>2 DEF TypeOK
    <3>2. delta'[lock[v]][v] = delta[lock[v]][v]
      BY <1>2, <2>2, <3>1
    <3>3. wallet[v][f] + delta[lock[v]][v][f] >= 0
      BY <3>1 DEF IInv, Solvent
    <3> QED BY <3>1, <3>2, <3>3
  <2> QED BY <2>1, <2>2
<1>6. LedgerInv'
  BY <1>1 DEF IInv, LedgerInv
<1>7. NoOverdraft' /\ ExactlyOnce'
  BY DEF IInv, NoOverdraft, ExactlyOnce, SameKey
<1>8. KeyInv'
  BY DEF IInv, KeyInv, SameKey, Inserted
<1> QED BY <1>3, <1>4, <1>5, <1>6, <1>7, <1>8 DEF IInv

LEMMA LockUserStep ==
  ASSUME IInv, NEW r \in Requests, TypeOK', LockUser(r)
  PROVE  IInv'
<1> DEFINE u == call[r].user
           d == UserChange(call[r], wallet[u])
<1>1. TypeOK /\ call[r] \in Call /\ u \in Users /\ wallet[u] \in Change
  BY CallFact DEF IInv
<1>2. /\ pc[r] \in {"user", "create"} /\ Available(r, u) /\ Affordable(call[r], wallet[u])
      /\ Touch(r, u, d) /\ UNCHANGED <<wallet, call, ledger>>
      /\ Goto(r, IF call[r].type = "CHAT_PAYMENT" THEN "receiver" ELSE "record")
  BY DEF LockUser
<1>3. lock[u] # r
  BY <1>1, <1>2, RequestsAssumption DEF IInv, LockInv
<1>4. InTx(r)
  BY <1>2 DEF InTx, OpenStates
<1>5. /\ \A f \in Fields : wallet[u][f] \in Int /\ wallet[u][f] >= 0
      /\ \A f \in Fields : delta[r][u][f] = 0
  BY <1>1, <1>2, <1>3, <1>4, BeforeTouch
<1>6. d \in Change /\ \A f \in Fields : wallet[u][f] + d[f] >= 0
  BY <1>1, <1>2, <1>5, UserChangeFact
<1>7. /\ pc'[r] \in {"receiver", "record"}
      /\ \A q \in Requests \ {r} : pc'[q] = pc[q]
  BY <1>1, <1>2 DEF TypeOK, Goto
<1> HIDE DEF u, d
<1>8. \A f \in Fields : wallet[u][f] + (delta[r][u][f] + d[f]) >= 0
  <2> SUFFICES ASSUME NEW f \in Fields PROVE wallet[u][f] + (delta[r][u][f] + d[f]) >= 0
    OBVIOUS
  <2>1. d[f] \in Int /\ delta[r][u][f] = 0 /\ wallet[u][f] + d[f] >= 0
    BY <1>5, <1>6 DEF Change
  <2> QED BY <2>1
<1>9. Inserted(r)' => Inserted(r)
  BY <1>7 DEF Inserted
<1> QED BY <1>1, <1>2, <1>4, <1>6, <1>7, <1>8, <1>9, TouchStep

\* A gain keeps a row solvent.
LEMMA GainStep ==
  ASSUME IInv, NEW r \in Requests, TypeOK', NEW u \in Users, NEW d \in Change,
         \A f \in Fields : d[f] >= 0,
         Touch(r, u, d), Available(r, u), pc[r] \in {"receiver", "commission", "owner"},
         UNCHANGED <<wallet, call, ledger>>,
         pc'[r] = "record" \/ (Inserted(r) /\ pc'[r] = "commission"),
         \A q \in Requests \ {r} : pc'[q] = pc[q]
  PROVE  IInv'
<1>1. InTx(r)
  BY DEF InTx, OpenStates
<1>2. /\ \A f \in Fields : wallet[u][f] \in Int /\ delta[r][u][f] \in Int
      /\ \A f \in Fields : wallet[u][f] + delta[r][u][f] >= 0
  BY <1>1, BeforeTouch
<1>3. \A f \in Fields : wallet[u][f] + (delta[r][u][f] + d[f]) >= 0
  <2> SUFFICES ASSUME NEW f \in Fields PROVE wallet[u][f] + (delta[r][u][f] + d[f]) >= 0
    OBVIOUS
  <2>1. d[f] \in Int /\ d[f] >= 0
    BY DEF Change
  <2> QED BY <1>2, <2>1
<1>4. /\ pc'[r] \in {"receiver", "record", "commission", "owner"}
      /\ Inserted(r)' => Inserted(r)
  BY DEF Inserted
<1> QED BY <1>1, <1>3, <1>4, TouchStep

LEMMA LockReceiverStep ==
  ASSUME IInv, NEW r \in Requests, TypeOK', LockReceiver(r)
  PROVE  IInv'
<1> DEFINE u == call[r].to
           d == ReceiverChange(call[r])
<1>1. TypeOK /\ u \in Users /\ d \in Change /\ \A f \in Fields : d[f] >= 0
  BY CallFact, ReceiverChangeFact DEF IInv
<1>2. /\ pc[r] = "receiver" /\ Available(r, u) /\ Touch(r, u, d)
      /\ UNCHANGED <<wallet, call, ledger>> /\ Goto(r, "record")
  BY DEF LockReceiver
<1>3. pc'[r] = "record" /\ \A q \in Requests \ {r} : pc'[q] = pc[q]
  BY <1>1, <1>2 DEF TypeOK, Goto
<1> HIDE DEF u, d
<1> QED BY <1>1, <1>2, <1>3, GainStep

LEMMA CreditCommissionStep ==
  ASSUME IInv, NEW r \in Requests, TypeOK', CreditCommission(r)
  PROVE  IInv'
<1> DEFINE u == Owner(r)
           n == Share(r, level[r])
           d == Of("diamonds", n)
<1>1. TypeOK /\ u \in Users /\ n \in Nat
  BY ShareFact DEF IInv, CreditCommission
<1>2. /\ Inserted(r) /\ Available(r, u) /\ Touch(r, u, d)
      /\ UNCHANGED <<wallet, call, ledger>> /\ Goto(r, "commission")
  BY DEF CreditCommission
<1>4. /\ pc[r] \in {"receiver", "commission", "owner"}
      /\ pc'[r] = "commission" /\ \A q \in Requests \ {r} : pc'[q] = pc[q]
  BY <1>1, <1>2 DEF TypeOK, Goto, Inserted
<1> HIDE DEF u, n
<1>3. d \in Change /\ \A f \in Fields : d[f] >= 0
  BY <1>1, OfFact, FieldsList
<1> HIDE DEF d
<1> QED BY <1>1, <1>2, <1>3, <1>4, GainStep

LEMMA MissOwnerStep ==
  ASSUME IInv, NEW r \in Requests, TypeOK', MissOwner(r)
  PROVE  IInv'
<1>1. /\ pc[r] = "commission" /\ UNCHANGED <<wallet, call, lock, delta, ledger>>
      /\ pc'[r] = "owner" /\ \A q \in Requests \ {r} : pc'[q] = pc[q]
  BY DEF MissOwner, Goto, IInv, TypeOK
<1>2. LockInv'
  BY <1>1 DEF IInv, TypeOK, LockInv
<1>3. DeltaInv' /\ NoOverdraft' /\ Solvent' /\ ExactlyOnce'
  BY <1>1 DEF IInv, DeltaInv, NoOverdraft, Solvent, ExactlyOnce, SameKey
<1>4. LedgerInv'
  BY <1>1 DEF IInv, LedgerInv
<1>5. \A q \in Requests : Inserted(q)' <=> Inserted(q)
  BY <1>1 DEF Inserted
<1>6. KeyInv'
  BY <1>1, <1>5 DEF IInv, KeyInv, SameKey
<1> QED BY <1>2, <1>3, <1>4, <1>6 DEF IInv

LEMMA CreateTransactionStep ==
  ASSUME IInv, NEW r \in Requests, TypeOK', CreateTransaction(r)
  PROVE  IInv'
<1>1. /\ pc[r] = "record" /\ KeyHolders(r) = {} /\ ~KeyPosted(r)
      /\ UNCHANGED <<wallet, call, lock, delta, ledger>>
      /\ pc'[r] = "commission" /\ \A q \in Requests \ {r} : pc'[q] = pc[q]
  BY DEF CreateTransaction, Goto, IInv, TypeOK
<1>2. LockInv'
  BY <1>1 DEF IInv, TypeOK, LockInv
<1>3. DeltaInv' /\ NoOverdraft' /\ Solvent' /\ ExactlyOnce'
  BY <1>1 DEF IInv, DeltaInv, NoOverdraft, Solvent, ExactlyOnce, SameKey
<1>4. LedgerInv'
  BY <1>1 DEF IInv, LedgerInv
<1>5. KeyInv'
  <2> SUFFICES ASSUME NEW p \in Requests, NEW q \in Requests,
                      Inserted(p)', SameKey(p, q), p # q
               PROVE  ~Inserted(q)' /\ q \notin ledger
    BY <1>1 DEF KeyInv, SameKey
  <2>1. CASE p = r
    BY <1>1, <2>1 DEF KeyHolders, KeyPosted, IInv, TypeOK, Inserted
  <2>2. CASE p # r
    <3>1. Inserted(p) /\ ~Inserted(q) /\ q \notin ledger
      BY <1>1, <2>2 DEF IInv, KeyInv, Inserted
    <3>2. q # r
      BY <1>1, <2>2, <3>1 DEF KeyHolders, SameKey
    <3> QED BY <1>1, <3>1, <3>2 DEF Inserted
  <2> QED BY <2>1, <2>2
<1> QED BY <1>2, <1>3, <1>4, <1>5 DEF IInv

LEMMA RollbackStep ==
  ASSUME IInv, NEW r \in Requests, TypeOK', Rollback(r), NEW s \in {"log", "failed", "lost"},
         Goto(r, s), pc[r] # "completed"
  PROVE  IInv'
<1>1. /\ UNCHANGED <<wallet, call, ledger>>
      /\ \A u \in Users : lock'[u] = IF lock[u] = r THEN None ELSE lock[u]
      /\ delta'[r] = NoChange /\ \A q \in Requests \ {r} : delta'[q] = delta[q]
      /\ pc'[r] = s /\ \A q \in Requests \ {r} : pc'[q] = pc[q]
  BY DEF IInv, TypeOK, Rollback, Unlocked, Goto
<1>2. LockInv'
  BY <1>1, RequestsAssumption DEF IInv, TypeOK, LockInv
<1>3. DeltaInv'
  BY <1>1, ZeroFact DEF IInv, DeltaInv
<1>4. Solvent'
  <2> SUFFICES ASSUME NEW u \in Users, lock'[u] # None, NEW f \in Fields
               PROVE  wallet[u][f] + delta'[lock'[u]][u][f] >= 0
    BY <1>1 DEF Solvent
  <2>1. lock'[u] = lock[u] /\ lock[u] \in Requests \ {r}
    BY <1>1 DEF IInv, TypeOK
  <2>2. wallet[u][f] + delta[lock[u]][u][f] >= 0
    BY <2>1 DEF IInv, Solvent
  <2> QED BY <1>1, <2>1, <2>2
<1>5. NoOverdraft' /\ ExactlyOnce'
  BY <1>1 DEF IInv, NoOverdraft, ExactlyOnce, SameKey
<1>6. LedgerInv'
  BY <1>1 DEF IInv, LedgerInv
<1>7. KeyInv'
  BY <1>1 DEF IInv, KeyInv, SameKey, Inserted
<1> QED BY <1>2, <1>3, <1>4, <1>5, <1>6, <1>7 DEF IInv

\* A commit turns solvent changes into balances, and meets no posting of its key.
LEMMA CommitStep ==
  ASSUME IInv, NEW r \in Requests, TypeOK', Commit(r)
  PROVE  IInv'
<1>1. /\ pc[r] = "commission" /\ r \notin ledger
      /\ ledger' = ledger \cup {r} /\ UNCHANGED <<call, delta>>
      /\ \A u \in Users : wallet'[u] = Plus(wallet[u], delta[r][u])
      /\ \A u \in Users : lock'[u] = IF lock[u] = r THEN None ELSE lock[u]
      /\ pc'[r] = "completed" /\ \A q \in Requests \ {r} : pc'[q] = pc[q]
  BY DEF IInv, TypeOK, LedgerInv, Commit, Unlocked, Goto
<1>2. ASSUME NEW u \in Users
      PROVE  /\ \A f \in Fields : wallet'[u][f] = wallet[u][f] + delta[r][u][f]
             /\ \A f \in Fields : wallet[u][f] \in Int /\ delta[r][u][f] \in Int
             /\ lock[u] # r => \A f \in Fields : delta[r][u][f] = 0
  <2>1. wallet[u] \in Change /\ delta[r][u] \in Change
    BY DEF IInv, TypeOK
  <2>2. lock[u] # r => delta[r][u] = Zero
    BY <1>1 DEF IInv, DeltaInv
  <2> QED BY <1>1, <2>1, <2>2, PlusFact, ZeroFact DEF Change
<1>3. LockInv'
  BY <1>1, RequestsAssumption DEF IInv, TypeOK, LockInv
<1>4. DeltaInv'
  <2> SUFFICES ASSUME NEW q \in Requests, NEW u \in Users,
                      q \notin ledger', lock'[u] # q
               PROVE  delta[q][u] = Zero
    BY <1>1 DEF DeltaInv
  <2>1. q # r /\ q \notin ledger /\ lock[u] # q
    BY <1>1
  <2> QED BY <2>1 DEF IInv, DeltaInv
<1>5. NoOverdraft'
  <2> SUFFICES ASSUME NEW u \in Users, NEW f \in Fields PROVE wallet'[u][f] >= 0
    BY DEF NoOverdraft
  <2>1. CASE lock[u] = r
    <3>1. wallet[u][f] + delta[r][u][f] >= 0
      BY <2>1, RequestsAssumption DEF IInv, Solvent
    <3> QED BY <1>2, <3>1
  <2>2. CASE lock[u] # r
    <3>1. wallet[u][f] >= 0
      BY DEF IInv, NoOverdraft
    <3> QED BY <1>2, <2>2, <3>1
  <2> QED BY <2>1, <2>2
<1>6. Solvent'
  <2> SUFFICES ASSUME NEW u \in Users, lock'[u] # None, NEW f \in Fields
               PROVE  wallet'[u][f] + delta[lock'[u]][u][f] >= 0
    BY <1>1 DEF Solvent
  <2>1. lock[u] # r /\ lock'[u] = lock[u]
    BY <1>1
  <2>2. wallet'[u][f] = wallet[u][f]
    BY <1>2, <2>1
  <2> QED BY <2>1, <2>2 DEF IInv, Solvent
<1>7. LedgerInv'
  BY <1>1 DEF IInv, LedgerInv
<1>8. ASSUME NEW q \in Requests, SameKey(r, q), q # r
      PROVE  q \notin ledger /\ ~Inserted(q)
  BY <1>1, <1>8 DEF IInv, KeyInv, Inserted
<1>9. ExactlyOnce'
  <2> SUFFICES ASSUME NEW p \in ledger', NEW q \in ledger', SameKey(p, q), p # q
               PROVE  FALSE
    BY <1>1 DEF ExactlyOnce, SameKey
  <2>1. p \in Requests /\ q \in Requests /\ SameKey(q, p)
    BY <1>1 DEF IInv, TypeOK, SameKey
  <2> QED BY <1>1, <1>8, <2>1 DEF IInv, ExactlyOnce
<1>10. KeyInv'
  <2> SUFFICES ASSUME NEW p \in Requests, NEW q \in Requests,
                      Inserted(p)', SameKey(p, q), p # q
               PROVE  ~Inserted(q)' /\ q \notin ledger'
    BY <1>1 DEF KeyInv, SameKey
  <2>1. p # r /\ Inserted(p) /\ SameKey(q, p)
    BY <1>1 DEF SameKey, Inserted
  <2>2. ~Inserted(q) /\ q \notin ledger
    BY <2>1 DEF IInv, KeyInv
  <2>3. q # r
    BY <1>1, <2>2 DEF Inserted
  <2> QED BY <1>1, <2>2, <2>3 DEF Inserted
<1> QED BY <1>3, <1>4, <1>5, <1>6, <1>7, <1>9, <1>10 DEF IInv

LEMMA InductiveStep == IInv /\ [Next]_vars => IInv'
<1> SUFFICES ASSUME IInv, [Next]_vars PROVE IInv'
  OBVIOUS
<1>0. TypeOK /\ TypeOK'
  BY TypeStep DEF IInv
<1>1. CASE UNCHANGED vars
  BY <1>0, <1>1 DEF vars, IInv, LockInv, DeltaInv, LedgerInv, NoOverdraft, Solvent,
     ExactlyOnce, KeyInv, SameKey, Inserted
<1>2. ASSUME NEW r \in Requests, Refuse(r) \/ BreakDeadlock(r) \/ Timeout(r)
      PROVE  IInv'
  <2>1. Abort(r) /\ pc[r] # "completed"
    BY <1>2 DEF Refuse, BreakDeadlock, Timeout, InTx, OpenStates
  <2>2. PICK s \in {"log", "failed", "lost"} : Goto(r, s)
    BY <2>1 DEF Abort
  <2> QED BY <1>0, <2>1, <2>2, RollbackStep DEF Abort
<1>3. ASSUME NEW r \in Requests, Crash(r) PROVE IInv'
  BY <1>0, <1>3, RollbackStep DEF Crash, OpenStates
<1> QED BY <1>0, <1>1, <1>2, <1>3, QuietStep, LockUserStep, LockReceiverStep,
           CreateTransactionStep, MissOwnerStep, CreditCommissionStep, CommitStep
        DEF Next, Step, Quiescent

LEMMA InductiveInit == Init => IInv
<1> SUFFICES ASSUME Init PROVE IInv
  OBVIOUS
<1>1. TypeOK
  BY OpeningAssumption, FaultsAssumption, ZeroFact
  DEF Init, TypeOK, States, Balance, Change
<1>2. NoOverdraft
  BY OpeningAssumption DEF Init, NoOverdraft, Balance
<1>3. DeltaInv
  BY ZeroFact DEF Init, DeltaInv
<1> QED BY <1>1, <1>2, <1>3
        DEF Init, IInv, LockInv, LedgerInv, Solvent, ExactlyOnce, KeyInv, Inserted

\* No balance goes below zero, for any users, calls, hierarchy and number of
\* concurrent requests (wallet.service.ts 258-315, 467-508, 592-631, 684-724).
THEOREM NeverOverdrawn == Spec => []NoOverdraft
<1>1. IInv => NoOverdraft
  BY DEF IInv
<1> QED BY <1>1, InductiveInit, InductiveStep, PTL DEF Spec

\* Of all the requests that carry one idempotency key at most one commits,
\* whatever their types and users (wallet.service.ts 243-249, 351-369).
THEOREM OnceOnly == Spec => []ExactlyOnce
<1>1. IInv => ExactlyOnce
  BY DEF IInv
<1> QED BY <1>1, InductiveInit, InductiveStep, PTL DEF Spec

-----------------------------------------------------------------------------
(* The ledger explains the balances *)

\* A step commits one more posting and adds it to the wallets, or leaves the
\* wallets, the ledger and the committed postings alone.
Committed(r) ==
  /\ r \in Requests \ ledger /\ ledger' = ledger \cup {r} /\ delta' = delta
  /\ wallet' = [u \in Users |-> Plus(wallet[u], delta[r][u])]
NothingCommitted ==
  UNCHANGED <<wallet, ledger>> /\ \A q \in ledger : delta'[q] = delta[q]

LEMMA LedgerStep ==
  ASSUME IInv, [Next]_vars
  PROVE  NothingCommitted \/ \E r \in Requests : Committed(r)
<1>1. CASE UNCHANGED vars
  BY <1>1 DEF vars, NothingCommitted
<1>2. ASSUME NEW r \in Requests, Reject(r) \/ Replay(r) \/ Admit(r) \/ Begin(r)
             \/ CreateTransaction(r) \/ MissOwner(r) \/ LogFailedTransaction(r)
      PROVE  NothingCommitted
  BY <1>2 DEF NothingCommitted, Reject, Replay, Admit, Begin, CreateTransaction,
     MissOwner, LogFailedTransaction
<1>3. ASSUME NEW r \in Requests, Refuse(r) \/ BreakDeadlock(r) \/ Timeout(r) \/ Crash(r)
      PROVE  NothingCommitted
  <2>1. pc[r] # "completed" /\ Rollback(r)
    BY <1>3 DEF Refuse, BreakDeadlock, Timeout, Crash, Abort, InTx, OpenStates
  <2>2. r \notin ledger
    BY <2>1 DEF IInv, LedgerInv
  <2>3. \A q \in ledger : q \in Requests /\ q # r
    BY <2>2 DEF IInv, TypeOK
  <2> QED BY <2>1, <2>3 DEF NothingCommitted, Rollback, IInv, TypeOK
<1>4. ASSUME NEW r \in Requests, LockUser(r) \/ LockReceiver(r) \/ CreditCommission(r)
      PROVE  NothingCommitted
  <2>1. pc[r] # "completed" /\ \E u, d : Touch(r, u, d)
    BY <1>4 DEF LockUser, LockReceiver, CreditCommission, Inserted
  <2>2. r \notin ledger
    BY <2>1 DEF IInv, LedgerInv
  <2>3. \A q \in ledger : q \in Requests /\ q # r
    BY <2>2 DEF IInv, TypeOK
  <2>4. \A q \in Requests : q # r => delta'[q] = delta[q]
    BY <2>1 DEF Touch, IInv, TypeOK
  <2>5. UNCHANGED <<wallet, ledger>>
    BY <1>4 DEF LockUser, LockReceiver, CreditCommission
  <2> QED BY <2>3, <2>4, <2>5 DEF NothingCommitted
<1>5. ASSUME NEW r \in Requests, Commit(r) PROVE Committed(r)
  BY <1>5 DEF Committed, Commit, IInv, LedgerInv
<1> QED BY <1>1, <1>2, <1>3, <1>4, <1>5 DEF Next, Step, Quiescent

\* A ledger is finite, and the sum over it explains the wallets.
SumInv == IsFiniteSet(ledger) /\ LedgerExplainsBalances

LEMMA SumInit == Init => SumInv
<1> SUFFICES ASSUME Init PROVE SumInv
  OBVIOUS
<1>1. IsFiniteSet({}) /\ ledger = {}
  BY FS_EmptySet DEF Init
<1>2. ASSUME NEW u \in Users, NEW f \in Fields
      PROVE  Posted(u, f) = 0
  BY <1>1, SumRecursion DEF Posted
<1>3. \A u \in Users, f \in Fields : OpeningBalance[u][f] \in Int
  BY OpeningAssumption DEF Balance
<1> QED BY <1>1, <1>2, <1>3 DEF SumInv, LedgerExplainsBalances, Init

LEMMA SumStep == IInv /\ SumInv /\ [Next]_vars => SumInv'
<1> SUFFICES ASSUME IInv, SumInv, [Next]_vars PROVE SumInv'
  OBVIOUS
<1>0. ASSUME NEW q \in ledger, NEW u \in Users, NEW f \in Fields
      PROVE  delta[q][u][f] \in Int
  BY DEF IInv, TypeOK, Change
<1>1. CASE NothingCommitted
  <2>1. ASSUME NEW u \in Users, NEW f \in Fields
        PROVE  Posted(u, f)' = Posted(u, f)
    BY <1>1 DEF NothingCommitted, Posted
  <2> QED BY <1>1, <2>1 DEF NothingCommitted, SumInv, LedgerExplainsBalances
<1>2. ASSUME NEW r \in Requests, Committed(r) PROVE SumInv'
  <2>1. IsFiniteSet(ledger')
    BY <1>2, FS_AddElement DEF Committed, SumInv
  <2>2. ASSUME NEW u \in Users, NEW f \in Fields
        PROVE  wallet'[u][f] = OpeningBalance[u][f] + Posted(u, f)'
    <3> DEFINE before == [q \in ledger |-> delta[q][u][f]]
               after == [q \in ledger \cup {r} |-> delta[q][u][f]]
    <3>1. Posted(u, f) = SumFunctionOnSet(before, ledger)
      BY DEF Posted
    <3>2. Posted(u, f)' = SumFunctionOnSet(after, ledger \cup {r})
      BY <1>2 DEF Posted, Committed
    <3>3. delta[r][u][f] \in Int /\ IsFiniteSet(ledger) /\ r \notin ledger
      BY <1>2 DEF IInv, TypeOK, Change, SumInv, Committed
    <3>4. /\ \A q \in ledger : before[q] \in Int /\ before[q] = after[q]
          /\ \A q \in ledger \cup {r} : after[q] \in Int
          /\ after[r] = delta[r][u][f]
      BY <1>0, <3>3
    <3> HIDE DEF before, after
    <3>5. SumFunctionOnSet(before, ledger) = SumFunctionOnSet(after, ledger)
      BY <3>3, <3>4, SumSame
    <3>6. SumFunctionOnSet(after, ledger \cup {r})
            = SumFunctionOnSet(after, ledger) + after[r]
      BY <3>3, <3>4, SumWith
    <3>7. SumFunctionOnSet(before, ledger) \in Int
      BY <3>3, <3>4, SumRecursion
    <3>8. /\ wallet'[u][f] = wallet[u][f] + delta[r][u][f]
          /\ wallet[u][f] = OpeningBalance[u][f] + Posted(u, f)
      BY <1>2 DEF Committed, Plus, SumInv, LedgerExplainsBalances
    <3>9. OpeningBalance[u][f] \in Int
      BY OpeningAssumption DEF Balance
    <3> QED BY <3>1, <3>2, <3>3, <3>4, <3>5, <3>6, <3>7, <3>8, <3>9
  <2> QED BY <2>1, <2>2 DEF SumInv, LedgerExplainsBalances
<1> QED BY <1>1, <1>2, LedgerStep

\* For any users and any number of requests, whatever fails: every balance is
\* its opening value plus the postings of the committed requests, so that none
\* is lost, applied twice or applied in part (wallet.service.ts 255-402).
THEOREM MoneyIsExplained == Spec => []LedgerExplainsBalances
<1>1. SumInv => LedgerExplainsBalances
  BY DEF SumInv
<1> QED BY <1>1, InductiveInit, InductiveStep, SumInit, SumStep, PTL DEF Spec

-----------------------------------------------------------------------------
(* The refinement of the Bank *)

\* d is what the call does to every row, and perhaps commission.
Shape(c, w, d) ==
  \A u \in Users :
    /\ \A f \in Fields \ {"diamonds"} : d[u][f] = BaseChange(c, w, u)[f]
    /\ d[u]["diamonds"] >= BaseChange(c, w, u)["diamonds"]
    /\ c.type # "CHAT_PAYMENT" \/ c.promo =>
         d[u]["diamonds"] = BaseChange(c, w, u)["diamonds"]

\* A payment whose sender is charged and whose receiver is not credited yet.
HalfPaid(c, w, d) ==
  /\ c.type = "CHAT_PAYMENT"
  /\ \A u \in Users, f \in Fields :
       d[u][f] = IF u = c.user THEN UserChange(c, w)[f] ELSE 0

ValidInv == \A r \in Requests : pc[r] = "begin" \/ InTx(r) => Valid(call[r])

\* What an open transaction holds, has checked and has done.
WorkOf(r) ==
  pc[r] \in {"receiver", "record", "commission", "owner"} =>
    LET c == call[r]
        w == wallet[call[r].user]
    IN /\ lock[c.user] = r
       /\ Affordable(c, w)
       /\ IF pc[r] = "receiver" THEN HalfPaid(c, w, delta[r]) ELSE Shape(c, w, delta[r])

WorkInv == \A r \in Requests : WorkOf(r)

RInv == IInv /\ ValidInv /\ WorkInv

LEMMA BaseChangeFact ==
  ASSUME NEW c \in Call, NEW w \in Change, NEW u \in Users
  PROVE  /\ BaseChange(c, w, u) \in Change
         /\ \A f \in Fields :
              BaseChange(c, w, u)[f] =
                (IF u = c.user THEN UserChange(c, w)[f] ELSE 0)
                + (IF u = c.to /\ c.type = "CHAT_PAYMENT" THEN ReceiverChange(c)[f] ELSE 0)
<1> DEFINE a == IF u = c.user THEN UserChange(c, w) ELSE Zero
           b == IF u = c.to /\ c.type = "CHAT_PAYMENT" THEN ReceiverChange(c) ELSE Zero
<1>1. a \in Change /\ b \in Change
  BY UserChangeType, ReceiverChangeFact, ZeroFact
<1>2. BaseChange(c, w, u) = Plus(a, b)
  BY DEF BaseChange
<1>3. Plus(a, b) \in Change /\ \A f \in Fields : Plus(a, b)[f] = a[f] + b[f]
  <2> HIDE DEF a, b
  <2> QED BY <1>1, PlusFact
<1>4. \A f \in Fields :
        /\ a[f] = IF u = c.user THEN UserChange(c, w)[f] ELSE 0
        /\ b[f] = IF u = c.to /\ c.type = "CHAT_PAYMENT" THEN ReceiverChange(c)[f] ELSE 0
  BY ZeroFact
<1> HIDE DEF a, b
<1> QED BY <1>2, <1>3, <1>4

\* A row held by r is not changed by another request's step.
LEMMA HeldRowFact ==
  ASSUME IInv, NEW r \in Requests, NEW u \in Users, lock[u] = r,
         NEW q \in Requests \ {r}, Commit(q)
  PROVE  wallet'[u] = wallet[u]
<1>1. q \notin ledger
  BY DEF IInv, LedgerInv, Commit
<1>2. delta[q][u] = Zero
  BY <1>1 DEF IInv, DeltaInv
<1>3. wallet[u] \in Change
  BY DEF IInv, TypeOK
<1>4. Plus(wallet[u], Zero) = wallet[u]
  BY <1>3 DEF Plus, Zero, Change
<1> QED BY <1>2, <1>4 DEF Commit

\* A transaction's own work so far is untouched by a step that keeps what it
\* holds, its row and its place.
LEMMA WorkKept ==
  ASSUME WorkInv, NEW r \in Requests, pc'[r] = pc[r], call' = call, delta'[r] = delta[r],
         lock[call[r].user] = r =>
           lock'[call[r].user] = r /\ wallet'[call[r].user] = wallet[call[r].user]
  PROVE  WorkOf(r)'
BY DEF WorkInv, WorkOf, HalfPaid, Shape

LEMMA ValidStep ==
  ASSUME RInv, [Next]_vars, TypeOK'
  PROVE  ValidInv'
<1> SUFFICES ASSUME NEW r \in Requests, pc'[r] = "begin" \/ InTx(r)'
             PROVE  Valid(call'[r])
  BY DEF ValidInv
<1>1. CASE UNCHANGED vars
  BY <1>1 DEF vars, RInv, ValidInv, InTx
<1>2. ASSUME NEW q \in Requests, Step(q) \/ Timeout(q) \/ Crash(q)
      PROVE  Valid(call'[r])
  <2>1. call' = call
    BY <1>2 DEF Step, Timeout, Crash, Reject, Replay, Admit, Begin, LockUser,
       LockReceiver, CreateTransaction, MissOwner, CreditCommission, Commit, Refuse,
       BreakDeadlock, LogFailedTransaction, Abort, Rollback
  <2>2. CASE pc'[r] = pc[r]
    BY <2>1, <2>2 DEF RInv, ValidInv, InTx
  <2>3. CASE pc'[r] # pc[r] /\ Admit(q)
    BY <2>1, <2>3 DEF RInv, IInv, TypeOK, Admit, Goto
  <2>4. CASE pc'[r] # pc[r] /\ ~Admit(q)
    <3>1. CASE Reject(q) \/ Replay(q) \/ LogFailedTransaction(q)
      BY <2>4, <3>1 DEF Reject, Replay, LogFailedTransaction, Goto, InTx, OpenStates,
         RInv, IInv, TypeOK
    <3>2. CASE Begin(q) \/ LockUser(q) \/ LockReceiver(q) \/ CreateTransaction(q)
               \/ MissOwner(q) \/ CreditCommission(q) \/ Commit(q)
      <4>1. r = q /\ (pc[r] = "begin" \/ InTx(r))
        BY <2>4, <3>2 DEF Begin, LockUser, LockReceiver, CreateTransaction, MissOwner,
           CreditCommission, Commit, Inserted, Goto, InTx, OpenStates, RInv, IInv, TypeOK
      <4> QED BY <2>1, <4>1 DEF RInv, ValidInv
    <3>3. CASE Refuse(q) \/ BreakDeadlock(q) \/ Timeout(q) \/ Crash(q)
      BY <2>4, <3>3 DEF Refuse, BreakDeadlock, Timeout, Crash, Abort, Goto, InTx,
         OpenStates, RInv, IInv, TypeOK
    <3> QED BY <1>2, <2>4, <3>1, <3>2, <3>3 DEF Step
  <2> QED BY <2>2, <2>3, <2>4
<1> QED BY <1>1, <1>2 DEF Next, Quiescent

\* The work of the others survives a request that touches a row.
LEMMA WorkOfOthers ==
  ASSUME RInv, NEW r \in Requests, NEW u \in Users, NEW d \in Change,
         Touch(r, u, d), Available(r, u), UNCHANGED <<wallet, call>>,
         \A q \in Requests \ {r} : pc'[q] = pc[q]
  PROVE  \A q \in Requests \ {r} : WorkOf(q)'
<1> SUFFICES ASSUME NEW q \in Requests \ {r} PROVE WorkOf(q)'
  OBVIOUS
<1>1. TypeOK /\ WorkInv
  BY DEF RInv, IInv
<1>2. /\ \A v \in Users \ {u} : lock'[v] = lock[v]
      /\ delta'[q] = delta[q] /\ lock[u] # q
  BY <1>1, TouchFact, RequestsAssumption DEF Available
<1>3. call[q].user \in Users
  BY <1>1, CallFact
<1> QED BY <1>1, <1>2, <1>3, WorkKept

LEMMA LockUserWork ==
  ASSUME RInv, NEW r \in Requests, LockUser(r)
  PROVE  WorkOf(r)'
<1> DEFINE c == call[r]
           u == call[r].user
           w == wallet[call[r].user]
           d == UserChange(c, w)
<1>1. TypeOK /\ c \in Call /\ u \in Users /\ w \in Change /\ d \in Change
  BY CallFact, UserChangeType DEF RInv, IInv
<1>2. /\ pc[r] \in {"user", "create"} /\ Affordable(c, w) /\ Touch(r, u, d)
      /\ UNCHANGED <<wallet, call>>
      /\ pc'[r] = IF c.type = "CHAT_PAYMENT" THEN "receiver" ELSE "record"
  BY <1>1 DEF LockUser, Goto, TypeOK
<1>3. \A v \in Users, f \in Fields : delta[r][v][f] = 0
  <2>1. r \notin ledger /\ \A v \in Users : lock[v] # r
    BY <1>1, <1>2, RequestsAssumption DEF RInv, IInv, LedgerInv, LockInv
  <2> QED BY <2>1, ZeroFact DEF RInv, IInv, DeltaInv
<1>4. /\ lock'[u] = r
      /\ \A f \in Fields : delta'[r][u][f] = delta[r][u][f] + d[f]
      /\ \A v \in Users \ {u} : delta'[r][v] = delta[r][v]
  BY <1>1, <1>2, TouchFact
<1>5. \A v \in Users, f \in Fields : delta'[r][v][f] = IF v = u THEN d[f] ELSE 0
  BY <1>1, <1>3, <1>4 DEF Change
<1>6. \A v \in Users, f \in Fields : BaseChange(c, w, v)[f] \in Int
  BY <1>1, BaseChangeFact DEF Change
<1>7. c.type # "CHAT_PAYMENT" =>
        \A v \in Users, f \in Fields : delta'[r][v][f] = BaseChange(c, w, v)[f]
  <2> SUFFICES ASSUME c.type # "CHAT_PAYMENT", NEW v \in Users, NEW f \in Fields
               PROVE  delta'[r][v][f] = BaseChange(c, w, v)[f]
    OBVIOUS
  <2>1. BaseChange(c, w, v)[f] = (IF v = u THEN d[f] ELSE 0) + 0
    BY <1>1, BaseChangeFact
  <2>2. d[f] \in Int
    BY <1>1 DEF Change
  <2> QED BY <1>5, <2>1, <2>2
<1>8. c.type = "CHAT_PAYMENT" => HalfPaid(c, w, delta'[r])
  BY <1>5 DEF HalfPaid
<1>9. c.type # "CHAT_PAYMENT" => Shape(c, w, delta'[r])
  BY <1>6, <1>7, FieldsList DEF Shape
<1> QED BY <1>2, <1>4, <1>8, <1>9 DEF WorkOf, HalfPaid, Shape

LEMMA LockReceiverWork ==
  ASSUME RInv, NEW r \in Requests, LockReceiver(r)
  PROVE  WorkOf(r)'
<1> DEFINE c == call[r]
           t == call[r].to
           w == wallet[call[r].user]
           d == ReceiverChange(c)
<1>1. /\ TypeOK /\ c \in Call /\ c.user \in Users /\ t \in Users
      /\ w \in Change /\ d \in Change
  BY CallFact, ReceiverChangeFact DEF RInv, IInv
<1>2. /\ pc[r] = "receiver" /\ Touch(r, t, d) /\ pc'[r] = "record"
      /\ UNCHANGED <<wallet, call>>
  BY <1>1 DEF LockReceiver, Goto, TypeOK
<1>3. lock[c.user] = r /\ Affordable(c, w) /\ HalfPaid(c, w, delta[r])
  BY <1>2 DEF RInv, WorkInv, WorkOf
<1>4. /\ lock'[c.user] = r
      /\ \A f \in Fields : delta'[r][t][f] = delta[r][t][f] + d[f]
      /\ \A v \in Users \ {t} : delta'[r][v] = delta[r][v]
  BY <1>1, <1>2, <1>3, TouchFact
<1>5. ASSUME NEW v \in Users, NEW f \in Fields
      PROVE  /\ delta'[r][v][f] = BaseChange(c, w, v)[f]
             /\ BaseChange(c, w, v)[f] \in Int
  <2>1. delta[r][v][f] = IF v = c.user THEN UserChange(c, w)[f] ELSE 0
    BY <1>3 DEF HalfPaid
  <2>2. BaseChange(c, w, v)[f] = (IF v = c.user THEN UserChange(c, w)[f] ELSE 0)
                                 + (IF v = t THEN d[f] ELSE 0)
    <3>1. c.type = "CHAT_PAYMENT"
      BY <1>3 DEF HalfPaid
    <3>2. \A g \in Fields :
            BaseChange(c, w, v)[g] =
              (IF v = c.user THEN UserChange(c, w)[g] ELSE 0)
              + (IF v = t /\ c.type = "CHAT_PAYMENT" THEN d[g] ELSE 0)
      BY <1>1, BaseChangeFact
    <3> QED BY <3>1, <3>2
  <2>3. delta[r][v][f] \in Int /\ d[f] \in Int
    BY <1>1 DEF TypeOK, Change
  <2> QED BY <1>4, <2>1, <2>2, <2>3
<1>6. Shape(c, w, delta'[r])
  BY <1>5, FieldsList DEF Shape
<1> QED BY <1>2, <1>3, <1>4, <1>6 DEF WorkOf, Shape

LEMMA CreditCommissionWork ==
  ASSUME RInv, NEW r \in Requests, CreditCommission(r)
  PROVE  WorkOf(r)'
<1> DEFINE c == call[r]
           t == Owner(r)
           w == wallet[call[r].user]
           n == Share(r, level[r])
           d == Of("diamonds", n)
<1>1. /\ TypeOK /\ c \in Call /\ c.user \in Users /\ w \in Change
      /\ t \in Users /\ n \in Nat
  BY CallFact, ShareFact DEF RInv, IInv, CreditCommission
<1>2. /\ pc[r] \in {"commission", "owner"} /\ Touch(r, t, d) /\ UNCHANGED <<wallet, call>>
      /\ c.type = "CHAT_PAYMENT" /\ ~c.promo /\ pc'[r] = "commission"
  BY <1>1 DEF CreditCommission, CommissionDue, Inserted, Goto, TypeOK
<1>3. lock[c.user] = r /\ Affordable(c, w) /\ Shape(c, w, delta[r])
  BY <1>2 DEF RInv, WorkInv, WorkOf
<1> HIDE DEF n
<1>4. /\ d \in Change /\ d["diamonds"] >= 0 /\ d["diamonds"] \in Int
      /\ \A f \in Fields \ {"diamonds"} : d[f] = 0
  BY <1>1, OfFact, FieldsList DEF Change
<1> HIDE DEF d, t
<1>5. /\ lock'[c.user] = r
      /\ \A f \in Fields : delta'[r][t][f] = delta[r][t][f] + d[f]
      /\ \A v \in Users \ {t} : delta'[r][v] = delta[r][v]
  BY <1>1, <1>2, <1>3, <1>4, TouchFact
<1>6. ASSUME NEW v \in Users
      PROVE  /\ \A f \in Fields \ {"diamonds"} : delta'[r][v][f] = delta[r][v][f]
             /\ delta'[r][v]["diamonds"] >= delta[r][v]["diamonds"]
             /\ delta'[r][v]["diamonds"] \in Int /\ delta[r][v]["diamonds"] \in Int
             /\ BaseChange(c, w, v)["diamonds"] \in Int
  <2>1. \A f \in Fields : delta[r][v][f] \in Int
    BY <1>1 DEF TypeOK, Change
  <2>2. BaseChange(c, w, v)["diamonds"] \in Int
    BY <1>1, BaseChangeFact, FieldsList DEF Change
  <2>3. CASE v = t
    BY <1>4, <1>5, <2>1, <2>2, <2>3, FieldsList
  <2>4. CASE v # t
    BY <1>5, <2>1, <2>2, <2>4, FieldsList
  <2> QED BY <2>3, <2>4
<1>7. Shape(c, w, delta'[r])
  BY <1>2, <1>3, <1>6 DEF Shape
<1> QED BY <1>2, <1>3, <1>5, <1>7 DEF WorkOf, Shape

LEMMA CommitWork ==
  ASSUME RInv, NEW r \in Requests, Commit(r)
  PROVE  WorkInv'
<1> SUFFICES ASSUME NEW q \in Requests PROVE WorkOf(q)'
  BY DEF WorkInv
<1>1. TypeOK /\ WorkInv /\ call[q].user \in Users /\ UNCHANGED <<call, delta>>
  BY CallFact DEF RInv, IInv, Commit
<1>2. CASE q = r
  BY <1>1, <1>2 DEF WorkOf, Commit, Goto, TypeOK
<1>3. CASE q # r
  <2>1. pc'[q] = pc[q] /\ delta'[q] = delta[q]
    BY <1>1, <1>3 DEF Commit, Goto, TypeOK
  <2>2. ASSUME lock[call[q].user] = q
        PROVE  lock'[call[q].user] = q /\ wallet'[call[q].user] = wallet[call[q].user]
    BY <1>1, <1>3, <2>2, HeldRowFact DEF Commit, Unlocked, RInv
  <2> QED BY <1>1, <2>1, <2>2, WorkKept
<1> QED BY <1>2, <1>3

LEMMA RollbackWork ==
  ASSUME RInv, NEW r \in Requests, Rollback(r), NEW s \in {"log", "failed", "lost"},
         Goto(r, s)
  PROVE  WorkInv'
<1> SUFFICES ASSUME NEW q \in Requests PROVE WorkOf(q)'
  BY DEF WorkInv
<1>1. TypeOK /\ WorkInv /\ call[q].user \in Users /\ UNCHANGED <<call, wallet>>
  BY CallFact DEF RInv, IInv, Rollback
<1>2. CASE q = r
  BY <1>1, <1>2 DEF WorkOf, Goto, TypeOK
<1>3. CASE q # r
  <2>1. pc'[q] = pc[q] /\ delta'[q] = delta[q]
    BY <1>1, <1>3 DEF Rollback, Goto, TypeOK
  <2>2. lock[call[q].user] = q => lock'[call[q].user] = q
    BY <1>1, <1>3 DEF Rollback, Unlocked
  <2> QED BY <1>1, <2>1, <2>2, WorkKept
<1> QED BY <1>2, <1>3

LEMMA WorkStep ==
  ASSUME RInv, [Next]_vars
  PROVE  WorkInv'
<1>0. TypeOK /\ IInv /\ WorkInv
  BY DEF RInv, IInv
<1>1. CASE UNCHANGED vars
  BY <1>0, <1>1 DEF vars, WorkInv, WorkOf, HalfPaid, Shape
<1>2. ASSUME NEW r \in Requests,
             \/ Reject(r) \/ Replay(r) \/ Admit(r) \/ Begin(r)
             \/ CreateTransaction(r) \/ MissOwner(r) \/ LogFailedTransaction(r)
      PROVE  WorkInv'
  <2> SUFFICES ASSUME NEW q \in Requests PROVE WorkOf(q)'
    BY DEF WorkInv
  <2>1. UNCHANGED <<wallet, call, lock, delta>>
    BY <1>2 DEF Reject, Replay, Admit, Begin, CreateTransaction, MissOwner,
                LogFailedTransaction
  <2>2. \/ pc'[q] = pc[q]
        \/ pc'[q] \notin {"receiver", "record", "commission", "owner"}
        \/ pc[q] = "record" /\ pc'[q] = "commission"
        \/ pc[q] = "commission" /\ pc'[q] = "owner"
    BY <1>0, <1>2 DEF Reject, Replay, Admit, Begin, CreateTransaction, MissOwner,
       LogFailedTransaction, Goto, TypeOK
  <2> QED BY <1>0, <2>1, <2>2 DEF WorkInv, WorkOf, HalfPaid, Shape
<1>3. ASSUME NEW r \in Requests, LockUser(r) PROVE WorkInv'
  <2> DEFINE d == UserChange(call[r], wallet[call[r].user])
  <2>1. call[r].user \in Users /\ d \in Change
    BY <1>0, CallFact, UserChangeType
  <2>2. /\ Touch(r, call[r].user, d) /\ Available(r, call[r].user)
        /\ UNCHANGED <<wallet, call>> /\ \A q \in Requests \ {r} : pc'[q] = pc[q]
    BY <1>0, <1>3 DEF LockUser, Goto, TypeOK
  <2> HIDE DEF d
  <2>3. \A q \in Requests \ {r} : WorkOf(q)'
    BY <2>1, <2>2, WorkOfOthers
  <2> QED BY <1>3, <2>3, LockUserWork DEF WorkInv
<1>4. ASSUME NEW r \in Requests, LockReceiver(r) PROVE WorkInv'
  <2>1. call[r].to \in Users /\ ReceiverChange(call[r]) \in Change
    BY <1>0, CallFact, ReceiverChangeFact
  <2>2. /\ Touch(r, call[r].to, ReceiverChange(call[r])) /\ Available(r, call[r].to)
        /\ UNCHANGED <<wallet, call>> /\ \A q \in Requests \ {r} : pc'[q] = pc[q]
    BY <1>0, <1>4 DEF LockReceiver, Goto, TypeOK
  <2>3. \A q \in Requests \ {r} : WorkOf(q)'
    BY <2>1, <2>2, WorkOfOthers
  <2> QED BY <1>4, <2>3, LockReceiverWork DEF WorkInv
<1>5. ASSUME NEW r \in Requests, CreditCommission(r) PROVE WorkInv'
  <2> DEFINE d == Of("diamonds", Share(r, level[r]))
  <2>1. Owner(r) \in Users /\ d \in Change
    BY <1>0, <1>5, ShareFact, OfFact, FieldsList DEF CreditCommission
  <2>2. /\ Touch(r, Owner(r), d) /\ Available(r, Owner(r))
        /\ UNCHANGED <<wallet, call>> /\ \A q \in Requests \ {r} : pc'[q] = pc[q]
    BY <1>0, <1>5 DEF CreditCommission, Goto, TypeOK
  <2> HIDE DEF d
  <2>3. \A q \in Requests \ {r} : WorkOf(q)'
    BY <2>1, <2>2, WorkOfOthers
  <2> QED BY <1>5, <2>3, CreditCommissionWork DEF WorkInv
<1>6. ASSUME NEW r \in Requests,
             Refuse(r) \/ BreakDeadlock(r) \/ Timeout(r) \/ Crash(r)
      PROVE  WorkInv'
  <2>1. PICK s \in {"log", "failed", "lost"} : Rollback(r) /\ Goto(r, s)
    BY <1>6 DEF Refuse, BreakDeadlock, Timeout, Crash, Abort
  <2> QED BY <2>1, RollbackWork
<1> QED BY <1>0, <1>1, <1>2, <1>3, <1>4, <1>5, <1>6, CommitWork
        DEF Next, Step, Quiescent

LEMMA RStep == RInv /\ [Next]_vars => RInv'
BY InductiveStep, ValidStep, WorkStep DEF RInv, IInv

LEMMA RInit == Init => RInv
<1> SUFFICES ASSUME Init PROVE RInv
  OBVIOUS
<1>1. ValidInv /\ WorkInv
  BY DEF Init, ValidInv, WorkInv, WorkOf, InTx, OpenStates
<1> QED BY <1>1, InductiveInit DEF RInv

-----------------------------------------------------------------------------
(* The refinement *)

\* The Bank computes with the same arithmetic.
LEMMA SameMoney ==
  /\ \A c, w : TheBank!Affordable(c, w) = Affordable(c, w)
  /\ \A c : TheBank!Valid(c) = Valid(c)
  /\ \A c, w, u : TheBank!BaseChange(c, w, u) = BaseChange(c, w, u)
  /\ \A w, d : TheBank!Plus(w, d) = Plus(w, d)
  /\ TheBank!Fields = Fields
<1>1. /\ \A w, d : TheBank!Plus(w, d) = Plus(w, d)
      /\ \A f, n : TheBank!Of(f, n) = Of(f, n)
      /\ TheBank!Fields = Fields /\ TheBank!Zero = Zero
      /\ \A n : /\ TheBank!CoinsToDiamonds(n) = CoinsToDiamonds(n)
                /\ TheBank!DiamondsToCoins(n) = DiamondsToCoins(n)
  BY DEF TheBank!Plus, Plus, TheBank!Of, Of, TheBank!Fields, Fields, TheBank!Zero, Zero,
         TheBank!CoinsToDiamonds, CoinsToDiamonds, TheBank!DiamondsToCoins, DiamondsToCoins
<1>2. \A w, n : TheBank!Spend(w, n) = Spend(w, n)
  BY <1>1 DEF TheBank!Spend, Spend
<1>3. \A c, w : TheBank!UserChange(c, w) = UserChange(c, w)
  BY <1>1, <1>2
  DEF TheBank!UserChange, UserChange,
      TheBank!ProcessChatPayment, ProcessChatPayment,
      TheBank!ConvertCoinsToDiamonds, ConvertCoinsToDiamonds,
      TheBank!ConvertDiamondsToCoins, ConvertDiamondsToCoins,
      TheBank!DeductDiamondsForWithdrawal, DeductDiamondsForWithdrawal,
      TheBank!RefundWithdrawalDiamonds, RefundWithdrawalDiamonds,
      TheBank!Recharge, Recharge,
      TheBank!AwardBonus, AwardBonus
<1>4. \A c : TheBank!ReceiverChange(c) = ReceiverChange(c)
  BY <1>1 DEF TheBank!ReceiverChange, ReceiverChange
<1>5. \A c, w, u : TheBank!BaseChange(c, w, u) = BaseChange(c, w, u)
  BY <1>1, <1>3, <1>4 DEF TheBank!BaseChange, BaseChange
<1>6. /\ \A c, w : TheBank!Affordable(c, w) = Affordable(c, w)
      /\ \A c : TheBank!Valid(c) = Valid(c)
  BY DEF TheBank!Affordable, Affordable, TheBank!Valid, Valid,
         TheBank!TotalCoins, TotalCoins
<1> QED BY <1>1, <1>5, <1>6

LEMMA CommitPosts ==
  ASSUME RInv, TypeOK', NEW r \in Requests, Commit(r)
  PROVE  TheBank!Post(r)
<1> DEFINE c == call[r]
           w == wallet[call[r].user]
           postings == [q \in ledger |-> delta[q]]
           after == [q \in ledger' |-> delta'[q]]
<1>1. /\ pc[r] = "commission" /\ ledger' = ledger \cup {r}
      /\ UNCHANGED <<call, delta>>
      /\ wallet' = [u \in Users |-> Plus(wallet[u], delta[r][u])]
  BY DEF Commit
<1>2. Valid(c)
  BY <1>1 DEF RInv, ValidInv, InTx, OpenStates
<1>3. Affordable(c, w) /\ Shape(c, w, delta[r])
  BY <1>1 DEF RInv, WorkInv, WorkOf
<1>4. r \notin ledger
  BY <1>1 DEF RInv, IInv, LedgerInv
<1>5. ~TheBank!DuplicatePosted(r)
  <2> SUFFICES ASSUME NEW q \in ledger, c.key # NoKey, call[q].key = c.key
               PROVE  FALSE
    BY DEF TheBank!DuplicatePosted
  <2>1. q \in Requests /\ q # r /\ SameKey(r, q)
    BY <1>4 DEF RInv, IInv, TypeOK, SameKey
  <2> QED BY <1>1, <2>1 DEF RInv, IInv, KeyInv, Inserted
<1>6. /\ DOMAIN postings = ledger /\ DOMAIN after = ledger \cup {r}
      /\ \A q \in ledger : after[q] = postings[q]
      /\ after[r] = delta[r]
  BY <1>1
<1>7. TheBank!Effect(c, w, delta[r])
  BY <1>3, SameMoney DEF TheBank!Effect, Shape
<1>8. wallet' = [u \in Users |-> TheBank!Plus(wallet[u], after[r][u])]
  BY <1>1, <1>6, SameMoney
<1> QED BY <1>1, <1>2, <1>3, <1>4, <1>5, <1>6, <1>7, <1>8, SameMoney DEF TheBank!Post

\* No other step changes anything the Bank sees.
LEMMA OthersStutter ==
  ASSUME RInv, [Next]_vars, \A r \in Requests : ~Commit(r)
  PROVE  UNCHANGED TheBank!bvars
<1>1. CASE UNCHANGED vars
  BY <1>1 DEF vars, TheBank!bvars
<1>2. ASSUME NEW r \in Requests, Step(r) \/ Timeout(r) \/ Crash(r)
      PROVE  UNCHANGED TheBank!bvars
  <2>1. UNCHANGED <<wallet, call, ledger>>
    BY <1>2 DEF Step, Timeout, Crash, Reject, Replay, Admit, Begin, LockUser,
       LockReceiver, CreateTransaction, MissOwner, CreditCommission, Refuse,
       BreakDeadlock, LogFailedTransaction, Abort, Rollback
  <2>2. ASSUME NEW q \in ledger PROVE delta'[q] = delta[q]
    <3>1. q \in Requests /\ pc[q] = "completed"
      BY DEF RInv, IInv, TypeOK, LedgerInv
    <3>2. CASE q = r
      BY <1>2, <3>1, <3>2 DEF Step, Timeout, Crash, Reject, Replay, Admit, Begin, LockUser,
         LockReceiver, CreateTransaction, MissOwner, CreditCommission, Refuse, InTx, OpenStates, Inserted,
         BreakDeadlock, LogFailedTransaction
    <3>3. CASE q # r
      BY <1>2, <3>1, <3>3 DEF Step, Timeout, Crash, Reject, Replay, Admit, Begin, LockUser,
         LockReceiver, CreateTransaction, MissOwner, CreditCommission, Refuse, Touch,
         BreakDeadlock, LogFailedTransaction, Abort, Rollback, RInv, IInv, TypeOK
    <3> QED BY <3>2, <3>3
  <2>3. [q \in ledger' |-> delta'[q]] = [q \in ledger |-> delta[q]]
    BY <2>1, <2>2
  <2> QED BY <2>1, <2>3 DEF TheBank!bvars
<1> QED BY <1>1, <1>2 DEF Next, Quiescent

\* Whatever the requests do concurrently, whatever fails and whenever servers
\* die, callers see the Bank: every call takes effect in one step or never
\* (wallet.service.ts 222-854).
THEOREM Refinement == Spec => ImplementsBank
<1>1. Init => TheBank!BankInit
  BY DEF Init, TheBank!BankInit
<1>2. RInv /\ [Next]_vars => [TheBank!BankNext]_(TheBank!bvars)
  <2> SUFFICES ASSUME RInv, [Next]_vars PROVE [TheBank!BankNext]_(TheBank!bvars)
    OBVIOUS
  <2>1. TypeOK'
    BY TypeStep DEF RInv, IInv
  <2>2. CASE \E r \in Requests : Commit(r)
    BY <2>1, <2>2, CommitPosts DEF TheBank!BankNext
  <2> QED BY <2>2, OthersStutter
<1> QED BY <1>1, <1>2, RInit, RStep, PTL
        DEF Spec, ImplementsBank, TheBank!BankSpec
=============================================================================
