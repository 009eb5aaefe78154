-------------------------- MODULE AgencyCommission --------------------------
(***************************************************************************)
(* The commission agencies earn on the gifts of their hosts, and its        *)
(* reversal (src/src/modules/agency/agency.service.ts).                     *)
(*                                                                         *)
(* A payment climbs from the host's agency to its parents inside one        *)
(* SERIALIZABLE transaction, and so does a reversal over the commission     *)
(* logs of a payment.  One transaction is open at a time (that is what the  *)
(* isolation level gives) and remembers the books it began with, for a      *)
(* rollback.  An agency stands for its owner too: ownerId is unique.        *)
(* Agencies are made, and gifts come in, in AgencyMembership.               *)
(***************************************************************************)
EXTENDS Integers, Sequences, FiniteSetsExt, Functions

CONSTANTS
  Agencies,
  Gifts,        \* CHAT_PAYMENT transactions that credit a host
  None,
  Amounts,      \* diamonds a gift brings the host
  Tiers,        \* AGENCY_TIERS, lowest first: [min: diamonds, rate: percent]
  MaxBans,      \* bound on the admins' ban switches
  MaxAborts     \* bound on transactions the database rolls back

Levels == DOMAIN Tiers

ASSUME TiersAssumption ==
  /\ Tiers \in Seq([min: Nat, rate: Nat])
  /\ 1 \in Levels /\ Tiers[1].min = 0
  /\ \A i, j \in Levels : i < j =>
       Tiers[i].min < Tiers[j].min /\ Tiers[i].rate < Tiers[j].rate
ASSUME NumbersAssumption ==
  Amounts \subseteq Nat \ {0} /\ MaxBans \in Nat /\ MaxAborts \in Nat

Log == [agency: Agencies, gift: Gifts, amount: Amounts, rate: Nat, sub: Nat,
        earned: Int, reversal: BOOLEAN]
Books == [diamonds: [Agencies -> Nat], rolling: [Agencies -> Nat],
          level: [Agencies -> Levels], logs: SUBSET Log]
Payments == [kind: {"pay"}, gift: Gifts, host: Agencies, amount: Amounts,
             at: Agencies, child: Agencies \cup {None}, began: Books]
Reversals == [kind: {"reverse"}, gift: Gifts, left: SUBSET Log, began: Books]

ASSUME NoneAssumption == None \notin Agencies \cup Gifts \cup Payments \cup Reversals

VARIABLES
  agencies,    \* the agencies that exist
  parent,      \* parentAgencyId, None at the top
  banned,      \* isBanned
  books,       \* owners' diamonds, rollingDiamonds30d, levels, commission logs
  tx,          \* the open transaction, or None
  gifts,       \* committed payments: the host's agency and the amount
  taken,       \* diamonds each owner has withdrawn or converted
  bans, aborts

vars == <<agencies, parent, banned, books, tx, gifts, taken, bans, aborts>>

\* Some agencies are there, under their parents; nothing has been paid.
MoneyInit ==
  /\ agencies \subseteq Agencies /\ banned = {}
  /\ parent \in [Agencies -> agencies \cup {None}]
  /\ books = [diamonds |-> [a \in Agencies |-> 0],
              rolling |-> [a \in Agencies |-> 0],
              level |-> [a \in Agencies |-> 1], logs |-> {}]
  /\ tx = None
  /\ gifts = {}
  /\ taken = [a \in Agencies |-> 0]
  /\ bans = 0 /\ aborts = 0

-----------------------------------------------------------------------------
(* Tiers and rates *)

\* getAgencyTier: the highest tier whose minimum is reached.
TierOf(n) == Max({i \in Levels : n >= Tiers[i].min})
RateOf(a) == Tiers[TierOf(books.rolling[a])].rate

\* Math.floor(giftDiamonds * (agencyRate - subAgencyRate)) in doubles.  0.12 -
\* 0.04 and 0.12 - 0.08 come out just below 0.08 and 0.04, so a product that
\* should be whole falls short of it and loses a diamond.
ShareTooHigh(n, rate, sub) == (n * rate) \div 100
Share(n, rate, sub) ==
  LET exact == n * (rate - sub)
      short == rate = 12 /\ sub \in {4, 8} /\ exact % 100 = 0
  IN (exact \div 100) - (IF short THEN 1 ELSE 0)

-----------------------------------------------------------------------------
(* Agencies *)

SetAgencyBanStatus(a) ==
  /\ tx = None /\ a \in agencies
  /\ bans < MaxBans /\ bans' = bans + 1
  /\ banned' = IF a \in banned THEN banned \ {a} ELSE banned \cup {a}
  /\ UNCHANGED <<agencies, parent, books, tx, gifts, taken, aborts>>

\* The owner withdraws or converts diamonds (Wallet, Withdrawal).
Take(a) ==
  /\ tx = None /\ books.diamonds[a] > 0
  /\ taken' = [taken EXCEPT ![a] = @ + books.diamonds[a]]
  /\ books' = [books EXCEPT !.diamonds[a] = 0]
  /\ UNCHANGED <<agencies, parent, banned, tx, gifts, bans, aborts>>

-----------------------------------------------------------------------------
(* A payment to a host *)

Paid == {p.gift : p \in gifts}
Commit == tx' = None
Abort  == tx' = None /\ books' = tx.began

\* processGiftCommission: the gift goes to a host of agency a.
ProcessGiftCommission(g, a, n) ==
  /\ tx = None /\ g \notin Paid /\ a \in agencies
  /\ tx' = [kind |-> "pay", gift |-> g, host |-> a, amount |-> n, at |-> a,
             child |-> None,
             began |-> books]
  /\ UNCHANGED <<agencies, parent, banned, books, gifts, taken, bans, aborts>>

Paying == tx # None /\ tx.kind = "pay"
PaidNow ==
  gifts' = gifts \cup {[gift |-> tx.gift, host |-> tx.host, amount |-> tx.amount]}

SubRate == IF tx.child = None THEN 0 ELSE RateOf(tx.child)
Logged(a, g, reversal) ==
  \E l \in books.logs : l.agency = a /\ l.gift = g /\ l.reversal = reversal
PassesOver == RateOf(tx.at) > SubRate => Logged(tx.at, tx.gift, FALSE)

\* On to the parent; a payment that is through commits.
Climb ==
  IF parent[tx.at] = None THEN Commit /\ PaidNow
  ELSE /\ tx' = [tx EXCEPT !.at = parent[tx.at], !.child = tx.at]
       /\ UNCHANGED gifts

\* A banned agency earns nothing, and nobody above it does.  Neither does
\* anybody from an agency on whose share rounds to nothing.
StopClimbing ==
  /\ Paying
  /\ tx.at \in banned \/ (~PassesOver /\ Share(tx.amount, RateOf(tx.at), SubRate) <= 0)
  /\ Commit /\ PaidNow
  /\ UNCHANGED <<agencies, parent, banned, books, taken, bans, aborts>>

\* An agency whose rate is not above the one below it is passed over, and its
\* rolling counter does not see the gift.
PassOver ==
  /\ Paying /\ tx.at \notin banned /\ PassesOver
  /\ Climb
  /\ UNCHANGED <<agencies, parent, banned, books, taken, bans, aborts>>

Commission(a, e) ==
  [agency |-> a, gift |-> tx.gift, amount |-> tx.amount, rate |-> RateOf(a),
   sub |-> SubRate, earned |-> e, reversal |-> FALSE]

\* Mutant: the rolling counter is left alone.
CreditKeepsCounter(b, a, e) ==
  [diamonds |-> [b.diamonds EXCEPT ![a] = @ + e],
   rolling  |-> b.rolling,
   level    |-> [b.level EXCEPT ![a] = TierOf(b.rolling[a] + tx.amount)],
   logs     |-> b.logs \cup {Commission(a, e)}]

\* The diamonds, the log, the rolling counter and the level it gives.
Credited(b, a, e) ==
  [diamonds |-> [b.diamonds EXCEPT ![a] = @ + e],
   rolling  |-> [b.rolling EXCEPT ![a] = @ + tx.amount],
   level    |-> [b.level EXCEPT ![a] = TierOf(b.rolling[a] + tx.amount)],
   logs     |-> b.logs \cup {Commission(a, e)}]

CreditCommission ==
  LET e == Share(tx.amount, RateOf(tx.at), SubRate)
  IN /\ Paying /\ tx.at \notin banned /\ ~PassesOver /\ e > 0
     /\ books' = Credited(books, tx.at, e)
     /\ Climb
     /\ UNCHANGED <<agencies, parent, banned, taken, bans, aborts>>

-----------------------------------------------------------------------------
(* A reversal *)

Of(g) == {l \in books.logs : l.gift = g /\ ~l.reversal}

\* reverseChatPaymentCommission reads the logs of the payment, in no order.
ReverseChatPaymentCommission(g) ==
  /\ tx = None /\ g \in Paid /\ Of(g) # {}
  /\ tx' = [kind |-> "reverse", gift |-> g, left |-> Of(g), began |-> books]
  /\ UNCHANGED <<agencies, parent, banned, books, gifts, taken, bans, aborts>>

Reversing == tx # None /\ tx.kind = "reverse"
Without(l) == [tx EXCEPT !.left = @ \ {l}]

\* The reverse of a log: the diamonds, the rolling counter, which stops at zero,
\* and a log of it.  The level keeps what the counter gave it before.
Undone(b, l) ==
  [diamonds |-> [b.diamonds EXCEPT ![l.agency] = @ - l.earned],
   rolling  |-> [b.rolling EXCEPT ![l.agency] = @ - Min({l.amount, @})],
   level    |-> b.level,
   logs     |-> b.logs \cup {[agency |-> l.agency, gift |-> l.gift, amount |-> l.amount,
                              rate |-> l.rate, sub |-> l.sub, earned |-> -l.earned,
                              reversal |-> TRUE]}]

\* Mutant: what the balance cannot pay is left out of the reversal.
SkipReversedOrPoor(l) ==
  /\ Reversing /\ l \in tx.left
  /\ Logged(l.agency, l.gift, TRUE) \/ books.diamonds[l.agency] < l.earned
  /\ tx' = Without(l)
  /\ UNCHANGED <<agencies, parent, banned, books, gifts, taken, bans, aborts>>

SkipReversed(l) ==
  /\ Reversing /\ l \in tx.left
  /\ Logged(l.agency, l.gift, TRUE)
  /\ tx' = Without(l)
  /\ UNCHANGED <<agencies, parent, banned, books, gifts, taken, bans, aborts>>

\* Mutant: no look for an earlier reversal.
ReverseLogAgain(l) ==
  /\ Reversing /\ l \in tx.left
  /\ books.diamonds[l.agency] >= l.earned
  /\ books' = Undone(books, l)
  /\ tx' = Without(l)
  /\ UNCHANGED <<agencies, parent, banned, gifts, taken, bans, aborts>>

ReverseLog(l) ==
  /\ Reversing /\ l \in tx.left /\ ~Logged(l.agency, l.gift, TRUE)
  /\ books.diamonds[l.agency] >= l.earned
  /\ books' = Undone(books, l)
  /\ tx' = Without(l)
  /\ UNCHANGED <<agencies, parent, banned, gifts, taken, bans, aborts>>

\* Insufficient diamonds: the whole reversal is rolled back.
RefuseReversal(l) ==
  /\ Reversing /\ l \in tx.left /\ ~Logged(l.agency, l.gift, TRUE)
  /\ books.diamonds[l.agency] < l.earned
  /\ Abort
  /\ UNCHANGED <<agencies, parent, banned, gifts, taken, bans, aborts>>

CommitReversal ==
  /\ Reversing /\ tx.left = {}
  /\ Commit
  /\ UNCHANGED <<agencies, parent, banned, books, gifts, taken, bans, aborts>>

-----------------------------------------------------------------------------

\* The database rolls a transaction back: a crash, a serialization failure, a
\* failure of the rest of the payment.
Fail ==
  /\ tx # None
  /\ aborts < MaxAborts /\ aborts' = aborts + 1
  /\ Abort
  /\ UNCHANGED <<agencies, parent, banned, gifts, taken, bans>>

MoneyNext ==
  \/ \E a \in Agencies : Take(a)
  \/ StopClimbing \/ PassOver \/ CreditCommission
  \/ \E g \in Gifts : ReverseChatPaymentCommission(g)
  \/ Reversing /\ \E l \in tx.left : SkipReversed(l) \/ ReverseLog(l) \/ RefuseReversal(l)
  \/ CommitReversal \/ Fail

-----------------------------------------------------------------------------
(* Properties *)

LogsOf(a) == {l \in books.logs : l.agency = a}
Standing(a) == {l \in LogsOf(a) : ~l.reversal /\ ~Logged(a, l.gift, TRUE)}

\* What an owner holds, never less than nothing, and has taken out is what the
\* commission logs say was earned, less what was reversed (agency.service.ts
\* 551-606, 714-762).
EarnedBy(a) == SumFunctionOnSet([l \in LogsOf(a) |-> l.earned], LogsOf(a))
LogsExplainDiamonds ==
  \A a \in Agencies :
    books.diamonds[a] >= 0 /\ books.diamonds[a] + taken[a] = EarnedBy(a)

\* The rolling counter is the sum of the gifts whose commission stands: the
\* clamp at zero of a reversal never hides a gift (609-615, 765-772).
ThroughGifts(a) == SumFunctionOnSet([l \in Standing(a) |-> l.amount], Standing(a))
RollingMatchesLogs == \A a \in Agencies : books.rolling[a] = ThroughGifts(a)

\* The commission of a payment is reversed for all of its agencies or for none,
\* whatever their owners have withdrawn (658-661, 714-724).
ReversalIsWhole ==
  tx = None => \A g \in Gifts :
    (\E l \in Of(g) : Logged(l.agency, g, TRUE)) => \A l \in Of(g) : Logged(l.agency, g, TRUE)

\* An agency and the one below it never earn more on a payment than the rate
\* of the upper one gives (459-460): the lower one's rate is read after its
\* counter was raised, so it can only have grown (511-528).
AdjacentWithinParentsRate ==
  \A l \in books.logs : ~l.reversal /\ parent[l.agency] # None =>
    \A m \in Of(l.gift) : m.agency = parent[l.agency] =>
      100 * (l.earned + m.earned) <= l.amount * m.rate
=============================================================================
