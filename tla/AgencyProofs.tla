---------------------------- MODULE AgencyProofs ----------------------------
(***************************************************************************)
(* For every tree of agencies, any tiers, gifts, amounts and requests: the   *)
(* commission of a payment is reversed for all its agencies or for none, an  *)
(* agency and the one below it share no more than the upper one's rate, no   *)
(* owner's diamonds fall below zero; and with one request at a time a host    *)
(* enters an agency from none, is seen by its owner and never works for      *)
(* himself.                                                                 *)
(*                                                                         *)
(* MoneyInv is about the books and the one open transaction, and what a      *)
(* rollback would bring back; JobInv about the requests.                     *)
(***************************************************************************)
EXTENDS AgencyMembership, SumProofs, WellFoundedInduction, TLAPS

-----------------------------------------------------------------------------
(* Tiers and shares *)

LEMMA SmallestOf ==
  ASSUME NEW S \in SUBSET Nat, S # {}
  PROVE  \E n \in S : \A m \in S : n <= m
<1>1. PICK n \in S : \A m \in S : ~(<<m, n>> \in OpToRel(<, Nat))
  BY NatLessThanWellFounded, WFMin
<1>2. \A m \in S : ~(m < n)
  BY <1>1 DEF OpToRel
<1> QED BY <1>2

LEMMA TiersAre ==
  ASSUME TiersAssumption
  PROVE  /\ Levels = 1..Len(Tiers) /\ Len(Tiers) \in Nat
         /\ \A i \in Levels : Tiers[i].min \in Nat /\ Tiers[i].rate \in Nat
<1> DEFINE Tier == [min: Nat, rate: Nat]
<1>1. Tiers \in Seq(Tier)
  BY DEF TiersAssumption
<1>2. \A i \in Levels : Tiers[i] \in Tier
  <2> HIDE DEF Tier
  <2> QED BY <1>1 DEF Levels
<1>3. Levels = 1..Len(Tiers) /\ Len(Tiers) \in Nat
  <2> HIDE DEF Tier
  <2> QED BY <1>1 DEF Levels
<1>4. \A x \in Tier : x.min \in Nat /\ x.rate \in Nat
  OBVIOUS
<1>5. \A i \in Levels : Tiers[i].min \in Nat /\ Tiers[i].rate \in Nat
  <2> HIDE DEF Tier
  <2> QED BY <1>2, <1>4
<1> QED BY <1>3, <1>5

\* The tier of a count of diamonds is the highest one that is reached.
LEMMA TierReached ==
  ASSUME NEW n \in Nat, TiersAssumption
  PROVE  /\ TierOf(n) \in Levels
         /\ n >= Tiers[TierOf(n)].min
         /\ \A i \in Levels : n >= Tiers[i].min => i <= TierOf(n)
<1> DEFINE reached == {i \in Levels : n >= Tiers[i].min}
           bounds == {u \in Nat : \A i \in reached : i <= u}
<1>1. Levels = 1..Len(Tiers) /\ Len(Tiers) \in Nat
  BY TiersAre
<1>2. reached \subseteq Nat \ {0} /\ 1 \in reached
  BY <1>1 DEF TiersAssumption
<1>3. Len(Tiers) \in bounds
  BY <1>1
<1>4. PICK u \in bounds : \A v \in bounds : u <= v
  <2>1. bounds \in SUBSET Nat /\ bounds # {}
    BY <1>3
  <2> HIDE DEF bounds
  <2> QED BY <2>1, SmallestOf
<1>5. u \in reached
  <2>1. u \in Nat /\ u >= 1
    BY <1>2
  <2>2. u - 1 \in Nat /\ ~(u <= u - 1)
    BY <2>1
  <2>3. u - 1 \notin bounds
    <3> HIDE DEF bounds
    <3> QED BY <1>4, <2>2
  <2>5. PICK i \in reached : ~(i <= u - 1)
    BY <2>2, <2>3
  <2>4. i <= u /\ i \in Nat
    BY <1>2
  <2> QED BY <2>1, <2>4, <2>5
<1>6. \A i \in reached : u >= i
  BY <1>2
<1>7. TierOf(n) \in reached /\ \A i \in reached : TierOf(n) >= i
  <2>1. TierOf(n) = CHOOSE x \in reached : \A y \in reached : x >= y
    BY DEF TierOf, Max
  <2> HIDE DEF reached
  <2> QED BY <1>5, <1>6, <2>1
<1> QED BY <1>2, <1>7

\* Who has had more gifts earns no lower rate.
LEMMA RateGrows ==
  ASSUME NEW m \in Nat, NEW n \in Nat, m <= n, TiersAssumption
  PROVE  /\ Tiers[TierOf(m)].rate \in Nat
         /\ Tiers[TierOf(m)].rate <= Tiers[TierOf(n)].rate
<1>1. TierOf(m) \in Levels /\ TierOf(n) \in Levels /\ TierOf(m) <= TierOf(n)
  <2>1. TierOf(m) \in Levels /\ TierOf(n) \in Levels /\ m >= Tiers[TierOf(m)].min
    BY TierReached
  <2>2. \A i \in Levels : Tiers[i].min \in Nat
    BY TiersAre
  <2>3. n >= Tiers[TierOf(m)].min
    BY <2>1, <2>2
  <2> QED BY <2>1, <2>3, TierReached
<1>2. Levels = 1..Len(Tiers) /\ \A i \in Levels : Tiers[i].rate \in Nat
  BY TiersAre
<1>3. CASE TierOf(m) = TierOf(n)
  BY <1>1, <1>2, <1>3
<1>4. CASE TierOf(m) < TierOf(n)
  <2> DEFINE i == TierOf(m)
             j == TierOf(n)
  <2>1. i \in Levels /\ j \in Levels /\ i < j
    BY <1>1, <1>4
  <2> HIDE DEF i, j
  <2>2. Tiers[i].rate < Tiers[j].rate
    BY <2>1 DEF TiersAssumption
  <2>3. Tiers[i].rate \in Nat /\ Tiers[j].rate \in Nat
    BY <1>2, <2>1
  <2>4. Tiers[i].rate <= Tiers[j].rate
    BY <2>2, <2>3
  <2> QED BY <2>3, <2>4 DEF i, j
<1>5. TierOf(m) \in Int /\ TierOf(n) \in Int
  <2> DEFINE i == TierOf(m)
             j == TierOf(n)
             top == Len(Tiers)
  <2>1. i \in 1..top /\ j \in 1..top /\ top \in Nat
    BY <1>1, <1>2, TiersAre
  <2> HIDE DEF i, j, top
  <2>2. i \in Int /\ j \in Int
    BY <2>1
  <2> QED BY <2>2 DEF i, j
<1> QED BY <1>1, <1>3, <1>4, <1>5

\* A share is never more than what the difference of the two rates gives.
LEMMA ShareBound ==
  ASSUME NEW n \in Nat, NEW rate \in Nat, NEW sub \in Nat
  PROVE  Share(n, rate, sub) \in Int /\ 100 * Share(n, rate, sub) <= n * (rate - sub)
<1> DEFINE exact == n * (rate - sub)
<1>1. exact \in Int
  OBVIOUS
<1>2. Share(n, rate, sub) = exact \div 100 \/ Share(n, rate, sub) = (exact \div 100) - 1
  BY DEF Share
<1> HIDE DEF exact
<1>3. exact \div 100 \in Int /\ 100 * (exact \div 100) <= exact
  BY <1>1
<1>4. Share(n, rate, sub) \in Int /\ 100 * Share(n, rate, sub) <= exact
  BY <1>1, <1>2, <1>3
<1> QED BY <1>4 DEF exact

\* Two shares of the same amount, one rate above the other.
LEMMA SharesAdd ==
  ASSUME NEW n \in Nat, NEW low \in Nat, NEW lowSub \in Nat, NEW high \in Nat,
         NEW highSub \in Nat, low <= highSub,
         NEW e \in Int, NEW f \in Int,
         100 * e <= n * (low - lowSub), 100 * f <= n * (high - highSub)
  PROVE  100 * (e + f) <= n * high
<1> DEFINE k == highSub - low + lowSub
<1>1. k \in Nat
  OBVIOUS
<1>2. n * k \in Nat
  BY <1>1
<1>3. n * (low - lowSub) + n * (high - highSub) = n * high - n * k
  OBVIOUS
<1>4. n * high \in Int /\ n * (low - lowSub) \in Int /\ n * (high - highSub) \in Int
  OBVIOUS
<1> HIDE DEF k
<1> QED BY <1>2, <1>3, <1>4

-----------------------------------------------------------------------------
(* The books and the transaction *)

Money == <<agencies, parent, books, tx, gifts>>

MoneyTypes ==
  /\ agencies \subseteq Agencies /\ parent \in [Agencies -> agencies \cup {None}]
  /\ gifts \subseteq [gift: Gifts, host: Agencies, amount: Amounts]
  /\ books \in Books /\ tx \in {None} \cup Payments \cup Reversals

\* Nobody is above himself: each agency has a set of agencies above it.
Closed(S) == \A b \in S : parent[b] \in S \cup {None}
AboveIt(a, S) == Closed(S) /\ a \notin S /\ parent[a] \in S \cup {None}
TreeInv == \A a \in agencies : \E S \in SUBSET agencies : AboveIt(a, S)

\* l is the log of a commission on gift g in the books b.
Earned(b, l, g) == l \in b.logs /\ l.gift = g /\ ~l.reversal
Reversed(b, a, g) == \E l \in b.logs : l.agency = a /\ l.gift = g /\ l.reversal
Whole(b, g) == \A l, m \in b.logs :
  Earned(b, l, g) /\ Earned(b, m, g) /\ Reversed(b, l.agency, g) => Reversed(b, m.agency, g)

\* What a log gives, and what the logs of two agencies next to each other do.
SharesFit(b) ==
  /\ \A l \in b.logs : l.agency \in agencies
  /\ \A l \in b.logs : ~l.reversal => 100 * l.earned <= l.amount * (l.rate - l.sub)
  /\ \A l \in b.logs, m \in b.logs :
       ~l.reversal /\ parent[l.agency] # None /\ Earned(b, m, l.gift)
         /\ m.agency = parent[l.agency] =>
       100 * (l.earned + m.earned) <= l.amount * m.rate
Settled(b) ==
  /\ \A l \in b.logs : l.gift \in Paid
  /\ \A g \in Gifts : Whole(b, g)

BooksInv ==
  /\ SharesFit(books)
  /\ tx = None => Settled(books)
  /\ tx # None => SharesFit(tx.began) /\ Settled(tx.began)

\* The payment is at an agency that has no log of it, nor has any agency above;
\* of those with a log only the one below has this one as its parent.
Ahead(S) ==
  /\ Closed(S) /\ tx.at \in S
  /\ \A l \in books.logs : l.gift = tx.gift =>
       l.agency \notin S /\ (parent[l.agency] \in S => l.agency = tx.child)
PayInv == Paying =>
  /\ tx.gift \notin Paid
  /\ \A l \in books.logs : /\ l.gift \in Paid \cup {tx.gift} /\ (l.reversal => l.gift \in Paid)
                           /\ l.gift = tx.gift => l.amount = tx.amount /\ l.rate <= RateOf(l.agency)
  /\ \A g \in Gifts : Whole(books, g)
  /\ tx.child # None => parent[tx.child] = tx.at
  /\ \E S \in SUBSET agencies : Ahead(S)

\* What is no longer left of the payment has been reversed.
ReverseInv == Reversing =>
  /\ tx.gift \in Paid
  /\ \A l \in books.logs : l.gift \in Paid
  /\ \A g \in Gifts : g # tx.gift => Whole(books, g)
  /\ \A l \in tx.left : Earned(books, l, tx.gift)
  /\ \A l \in books.logs : Earned(books, l, tx.gift) /\ l \notin tx.left =>
       Reversed(books, l.agency, tx.gift)

MoneyInv == MoneyTypes /\ TreeInv /\ BooksInv /\ PayInv /\ ReverseInv

-----------------------------------------------------------------------------
(* The requests *)

HostPlaces == {"user", "agency", "write", "added", "profile", "clear", "removed"}
Request == [at: {"free", "parent", "insert", "role"} \cup HostPlaces,
            whom: Hosts \cup Agencies \cup {None}, agency: Agencies \cup {None},
            fresh: BOOLEAN]

JobTypes ==
  /\ profile \in [Hosts -> Agencies \cup {None, NoProfile}]
  /\ hosts \subseteq Hosts /\ view \in [Agencies -> SUBSET Hosts]
  /\ job \in [Calls -> Request]

PlaceOk(r) ==
  /\ r.at # "free" => r.agency \in Agencies
  /\ r.at \in {"parent", "insert"} => r.whom \in agencies \cup {None}
  /\ r.at = "role" => r.agency \in agencies
  /\ r.at \in HostPlaces => r.whom \in Hosts
PlacesInv == \A c \in Calls : PlaceOk(job[c])

\* With one request at a time, what a request has read still holds, an owner
\* who is still a host is about to give that up, and the owners' lists are as
\* the profiles are but for what the request is about to tell.
CheckHolds(r) ==
  /\ r.at \in {"agency", "write"} => r.whom \in hosts /\ profile[r.whom] \notin Agencies
  /\ r.at \in {"user", "write"} => r.agency \in agencies \ banned
  /\ r.at \in {"clear", "added"} => profile[r.whom] = r.agency
  /\ r.at = "removed" => profile[r.whom] # r.agency
Tells(r, l, a, h) == r.at = l /\ r.agency = a /\ r.whom = h
Solo(r) ==
  /\ CheckHolds(r)
  /\ \A a \in agencies \cap hosts : r.at = "role" /\ r.agency = a
  /\ \A h \in Hosts : profile[h] # h
  /\ \A a \in Agencies, h \in Hosts :
       h \in view[a] <=> (profile[h] = a /\ ~Tells(r, "added", a, h)) \/ Tells(r, "removed", a, h)

Alone(c) == \A d \in Calls : d # c => At(d, "free")
CalmInv == calm =>
  /\ \A c \in Calls : ~At(c, "free") => Alone(c)
  /\ \A c \in Calls : Alone(c) => Solo(job[c])
  /\ Quiet => Solo(Free)

JobInv == JobTypes /\ PlacesInv /\ CalmInv
AgencyInv == MoneyInv /\ JobInv

-----------------------------------------------------------------------------
(* A step that keeps the money, and one that ends the transaction *)

LEMMA BooksAre ==
  ASSUME NEW b \in Books
  PROVE  /\ b.diamonds \in [Agencies -> Nat] /\ b.rolling \in [Agencies -> Nat]
         /\ b.level \in [Agencies -> Levels] /\ b.logs \in SUBSET Log
BY DEF Books

LEMMA LogsAre ==
  ASSUME NEW l \in Log, NumbersAssumption
  PROVE  /\ l.agency \in Agencies /\ l.gift \in Gifts /\ l.amount \in Amounts
         /\ l.amount \in Nat /\ l.rate \in Nat /\ l.sub \in Nat
         /\ l.earned \in Int /\ l.reversal \in BOOLEAN
BY DEF Log, NumbersAssumption

LEMMA TxIs ==
  ASSUME MoneyTypes
  PROVE  /\ tx # None => tx.began \in Books
         /\ Paying => /\ tx \in Payments /\ tx.kind = "pay" /\ tx.gift \in Gifts
                      /\ tx.amount \in Amounts /\ tx.at \in Agencies /\ tx.host \in Agencies
                      /\ tx.child \in Agencies \cup {None} /\ tx # None
         /\ Reversing => /\ tx \in Reversals /\ tx.kind = "reverse" /\ tx.gift \in Gifts
                         /\ tx.left \in SUBSET Log /\ tx # None
BY DEF MoneyTypes, Payments, Reversals, Paying, Reversing

LEMMA RecordIsNoNone ==
  ASSUME NoneAssumption, NEW r \in Payments \cup Reversals
  PROVE  r # None
BY DEF NoneAssumption

LEMMA MoneyStands ==
  ASSUME MoneyInv, UNCHANGED Money
  PROVE  MoneyInv'
<1>1. MoneyTypes'
  BY DEF MoneyInv, Money, MoneyTypes
<1>2. TreeInv'
  BY DEF MoneyInv, Money, TreeInv, AboveIt, Closed
<1>3. BooksInv'
  BY DEF MoneyInv, Money, BooksInv, SharesFit, Settled, Paid
<1>4. PayInv'
  <2>1. Paying' = Paying /\ Paid' = Paid /\ tx' = tx /\ books' = books /\ agencies' = agencies
    BY DEF Money, Paying, Paid
  <2>2. \A S \in SUBSET agencies : Ahead(S) => Ahead(S)'
    BY DEF Money, Ahead, Closed
  <2>3. \A l \in books.logs : RateOf(l.agency)' = RateOf(l.agency)
    BY <2>1 DEF RateOf
  <2>4. parent' = parent
    BY DEF Money
  <2> QED BY <2>1, <2>2, <2>3, <2>4 DEF MoneyInv, PayInv
<1>5. ReverseInv'
  BY DEF MoneyInv, Money, ReverseInv, Reversing, Paid
<1> QED BY <1>1, <1>2, <1>3, <1>4, <1>5 DEF MoneyInv

LEMMA MoneySettles ==
  ASSUME MoneyInv, agencies' = agencies, parent' = parent, tx' = None,
         gifts' \subseteq [gift: Gifts, host: Agencies, amount: Amounts],
         books' \in Books, SharesFit(books)', Settled(books)'
  PROVE  MoneyInv'
<1>1. MoneyTypes' /\ TreeInv'
  BY DEF MoneyInv, MoneyTypes, TreeInv, AboveIt, Closed
<1>2. BooksInv' /\ PayInv' /\ ReverseInv'
  BY DEF BooksInv, PayInv, ReverseInv, Paying, Reversing
<1> QED BY <1>1, <1>2 DEF MoneyInv

LEMMA MoneyAborts ==
  ASSUME MoneyInv, tx # None, Abort, UNCHANGED <<agencies, parent, gifts>>
  PROVE  MoneyInv'
<1>1. books' \in Books
  BY TxIs DEF MoneyInv, Abort
<1>2. SharesFit(tx.began) /\ Settled(tx.began)
  BY DEF MoneyInv, BooksInv
<1>3. SharesFit(books)' /\ Settled(books)'
  BY <1>2 DEF Abort, SharesFit, Settled, Paid, Whole, Earned, Reversed
<1>4. tx' = None /\ agencies' = agencies /\ parent' = parent
      /\ gifts' \subseteq [gift: Gifts, host: Agencies, amount: Amounts]
  BY DEF MoneyInv, MoneyTypes, Abort
<1> QED BY <1>1, <1>3, <1>4, MoneySettles

LEMMA PaidGrows ==
  ASSUME PaidNow
  PROVE  Paid' = Paid \cup {tx.gift}
<1> DEFINE new == [gift |-> tx.gift, host |-> tx.host, amount |-> tx.amount]
<1>1. new.gift = tx.gift /\ gifts' = gifts \cup {new}
  BY DEF PaidNow
<1> HIDE DEF new
<1> QED BY <1>1 DEF Paid


-----------------------------------------------------------------------------
(* A payment *)

\* What the books may be once the agency the payment is at has been dealt with.
Served(b) ==
  /\ \A l \in b.logs : l \in books.logs \/ l.agency = tx.at
  /\ \A l \in b.logs : l.gift \in Paid \cup {tx.gift} /\ (l.reversal => l.gift \in Paid)
  /\ \A l \in b.logs : l.gift = tx.gift => l.amount = tx.amount
  /\ \A g \in Gifts : Whole(b, g)

LEMMA PaymentCommits ==
  ASSUME MoneyInv, Paying, Commit, PaidNow, agencies' = agencies, parent' = parent,
         books' \in Books, SharesFit(books)', Served(books')
  PROVE  MoneyInv'
<1>1. Paid' = Paid \cup {tx.gift}
  BY PaidGrows
<1>2. Settled(books)'
  BY <1>1 DEF Settled, Served, Whole, Earned, Reversed
<1>3. gifts' \subseteq [gift: Gifts, host: Agencies, amount: Amounts]
  BY TxIs DEF PaidNow, MoneyInv, MoneyTypes
<1> QED BY <1>2, <1>3, MoneySettles DEF Commit

LEMMA PaymentClimbs ==
  ASSUME MoneyInv, Paying, NoneAssumption, parent[tx.at] # None,
         tx' = [tx EXCEPT !.at = parent[tx.at], !.child = tx.at],
         UNCHANGED <<agencies, parent, gifts>>,
         books' \in Books, SharesFit(books)', Served(books'),
         \A l \in books'.logs : l.gift = tx.gift => l.rate <= RateOf(l.agency)'
  PROVE  MoneyInv'
<1>1. PICK S \in SUBSET agencies : Ahead(S)
  BY DEF MoneyInv, PayInv
<1> DEFINE up == parent[tx.at]
<1>2. tx.at \in agencies /\ agencies \subseteq Agencies /\ up \in agencies
  BY <1>1 DEF MoneyInv, MoneyTypes, Ahead
<1>3. PICK T \in SUBSET agencies : AboveIt(tx.at, T)
  BY <1>2 DEF MoneyInv, TreeInv
<1>4. tx \in Payments
  BY TxIs DEF MoneyInv
<1>5. /\ tx' \in Payments /\ tx'.at = up /\ tx'.child = tx.at /\ tx'.gift = tx.gift
      /\ tx'.amount = tx.amount /\ tx'.began = tx.began /\ tx'.kind = "pay"
  <2> DEFINE t == [tx EXCEPT !.at = up, !.child = tx.at]
  <2>1. tx' = t
    OBVIOUS
  <2>2. up \in Agencies /\ tx.at \in Agencies
    BY <1>2
  <2>3. /\ t \in Payments /\ t.at = up /\ t.child = tx.at /\ t.gift = tx.gift
        /\ t.amount = tx.amount /\ t.began = tx.began /\ t.kind = "pay"
    <3> HIDE DEF up
    <3> QED BY <1>4, <2>2 DEF Payments
  <2> HIDE DEF t
  <2> QED BY <2>1, <2>3
<1>6. tx' # None /\ tx # None
  BY <1>5, RecordIsNoNone DEF Paying
<1>7. MoneyTypes' /\ TreeInv'
  BY <1>5 DEF MoneyInv, MoneyTypes, TreeInv, AboveIt, Closed
<1>8. BooksInv'
  <2>1. SharesFit(tx.began) /\ Settled(tx.began)
    BY <1>6 DEF MoneyInv, BooksInv
  <2>2. SharesFit(tx.began)' /\ Settled(tx.began)'
    BY <2>1, <1>5 DEF SharesFit, Settled, Paid, Whole, Earned, Reversed
  <2> QED BY <2>2, <1>6 DEF BooksInv
<1>9. PayInv'
  <2>1. Paid' = Paid
    BY DEF Paid
  <2>2. tx.gift \notin Paid
    BY DEF MoneyInv, PayInv
  <2>3. /\ \A l \in books'.logs : l.gift \in Paid \cup {tx.gift} /\ (l.reversal => l.gift \in Paid)
        /\ \A l \in books'.logs : l.gift = tx.gift => l.amount = tx.amount /\ l.rate <= RateOf(l.agency)'
        /\ \A g \in Gifts : Whole(books', g)
    BY DEF Served
  <2>4. (\A g \in Gifts : Whole(books, g))'
    BY <2>3 DEF Whole, Earned, Reversed
  <2>5. Ahead(S \cap T)'
    <3>1. Closed(S \cap T)'
      BY <1>1, <1>3 DEF Ahead, AboveIt, Closed
    <3>2. up \in S \cap T
      BY <1>1, <1>2, <1>3 DEF Ahead, AboveIt, Closed
    <3>3. ASSUME NEW l \in books'.logs, l.gift = tx.gift
          PROVE  l.agency \notin S \cap T /\ (parent[l.agency] \in S \cap T => l.agency = tx.at)
      <4>1. CASE l.agency = tx.at
        BY <4>1, <1>3 DEF AboveIt
      <4>2. CASE l.agency # tx.at
        <5>1. l \in books.logs
          BY <4>2 DEF Served
        <5>2. l.agency \notin S /\ (parent[l.agency] \in S => l.agency = tx.child)
          BY <5>1, <3>3, <1>1 DEF Ahead
        <5>3. l.agency \in agencies
          BY <5>1 DEF MoneyInv, BooksInv, SharesFit
        <5>4. l.agency # None
          BY <5>3, <1>2 DEF NoneAssumption
        <5>5. tx.child # None => parent[tx.child] = tx.at
          BY DEF MoneyInv, PayInv
        <5>6. parent[l.agency] \notin S \cap T
          BY <5>2, <5>4, <5>5, <1>3 DEF AboveIt
        <5> QED BY <5>2, <5>6
      <4> QED BY <4>1, <4>2
    <3> QED BY <3>1, <3>2, <3>3, <1>5 DEF Ahead
  <2>6. S \cap T \in SUBSET agencies'
    OBVIOUS
  <2>7. (tx.child # None => parent[tx.child] = tx.at)'
    BY <1>5
  <2> QED BY <1>5, <2>1, <2>2, <2>3, <2>4, <2>5, <2>6, <2>7 DEF PayInv
<1>10. ReverseInv'
  BY <1>5 DEF ReverseInv, Reversing
<1> QED BY <1>7, <1>8, <1>9, <1>10 DEF MoneyInv

LEMMA KeptServes ==
  ASSUME MoneyInv, Paying, books' = books
  PROVE  Served(books') /\ books' \in Books
         /\ \A l \in books'.logs : l.gift = tx.gift => l.rate <= RateOf(l.agency)'
BY DEF MoneyInv, MoneyTypes, PayInv, Served, RateOf

LEMMA StopClimbingStep ==
  ASSUME MoneyInv, StopClimbing
  PROVE  MoneyInv'
<1>1. SharesFit(books)'
  BY DEF StopClimbing, MoneyInv, BooksInv, SharesFit
<1> QED BY <1>1, KeptServes, PaymentCommits DEF StopClimbing

LEMMA PassOverStep ==
  ASSUME MoneyInv, NoneAssumption, PassOver
  PROVE  MoneyInv'
<1>1. SharesFit(books)'
  BY DEF PassOver, MoneyInv, BooksInv, SharesFit
<1>2. CASE parent[tx.at] = None
  BY <1>1, <1>2, KeptServes, PaymentCommits DEF PassOver, Climb
<1>3. CASE parent[tx.at] # None
  BY <1>1, <1>3, KeptServes, PaymentClimbs DEF PassOver, Climb
<1> QED BY <1>2, <1>3

LEMMA RatesAre ==
  ASSUME MoneyInv, TiersAssumption
  PROVE  /\ \A a \in Agencies : RateOf(a) \in Nat
         /\ Paying => SubRate \in Nat
<1>1. \A a \in Agencies : books.rolling[a] \in Nat
  BY BooksAre DEF MoneyInv, MoneyTypes
<1>2. \A a \in Agencies : RateOf(a) \in Nat
  BY <1>1, RateGrows DEF RateOf
<1>3. Paying => tx.child \in Agencies \cup {None}
  BY TxIs DEF MoneyInv
<1> QED BY <1>2, <1>3 DEF SubRate

LEMMA BooksCredited ==
  ASSUME NEW b \in Books, NEW a \in Agencies, NEW e \in Nat, TiersAssumption,
         Commission(a, e) \in Log, tx.amount \in Nat
  PROVE  /\ Credited(b, a, e) \in Books
         /\ Credited(b, a, e).logs = b.logs \cup {Commission(a, e)}
         /\ \A x \in Agencies : Credited(b, a, e).rolling[x] =
              IF x = a THEN b.rolling[a] + tx.amount ELSE b.rolling[x]
         /\ \A x \in Agencies : Credited(b, a, e).diamonds[x] =
              IF x = a THEN b.diamonds[a] + e ELSE b.diamonds[x]
<1> DEFINE c == Credited(b, a, e)
           new == Commission(a, e)
           tier == TierOf(b.rolling[a] + tx.amount)
<1>1. /\ b.diamonds \in [Agencies -> Nat] /\ b.rolling \in [Agencies -> Nat]
      /\ b.level \in [Agencies -> Levels] /\ b.logs \in SUBSET Log
  BY BooksAre
<1>2. tier \in Levels
  <2>1. b.rolling[a] + tx.amount \in Nat
    BY <1>1
  <2> QED BY <2>1, TierReached
<1>3. c = [diamonds |-> [b.diamonds EXCEPT ![a] = @ + e],
           rolling |-> [b.rolling EXCEPT ![a] = @ + tx.amount],
           level |-> [b.level EXCEPT ![a] = tier],
           logs |-> b.logs \cup {new}]
  BY DEF Credited
<1> HIDE DEF tier, new, c
<1>6. new \in Log
  BY DEF new
<1>7. c \in Books /\ c.logs = b.logs \cup {new}
  BY <1>1, <1>2, <1>3, <1>6 DEF Books
<1>8. \A x \in Agencies : c.rolling[x] = IF x = a THEN b.rolling[a] + tx.amount ELSE b.rolling[x]
  BY <1>1, <1>3
<1>9. \A x \in Agencies : c.diamonds[x] = IF x = a THEN b.diamonds[a] + e ELSE b.diamonds[x]
  BY <1>1, <1>3
<1> QED BY <1>7, <1>8, <1>9 DEF c, new

LEMMA CreditCommissionStep ==
  ASSUME MoneyInv, NoneAssumption, NumbersAssumption, TiersAssumption, CreditCommission
  PROVE  MoneyInv'
<1> DEFINE a == tx.at
           g == tx.gift
           n == tx.amount
           e == Share(n, RateOf(a), SubRate)
           new == Commission(a, e)
<1>1. /\ tx \in Payments /\ g \in Gifts /\ n \in Amounts /\ n \in Nat /\ a \in Agencies
      /\ tx.child \in Agencies \cup {None} /\ tx # None /\ Paying
  BY TxIs DEF MoneyInv, NumbersAssumption, CreditCommission
<1>2. RateOf(a) \in Nat /\ SubRate \in Nat
  BY <1>1, RatesAre
<1>3. e \in Nat /\ 100 * e <= n * (RateOf(a) - SubRate)
  <2>1. e \in Int /\ 100 * e <= n * (RateOf(a) - SubRate)
    BY <1>1, <1>2, ShareBound
  <2>2. e > 0
    BY DEF CreditCommission
  <2> HIDE DEF e
  <2> QED BY <2>1, <2>2
<1>4. /\ new \in Log /\ new.agency = a /\ new.gift = g /\ new.amount = n /\ new.rate = RateOf(a)
      /\ new.sub = SubRate /\ new.earned = e /\ ~new.reversal
  <2> HIDE DEF e
  <2> QED BY <1>1, <1>2, <1>3 DEF Commission, Log
<1>5. /\ books' \in Books /\ books'.logs = books.logs \cup {new}
      /\ \A x \in Agencies : books'.rolling[x] = IF x = a THEN books.rolling[a] + n
                                                 ELSE books.rolling[x]
  <2>1. books' = Credited(books, a, e) /\ books \in Books
    BY DEF CreditCommission, MoneyInv, MoneyTypes
  <2> HIDE DEF e, a
  <2>2. /\ Credited(books, a, e) \in Books
        /\ Credited(books, a, e).logs = books.logs \cup {Commission(a, e)}
        /\ \A x \in Agencies : Credited(books, a, e).rolling[x] =
              IF x = a THEN books.rolling[a] + tx.amount ELSE books.rolling[x]
    BY <2>1, <1>1, <1>3, <1>4, BooksCredited
  <2> QED BY <2>1, <2>2
<1> HIDE DEF e, new
<1>6. agencies' = agencies /\ parent' = parent /\ Climb
  BY DEF CreditCommission
<1>7. PICK S \in SUBSET agencies : Ahead(S)
  BY <1>1 DEF MoneyInv, PayInv
<1>8. a \in agencies /\ agencies \subseteq Agencies /\ parent[a] # a /\ None \notin agencies
  <2>1. a \in agencies /\ agencies \subseteq Agencies /\ None \notin agencies
    BY <1>7 DEF MoneyInv, MoneyTypes, Ahead, NoneAssumption
  <2>2. PICK T \in SUBSET agencies : AboveIt(a, T)
    BY <2>1 DEF MoneyInv, TreeInv
  <2> QED BY <2>1, <2>2 DEF AboveIt
<1>9. \A l \in books.logs :
        /\ l \in Log /\ l.agency \in agencies
        /\ l.gift \in Paid \cup {g} /\ (l.reversal => l.gift \in Paid)
        /\ l.gift = g => l.amount = n /\ l.rate <= RateOf(l.agency) /\ l.agency # a
  BY <1>1, <1>7 DEF MoneyInv, MoneyTypes, BooksInv, SharesFit, Books, PayInv, Ahead
<1>10. SharesFit(books)'
  <2>1. \A l \in books'.logs : l.agency \in agencies
    BY <1>4, <1>5, <1>8, <1>9
  <2>2. \A l \in books'.logs : ~l.reversal => 100 * l.earned <= l.amount * (l.rate - l.sub)
    BY <1>3, <1>4, <1>5 DEF MoneyInv, BooksInv, SharesFit
  <2>3. ASSUME NEW l \in books'.logs, NEW m \in books'.logs, ~l.reversal, ~m.reversal,
               parent[l.agency] # None, m.gift = l.gift, m.agency = parent[l.agency]
        PROVE  100 * (l.earned + m.earned) <= l.amount * m.rate
    <3>1. CASE l \in books.logs /\ m \in books.logs
      BY <2>3, <3>1 DEF MoneyInv, BooksInv, SharesFit, Earned
    <3>2. CASE l = new /\ m \in books.logs
      <4>1. m.gift = g /\ m.agency = parent[a]
        BY <2>3, <3>2, <1>4
      <4>2. m.agency \notin S
        BY <3>2, <4>1, <1>7 DEF Ahead
      <4>3. parent[a] \in S
        BY <1>7, <2>3, <3>2, <1>4 DEF Ahead, Closed
      <4> QED BY <4>1, <4>2, <4>3
    <3>3. CASE l \in books.logs /\ m = new
      <4>1. l.gift = g /\ parent[l.agency] = a
        BY <2>3, <3>3, <1>4
      <4>2. l.agency = tx.child
        BY <3>3, <4>1, <1>7 DEF Ahead
      <4>3. l \in Log /\ l.amount = n /\ l.rate <= RateOf(l.agency) /\ l.agency # None
        BY <3>3, <4>1, <1>8, <1>9
      <4>4. l.rate <= SubRate
        BY <4>2, <4>3 DEF SubRate
      <4>5. l.rate \in Nat /\ l.sub \in Nat /\ l.earned \in Int
        BY <4>3, LogsAre
      <4>6. 100 * l.earned <= n * (l.rate - l.sub)
        BY <3>3, <4>3, <2>3 DEF MoneyInv, BooksInv, SharesFit
      <4>7. e \in Int
        BY <1>3
      <4>8. 100 * (l.earned + e) <= n * RateOf(a)
        BY <1>1, <1>2, <1>3, <4>4, <4>5, <4>6, <4>7, SharesAdd
      <4> QED BY <4>3, <4>8, <3>3, <1>4
    <3>4. CASE l = new /\ m = new
      BY <2>3, <3>4, <1>4, <1>8
    <3> QED BY <3>1, <3>2, <3>3, <3>4, <1>5
  <2>4. \A l, m \in books'.logs :
          ~l.reversal /\ parent[l.agency] # None /\ Earned(books', m, l.gift)
            /\ m.agency = parent[l.agency] =>
          100 * (l.earned + m.earned) <= l.amount * m.rate
    BY <2>3 DEF Earned
  <2> QED BY <2>1, <2>2, <2>4, <1>6 DEF SharesFit, Earned
<1>11. Served(books')
  <2>1. g \notin Paid
    BY <1>1 DEF MoneyInv, PayInv
  <2>2. \A h \in Gifts : Whole(books, h)
    BY <1>1 DEF MoneyInv, PayInv
  <2>3. \A h \in Gifts : Whole(books', h)
    <3>1. \A x, h : Reversed(books', x, h) <=> Reversed(books, x, h)
      BY <1>4, <1>5 DEF Reversed
    <3>2. \A x : ~Reversed(books, x, g)
      BY <2>1, <1>9 DEF Reversed
    <3>3. \A h, l : h # g /\ Earned(books', l, h) => Earned(books, l, h)
      BY <1>4, <1>5 DEF Earned
    <3>4. \A l, h : Earned(books', l, h) => l \in books'.logs
      BY DEF Earned
    <3>5. \A l, h : Earned(books, l, h) => l \in books.logs
      BY DEF Earned
    <3> QED BY <2>2, <3>1, <3>2, <3>3, <3>4, <3>5 DEF Whole
  <2> QED BY <2>3, <1>4, <1>5, <1>9 DEF Served
<1>12. ASSUME NEW l \in books'.logs, l.gift = g
       PROVE  l.rate <= RateOf(l.agency)'
  <2>1. \A x \in Agencies : books.rolling[x] \in Nat
    BY BooksAre DEF MoneyInv, MoneyTypes
  <2>2. \A x \in Agencies : books'.rolling[x] \in Nat /\ books.rolling[x] <= books'.rolling[x]
    BY <1>1, <1>5, <2>1
  <2>3. \A x \in Agencies : RateOf(x) <= RateOf(x)' /\ RateOf(x) \in Nat /\ RateOf(x)' \in Nat
    BY <2>1, <2>2, RateGrows DEF RateOf
  <2>4. l \in Log /\ l.agency \in Agencies /\ l.rate \in Nat
    BY <1>4, <1>5, <1>9, LogsAre
  <2>5. l.rate <= RateOf(l.agency)
    BY <1>2, <1>4, <1>5, <1>9, <1>12
  <2> QED BY <2>3, <2>4, <2>5
<1>13. CASE parent[a] = None
  BY <1>1, <1>5, <1>6, <1>10, <1>11, <1>13, PaymentCommits DEF Climb
<1>14. CASE parent[a] # None
  BY <1>1, <1>5, <1>6, <1>10, <1>11, <1>12, <1>14, PaymentClimbs DEF Climb
<1> QED BY <1>13, <1>14

-----------------------------------------------------------------------------
(* A reversal *)

LEMMA BooksUndone ==
  ASSUME NEW b \in Books, NEW l \in b.logs, b.diamonds[l.agency] >= l.earned,
         NumbersAssumption
  PROVE  \E r \in Log :
           /\ r.agency = l.agency /\ r.gift = l.gift /\ r.reversal /\ r.earned = -l.earned
           /\ Undone(b, l) \in Books
           /\ Undone(b, l).logs = b.logs \cup {r}
           /\ \A x \in Agencies : Undone(b, l).diamonds[x] =
                IF x = l.agency THEN b.diamonds[x] - l.earned ELSE b.diamonds[x]
           /\ \A x \in Agencies : x # l.agency => Undone(b, l).rolling[x] = b.rolling[x]
           /\ l.amount <= b.rolling[l.agency] =>
                Undone(b, l).rolling[l.agency] = b.rolling[l.agency] - l.amount
<1> DEFINE a == l.agency
           r == [agency |-> l.agency, gift |-> l.gift, amount |-> l.amount, rate |-> l.rate,
                 sub |-> l.sub, earned |-> -l.earned, reversal |-> TRUE]
           c == Undone(b, l)
           least == Min({l.amount, b.rolling[a]})
<1>1. /\ b.diamonds \in [Agencies -> Nat] /\ b.rolling \in [Agencies -> Nat]
      /\ b.level \in [Agencies -> Levels] /\ b.logs \in SUBSET Log
  BY BooksAre
<1>2. /\ l.agency \in Agencies /\ l.gift \in Gifts /\ l.amount \in Amounts
      /\ l.amount \in Nat /\ l.rate \in Nat /\ l.sub \in Nat /\ l.earned \in Int
  BY <1>1, LogsAre
<1>3. /\ r \in Log /\ r.agency = l.agency /\ r.gift = l.gift /\ r.reversal
      /\ r.earned = -l.earned
  BY <1>2 DEF Log
<1>4. b.diamonds[a] - l.earned \in Nat /\ b.rolling[a] \in Nat
  BY <1>1, <1>2
<1>5. b.rolling[a] - least \in Nat /\ (l.amount <= b.rolling[a] => least = l.amount)
  <2> DEFINE pair == {l.amount, b.rolling[a]}
  <2>1. \E x \in pair : \A y \in pair : x <= y
    BY <1>2, <1>4
  <2>2. least \in pair /\ \A y \in pair : least <= y
    <3>1. least = CHOOSE x \in pair : \A y \in pair : x <= y
      BY DEF Min
    <3> HIDE DEF pair
    <3> QED BY <2>1, <3>1
  <2>3. /\ least \in Nat /\ least <= b.rolling[a]
        /\ l.amount <= b.rolling[a] => least = l.amount
    BY <1>2, <1>4, <2>2
  <2> HIDE DEF least
  <2> QED BY <1>4, <2>3
<1>6. c = [diamonds |-> [b.diamonds EXCEPT ![a] = @ - l.earned],
           rolling |-> [b.rolling EXCEPT ![a] = @ - least],
           level |-> b.level, logs |-> b.logs \cup {r}]
  BY <1>1, <1>2 DEF Undone
<1> HIDE DEF r, c, least
<1>7. c \in Books /\ c.logs = b.logs \cup {r}
  BY <1>1, <1>2, <1>3, <1>4, <1>5, <1>6 DEF Books
<1>8. \A x \in Agencies : c.diamonds[x] = IF x = a THEN b.diamonds[x] - l.earned ELSE b.diamonds[x]
  BY <1>1, <1>2, <1>6
<1>9. /\ \A x \in Agencies : x # a => c.rolling[x] = b.rolling[x]
      /\ l.amount <= b.rolling[a] => c.rolling[a] = b.rolling[a] - l.amount
  BY <1>1, <1>2, <1>5, <1>6
<1> QED BY <1>3, <1>7, <1>8, <1>9 DEF c

LEMMA WithoutOne ==
  ASSUME MoneyTypes, Reversing, NEW l \in tx.left
  PROVE  LET u == Without(l)
         IN /\ u \in Reversals /\ u.left = tx.left \ {l} /\ u.gift = tx.gift
            /\ u.began = tx.began /\ u.kind = "reverse"
<1>1. tx \in Reversals
  BY TxIs
<1> QED BY <1>1 DEF Without, Reversals

LEMMA ReversalGoesOn ==
  ASSUME MoneyInv, Reversing, NoneAssumption, NEW l \in tx.left, tx' = Without(l),
         UNCHANGED <<agencies, parent, gifts>>,
         books' \in Books, SharesFit(books)',
         \A m \in books'.logs : m.gift \in Paid,
         \A m, g : Earned(books', m, g) <=> Earned(books, m, g),
         \A a, g : Reversed(books, a, g) => Reversed(books', a, g),
         \A a, g : Reversed(books', a, g) /\ g # tx.gift => Reversed(books, a, g),
         Reversed(books', l.agency, tx.gift)
  PROVE  MoneyInv'
<1>1. /\ tx' \in Reversals /\ tx'.left = tx.left \ {l} /\ tx'.gift = tx.gift
      /\ tx'.began = tx.began /\ tx'.kind = "reverse"
  <2> DEFINE u == Without(l)
  <2>1. /\ u \in Reversals /\ u.left = tx.left \ {l} /\ u.gift = tx.gift
        /\ u.began = tx.began /\ u.kind = "reverse"
    BY WithoutOne DEF MoneyInv
  <2>2. tx' = u
    OBVIOUS
  <2> HIDE DEF u
  <2> QED BY <2>1, <2>2
<1>2. tx # None /\ tx' # None
  BY <1>1, RecordIsNoNone DEF Reversing
<1>3. MoneyTypes' /\ TreeInv'
  BY <1>1 DEF MoneyInv, MoneyTypes, TreeInv, AboveIt, Closed
<1>4. BooksInv'
  <2>1. SharesFit(tx.began) /\ Settled(tx.began)
    BY <1>2 DEF MoneyInv, BooksInv
  <2>2. SharesFit(tx.began)' /\ Settled(tx.began)'
    BY <2>1, <1>1 DEF SharesFit, Settled, Paid, Whole, Earned, Reversed
  <2> QED BY <2>2, <1>2 DEF BooksInv
<1>5. PayInv'
  BY <1>1 DEF PayInv, Paying
<1>6. ReverseInv'
  <2>1. Paid' = Paid
    BY DEF Paid
  <2>2. /\ tx.gift \in Paid
        /\ \A g \in Gifts : g # tx.gift => Whole(books, g)
        /\ \A m \in tx.left : Earned(books, m, tx.gift)
        /\ \A m \in books.logs : Earned(books, m, tx.gift) /\ m \notin tx.left =>
             Reversed(books, m.agency, tx.gift)
    BY DEF MoneyInv, ReverseInv
  <2>3. \A m, b, g : Earned(b, m, g) => m \in b.logs
    BY DEF Earned
  <2>4. \A g \in Gifts : g # tx.gift => Whole(books', g)
    BY <2>2, <2>3 DEF Whole
  <2>5. (\A g \in Gifts : g # tx.gift => Whole(books, g))'
    BY <2>4, <1>1 DEF Whole, Earned, Reversed
  <2>6. (\A m \in tx.left : Earned(books, m, tx.gift))'
    BY <2>2, <1>1 DEF Earned
  <2>7. \A m \in books'.logs : Earned(books', m, tx.gift) /\ m \notin tx'.left =>
             Reversed(books', m.agency, tx.gift)
    BY <2>2, <2>3, <1>1
  <2>8. (\A m \in books.logs : Earned(books, m, tx.gift) /\ m \notin tx.left =>
             Reversed(books, m.agency, tx.gift))'
    BY <2>7, <1>1 DEF Earned, Reversed
  <2> QED BY <2>1, <2>2, <2>5, <2>6, <2>8, <1>1 DEF ReverseInv
<1> QED BY <1>3, <1>4, <1>5, <1>6 DEF MoneyInv

LEMMA LeftIs ==
  ASSUME MoneyInv, Reversing, NEW l \in tx.left
  PROVE  l \in books.logs /\ l \in Log /\ l.gift = tx.gift /\ ~l.reversal
BY DEF MoneyInv, MoneyTypes, Books, ReverseInv, Earned

LEMMA SkipReversedStep ==
  ASSUME MoneyInv, NoneAssumption, NEW l \in tx.left, SkipReversed(l)
  PROVE  MoneyInv'
<1>1. Reversing /\ books' = books /\ tx' = Without(l) /\ UNCHANGED <<agencies, parent, gifts>>
  BY DEF SkipReversed
<1>2. Reversed(books, l.agency, tx.gift)
  BY <1>1, LeftIs DEF SkipReversed, Logged, Reversed
<1>3. SharesFit(books)' /\ books' \in Books
  BY <1>1 DEF MoneyInv, MoneyTypes, BooksInv, SharesFit
<1>4. \A m \in books'.logs : m.gift \in Paid
  BY <1>1 DEF MoneyInv, ReverseInv
<1> QED BY <1>1, <1>2, <1>3, <1>4, ReversalGoesOn

LEMMA ReverseLogStep ==
  ASSUME MoneyInv, NoneAssumption, NumbersAssumption, NEW l \in tx.left, ReverseLog(l)
  PROVE  MoneyInv'
<1>1. Reversing /\ tx' = Without(l) /\ UNCHANGED <<agencies, parent, gifts>>
  BY DEF ReverseLog
<1>2. l \in books.logs /\ l \in Log /\ l.gift = tx.gift /\ ~l.reversal
  BY <1>1, LeftIs
<1>3. books \in Books
  BY DEF MoneyInv, MoneyTypes
<1>4. PICK r \in Log : /\ r.agency = l.agency /\ r.gift = l.gift /\ r.reversal
                       /\ books' \in Books
                       /\ books'.logs = books.logs \cup {r}
  <2>1. books.diamonds[l.agency] >= l.earned /\ books' = Undone(books, l)
    BY DEF ReverseLog
  <2> QED BY <1>2, <1>3, <2>1, BooksUndone
<1>5. \A m, g : Earned(books', m, g) <=> Earned(books, m, g)
  BY <1>4 DEF Earned
<1>6. /\ \A a, g : Reversed(books, a, g) => Reversed(books', a, g)
      /\ \A a, g : Reversed(books', a, g) /\ g # tx.gift => Reversed(books, a, g)
      /\ Reversed(books', l.agency, tx.gift)
  BY <1>2, <1>4 DEF Reversed
<1>7. \A m \in books'.logs : m.gift \in Paid
  BY <1>1, <1>2, <1>4 DEF MoneyInv, ReverseInv
<1>8. SharesFit(books)'
  BY <1>1, <1>2, <1>4 DEF MoneyInv, BooksInv, SharesFit, Earned
<1> QED BY <1>1, <1>4, <1>5, <1>6, <1>7, <1>8, ReversalGoesOn

LEMMA CommitReversalStep ==
  ASSUME MoneyInv, CommitReversal
  PROVE  MoneyInv'
<1>1. Reversing /\ tx.left = {} /\ books' = books /\ gifts' = gifts
      /\ agencies' = agencies /\ parent' = parent /\ tx' = None
  BY DEF CommitReversal, Commit
<1>2. SharesFit(books)' /\ books' \in Books
      /\ gifts' \subseteq [gift: Gifts, host: Agencies, amount: Amounts]
  BY <1>1 DEF MoneyInv, MoneyTypes, BooksInv, SharesFit
<1>3. Whole(books, tx.gift)
  BY <1>1 DEF MoneyInv, ReverseInv, Whole
<1>4. Settled(books)
  BY <1>1, <1>3 DEF MoneyInv, ReverseInv, Settled
<1>5. Settled(books)'
  BY <1>1, <1>4 DEF Settled, Paid, Whole, Earned, Reversed
<1> QED BY <1>1, <1>2, <1>5, MoneySettles

-----------------------------------------------------------------------------
(* The money in every step *)

LEMMA TakeStep ==
  ASSUME MoneyInv, NEW a \in Agencies, Take(a)
  PROVE  MoneyInv'
<1>1. /\ tx = None /\ tx' = None /\ agencies' = agencies /\ parent' = parent /\ gifts' = gifts
      /\ books \in Books /\ books' = [books EXCEPT !.diamonds[a] = 0]
  BY DEF Take, MoneyInv, MoneyTypes
<1>2. books' \in Books /\ books'.logs = books.logs
  BY <1>1 DEF Books
<1>3. SharesFit(books) /\ Settled(books)
  BY <1>1 DEF MoneyInv, BooksInv
<1>4. SharesFit(books)' /\ Settled(books)'
  BY <1>1, <1>2, <1>3 DEF SharesFit, Settled, Paid, Whole, Earned, Reversed
<1>5. gifts' \subseteq [gift: Gifts, host: Agencies, amount: Amounts]
  BY <1>1 DEF MoneyInv, MoneyTypes
<1> QED BY <1>1, <1>2, <1>4, <1>5, MoneySettles

LEMMA ProcessGiftCommissionStep ==
  ASSUME MoneyInv, NoneAssumption,
         NEW g \in Gifts, NEW a \in Agencies, NEW n \in Amounts, ProcessGiftCommission(g, a, n)
  PROVE  MoneyInv'
<1>1. /\ tx = None /\ g \notin Paid /\ a \in agencies /\ books \in Books
      /\ UNCHANGED <<agencies, parent, books, gifts>>
  BY DEF ProcessGiftCommission, MoneyInv, MoneyTypes
<1>2. /\ tx' \in Payments /\ tx'.gift = g /\ tx'.at = a /\ tx'.child = None
      /\ tx'.began = books /\ tx'.kind = "pay"
  BY <1>1 DEF ProcessGiftCommission, Payments
<1>3. SharesFit(books) /\ Settled(books)
  BY <1>1 DEF MoneyInv, BooksInv
<1>4. MoneyTypes' /\ TreeInv'
  BY <1>1, <1>2 DEF MoneyInv, MoneyTypes, TreeInv, AboveIt, Closed
<1>5. BooksInv'
  <2>1. tx' # None
    BY <1>2, RecordIsNoNone
  <2>2. SharesFit(books)' /\ SharesFit(tx.began)' /\ Settled(tx.began)'
    BY <1>1, <1>2, <1>3 DEF SharesFit, Settled, Paid, Whole, Earned, Reversed
  <2> QED BY <2>1, <2>2 DEF BooksInv
<1>6. PayInv'
  <2>1. Paid' = Paid
    BY <1>1 DEF Paid
  <2>2. \A l \in books'.logs : l.gift \in Paid /\ l.gift # g
    BY <1>1, <1>3 DEF Settled
  <2>3. (\A h \in Gifts : Whole(books, h))'
    BY <1>1, <1>3 DEF Settled, Whole, Earned, Reversed
  <2>4. Ahead(agencies)'
    BY <1>1, <1>2, <2>2 DEF MoneyInv, MoneyTypes, Ahead, Closed
  <2> QED BY <1>1, <1>2, <2>1, <2>2, <2>3, <2>4 DEF PayInv
<1>7. ReverseInv'
  BY <1>2 DEF ReverseInv, Reversing
<1> QED BY <1>4, <1>5, <1>6, <1>7 DEF MoneyInv

LEMMA ReverseChatPaymentCommissionStep ==
  ASSUME MoneyInv, NoneAssumption, NEW g \in Gifts, ReverseChatPaymentCommission(g)
  PROVE  MoneyInv'
<1>1. /\ tx = None /\ g \in Paid /\ books \in Books
      /\ UNCHANGED <<agencies, parent, books, gifts>>
  BY DEF ReverseChatPaymentCommission, MoneyInv, MoneyTypes
<1>2. /\ tx' \in Reversals /\ tx'.gift = g /\ tx'.left = Of(g)
      /\ tx'.began = books /\ tx'.kind = "reverse"
  <2>1. Of(g) \in SUBSET Log
    BY <1>1, BooksAre DEF Of
  <2>2. tx' = [kind |-> "reverse", gift |-> g, left |-> Of(g), began |-> books]
    BY DEF ReverseChatPaymentCommission
  <2> QED BY <1>1, <2>1, <2>2 DEF Reversals
<1>3. SharesFit(books) /\ Settled(books)
  BY <1>1 DEF MoneyInv, BooksInv
<1>4. MoneyTypes' /\ TreeInv'
  BY <1>1, <1>2 DEF MoneyInv, MoneyTypes, TreeInv, AboveIt, Closed
<1>5. BooksInv'
  <2>1. tx' # None
    BY <1>2, RecordIsNoNone
  <2>2. SharesFit(books)' /\ SharesFit(tx.began)' /\ Settled(tx.began)'
    BY <1>1, <1>2, <1>3 DEF SharesFit, Settled, Paid, Whole, Earned, Reversed
  <2> QED BY <2>1, <2>2 DEF BooksInv
<1>6. PayInv'
  BY <1>2 DEF PayInv, Paying
<1>7. ReverseInv'
  <2>1. Paid' = Paid
    BY <1>1 DEF Paid
  <2>2. \A l : l \in Of(g) <=> Earned(books, l, g)
    BY DEF Of, Earned
  <2>3. /\ \A l \in books'.logs : l.gift \in Paid
        /\ (\A h \in Gifts : h # g => Whole(books, h))'
    BY <1>1, <1>3 DEF Settled, Whole, Earned, Reversed
  <2>4. (\A l \in tx.left : Earned(books, l, tx.gift))'
    BY <1>1, <1>2, <2>2 DEF Earned
  <2>5. (\A l \in books.logs : ~(Earned(books, l, tx.gift) /\ l \notin tx.left))'
    BY <1>1, <1>2, <2>2 DEF Earned
  <2> QED BY <1>1, <1>2, <2>1, <2>3, <2>4, <2>5 DEF ReverseInv
<1> QED BY <1>4, <1>5, <1>6, <1>7 DEF MoneyInv

LEMMA InsertAgencyMoney ==
  ASSUME MoneyInv, NoneAssumption, tx = None, NEW c \in Calls, InsertAgency(c),
         Agency(c) \in Agencies, Whom(c) \in agencies \cup {None}
  PROVE  MoneyInv'
<1>0. PICK n \in Agencies, p \in agencies \cup {None} : n = Agency(c) /\ p = Whom(c)
  OBVIOUS
<1>1. books' = books /\ tx' = tx /\ gifts' = gifts
  BY DEF InsertAgency, NoMoney
<1>2. CASE n \in agencies
  BY <1>1, <1>2, <1>0, MoneyStands DEF InsertAgency, Money
<1>3. CASE n \notin agencies
  <2>1. agencies' = agencies \cup {n} /\ parent' = [parent EXCEPT ![n] = p]
    BY <1>3, <1>0 DEF InsertAgency
  <2>2. /\ agencies \subseteq Agencies /\ parent \in [Agencies -> agencies \cup {None}]
        /\ n \in Agencies /\ p \in agencies \cup {None}
    BY DEF MoneyInv, MoneyTypes
  <2>3. \A b \in Agencies : parent'[b] = IF b = n THEN p ELSE parent[b]
    BY <2>1, <2>2
  <2>4. MoneyTypes'
    BY <1>1, <2>1, <2>2 DEF MoneyInv, MoneyTypes
  <2>5. TreeInv'
    <3>1. ASSUME NEW a \in agencies
          PROVE  \E S \in SUBSET agencies' : AboveIt(a, S)'
      <4>1. PICK S \in SUBSET agencies : AboveIt(a, S)
        BY DEF MoneyInv, TreeInv
      <4>2. AboveIt(a, S)'
        BY <1>3, <2>2, <2>3, <4>1 DEF AboveIt, Closed
      <4> QED BY <2>1, <4>2
    <3>2. None \notin agencies /\ n \notin agencies
      BY <1>3, <2>2 DEF NoneAssumption
    <3>3. \A b \in agencies : parent'[b] \in agencies \cup {None}
      BY <2>2, <2>3, <3>2
    <3>4. \E S \in SUBSET agencies' : AboveIt(n, S)'
      <4>1. CASE p = None
        <5>1. AboveIt(n, {})'
          BY <2>2, <2>3, <4>1 DEF AboveIt, Closed
        <5>2. {} \in SUBSET agencies'
          OBVIOUS
        <5> QED BY <5>1, <5>2
      <4>2. CASE p # None
        <5>1. PICK S \in SUBSET agencies : S = agencies
          OBVIOUS
        <5>2. AboveIt(n, S)'
          BY <5>1, <2>2, <2>3, <3>2, <3>3, <4>2 DEF AboveIt, Closed
        <5> QED BY <2>1, <5>2
      <4> QED BY <4>1, <4>2
    <3> QED BY <2>1, <3>1, <3>4 DEF TreeInv
  <2>6. BooksInv'
    <3>1. SharesFit(books) /\ Settled(books)
      BY DEF MoneyInv, BooksInv
    <3>2. \A l \in books.logs : l.agency \in agencies /\ parent'[l.agency] = parent[l.agency]
      BY <1>3, <2>2, <2>3, <3>1 DEF SharesFit
    <3>3. SharesFit(books)'
      BY <1>1, <2>1, <3>1, <3>2 DEF SharesFit, Earned
    <3>4. Settled(books)'
      BY <1>1, <3>1 DEF Settled, Paid, Whole, Earned, Reversed
    <3> QED BY <1>1, <3>3, <3>4 DEF BooksInv
  <2>7. PayInv' /\ ReverseInv'
    BY <1>1 DEF PayInv, ReverseInv, Paying, Reversing
  <2> QED BY <2>4, <2>5, <2>6, <2>7 DEF MoneyInv
<1> QED BY <1>2, <1>3

LEMMA MoneyStarts ==
  ASSUME Init, TiersAssumption, NoneAssumption, TreesAssumption
  PROVE  MoneyInv
<1>1. /\ agencies \subseteq Agencies /\ parent \in [Agencies -> agencies \cup {None}]
      /\ tx = None /\ gifts = {} /\ books.logs = {}
  BY DEF Init, MoneyInit
<1>2. books \in Books
  <2>1. books = [diamonds |-> [a \in Agencies |-> 0], rolling |-> [a \in Agencies |-> 0],
                 level |-> [a \in Agencies |-> 1], logs |-> {}]
    BY DEF Init, MoneyInit
  <2> QED BY <2>1 DEF Books, TiersAssumption
<1>3. MoneyTypes
  BY <1>1, <1>2 DEF MoneyTypes
<1>4. TreeInv
  <2>1. PICK t \in Trees : agencies = DOMAIN t /\ parent = [a \in Agencies |-> IF a \in DOMAIN t THEN t[a] ELSE None]
    BY DEF Init
  <2>2. \A a \in agencies : parent[a] = t[a] /\ parent[a] \in agencies \cup {None}
    BY <1>1, <2>1
  <2>3. \A a \in agencies : \E above \in SUBSET agencies :
         a \notin above /\ \A b \in above \cup {a} : t[b] # None => t[b] \in above
    BY <2>1 DEF TreesAssumption
  <2> QED BY <2>2, <2>3 DEF TreeInv, AboveIt, Closed
<1>5. BooksInv /\ PayInv /\ ReverseInv
  BY <1>1 DEF BooksInv, PayInv, ReverseInv, SharesFit, Settled, Whole, Paying, Reversing
<1> QED BY <1>3, <1>4, <1>5 DEF MoneyInv

LEMMA MoneyNextStep ==
  ASSUME MoneyInv, NoneAssumption, NumbersAssumption, TiersAssumption, MoneyNext
  PROVE  MoneyInv'
<1>1. CASE \E a \in Agencies : Take(a)
  BY <1>1, TakeStep
<1>2. CASE StopClimbing \/ PassOver \/ CreditCommission
  BY <1>2, StopClimbingStep, PassOverStep, CreditCommissionStep
<1>3. CASE \E g \in Gifts : ReverseChatPaymentCommission(g)
  BY <1>3, ReverseChatPaymentCommissionStep
<1>4. CASE Reversing /\ \E l \in tx.left : SkipReversed(l) \/ ReverseLog(l) \/ RefuseReversal(l)
  <2>1. PICK l \in tx.left : SkipReversed(l) \/ ReverseLog(l) \/ RefuseReversal(l)
    BY <1>4
  <2>2. CASE RefuseReversal(l)
    BY <2>2, MoneyAborts DEF RefuseReversal, Reversing
  <2> QED BY <2>1, <2>2, SkipReversedStep, ReverseLogStep
<1>5. CASE CommitReversal
  BY <1>5, CommitReversalStep
<1>6. CASE Fail
  BY <1>6, MoneyAborts DEF Fail
<1> QED BY <1>1, <1>2, <1>3, <1>4, <1>5, <1>6 DEF MoneyNext

-----------------------------------------------------------------------------
(* Steps of the requests *)

Sights == <<agencies, banned, profile, hosts, view, calm>>

LEMMA FreeIs ==
  /\ Free \in Request /\ Free.at = "free"
BY DEF Free, Request

LEMMA RequestsMove ==
  ASSUME JobTypes, NEW c \in Calls, NEW r \in Request, job' = [job EXCEPT ![c] = r]
  PROVE  /\ job' \in [Calls -> Request]
         /\ \A d \in Calls : job'[d] = IF d = c THEN r ELSE job[d]
BY DEF JobTypes

\* What the three ways to go on make of a request.
LEMMA GoingFor ==
  ASSUME NEW c \in Calls, NEW l, NEW w \in Hosts \cup Agencies \cup {None},
         NEW a \in Agencies, GoFor(c, l, w, a),
         l \in {"free", "parent", "insert", "role"} \cup HostPlaces
  PROVE  \E r \in Request : /\ job' = [job EXCEPT ![c] = r]
                            /\ r.at = l /\ r.whom = w /\ r.agency = a
<1> DEFINE r == [at |-> l, whom |-> w, agency |-> a,
                 fresh |-> w \in Hosts /\ profile[w] = NoProfile]
<1>1. (w \in Hosts /\ profile[w] = NoProfile) \in BOOLEAN
  OBVIOUS
<1>2. r \in Request /\ r.at = l /\ r.whom = w /\ r.agency = a
  BY <1>1 DEF Request
<1>3. job' = [job EXCEPT ![c] = r]
  BY DEF GoFor
<1> QED BY <1>2, <1>3

LEMMA GoingTo ==
  ASSUME JobTypes, NEW c \in Calls, NEW l, Goto(c, l),
         l \in {"free", "parent", "insert", "role"} \cup HostPlaces
  PROVE  \E r \in Request : /\ job' = [job EXCEPT ![c] = r]
                            /\ r.at = l /\ r.whom = Whom(c) /\ r.agency = Agency(c)
<1> DEFINE r == [job[c] EXCEPT !.at = l]
<1>1. job[c] \in Request
  BY DEF JobTypes
<1>2. r \in Request /\ r.at = l /\ r.whom = job[c].whom /\ r.agency = job[c].agency
  BY <1>1 DEF Request
<1>3. job' = [job EXCEPT ![c] = r]
  BY DEF Goto
<1> QED BY <1>2, <1>3 DEF Whom, Agency

LEMMA GoingFree ==
  ASSUME NEW c \in Calls, Done(c)
  PROVE  \E r \in Request : job' = [job EXCEPT ![c] = r] /\ r.at = "free"
BY FreeIs DEF Done

LEMMA AloneWhen ==
  ASSUME JobInv, calm, NEW c \in Calls, ~At(c, "free") \/ Quiet
  PROVE  Alone(c) /\ Solo(job[c])
BY DEF JobInv, CalmInv, Alone, Quiet

\* A step of one request.
LEMMA RequestSteps ==
  ASSUME JobInv, NEW c \in Calls, NEW r \in Request, job' = [job EXCEPT ![c] = r],
         calm' = calm, agencies \subseteq agencies',
         profile' \in [Hosts -> Agencies \cup {None, NoProfile}],
         hosts' \subseteq Hosts, view' \in [Agencies -> SUBSET Hosts],
         PlaceOk(r)', calm => Alone(c) /\ Solo(r)'
  PROVE  JobInv'
<1>1. /\ job' \in [Calls -> Request]
      /\ \A d \in Calls : job'[d] = IF d = c THEN r ELSE job[d]
  BY RequestsMove DEF JobInv
<1>2. JobTypes'
  BY <1>1 DEF JobTypes
<1>3. PlacesInv'
  <2>1. ASSUME NEW d \in Calls, d # c
        PROVE  PlaceOk(job[d])'
    <3>1. PlaceOk(job[d]) /\ job'[d] = job[d]
      BY <2>1, <1>1 DEF JobInv, PlacesInv
    <3> QED BY <3>1 DEF PlaceOk
  <2>2. PlaceOk(job[c])'
    BY <1>1 DEF PlaceOk
  <2> QED BY <2>1, <2>2 DEF PlacesInv
<1>4. CalmInv'
  <2> SUFFICES ASSUME calm
               PROVE  CalmInv'
    BY DEF CalmInv
  <2>1. Alone(c)' /\ \A d \in Calls : d # c => job'[d].at = "free"
    BY <1>1 DEF Alone, At
  <2>2. Solo(job[c])'
    BY <1>1 DEF Solo, CheckHolds, Tells
  <2>3. ASSUME r.at = "free", NEW q, q.at = "free"
        PROVE  Solo(q)'
    BY <2>3 DEF Solo, CheckHolds, Tells
  <2>4. \A d \in Calls : ~At(d, "free")' => Alone(d)'
    BY <2>1 DEF Alone, At
  <2>5. ASSUME NEW d \in Calls, Alone(d)'
        PROVE  Solo(job[d])'
    <3>1. CASE d = c
      BY <3>1, <2>2
    <3>2. CASE d # c
      <4>1. job'[d].at = "free" /\ r.at = "free"
        BY <2>1, <2>5, <3>2, <1>1 DEF Alone, At
      <4> QED BY <4>1, <2>2, <1>1 DEF Solo, CheckHolds, Tells
    <3> QED BY <3>1, <3>2
  <2>6. Quiet' => Solo(Free)'
    <3>1. ASSUME Quiet'
          PROVE  r.at = "free"
      BY <3>1, <1>1 DEF Quiet, At
    <3> QED BY <3>1, <2>2, <1>1, FreeIs DEF Solo, CheckHolds, Tells
  <2> QED BY <2>4, <2>5, <2>6 DEF CalmInv
<1> QED BY <1>2, <1>3, <1>4 DEF JobInv

\* One that only reads.
Quietly == {"free", "parent", "insert", "user", "agency", "write", "profile", "clear"}
LEMMA RequestReads ==
  ASSUME JobInv, NEW c \in Calls, NEW r \in Request, job' = [job EXCEPT ![c] = r],
         UNCHANGED Sights, PlaceOk(r), job[c].at \in Quietly, r.at \in Quietly,
         calm => (~At(c, "free") \/ Quiet),
         calm => CheckHolds(r)
  PROVE  JobInv'
<1>1. PlaceOk(r)'
  BY DEF Sights, PlaceOk
<1>2. ASSUME calm
      PROVE  Alone(c) /\ Solo(r)'
  <2>1. Alone(c) /\ Solo(job[c])
    BY <1>2, AloneWhen
  <2>2. Solo(r)
    BY <1>2, <2>1 DEF Solo, Tells, Quietly
  <2> QED BY <2>1, <2>2 DEF Sights, Solo, CheckHolds, Tells
<1> QED BY <1>1, <1>2, RequestSteps DEF Sights, JobInv, JobTypes

LEMMA RequestsStand ==
  ASSUME JobInv, UNCHANGED <<agencies, profile, hosts, view, job, calm>>,
         calm => UNCHANGED banned \/ Quiet
  PROVE  JobInv'
<1>1. JobTypes' /\ PlacesInv'
  BY DEF JobInv, JobTypes, PlacesInv, PlaceOk
<1>2. CalmInv'
  <2> SUFFICES ASSUME calm
               PROVE  CalmInv'
    BY DEF CalmInv
  <2>1. Quiet' = Quiet /\ \A c \in Calls : Alone(c)' = Alone(c) /\ At(c, "free")' = At(c, "free")
    BY DEF Quiet, Alone, At
  <2>2. CASE UNCHANGED banned
    <3>1. \A c \in Calls : Solo(job[c]) => Solo(job[c])'
      BY <2>2 DEF Solo, CheckHolds, Tells
    <3>2. Solo(Free) => Solo(Free)'
      BY <2>2 DEF Solo, CheckHolds, Tells
    <3> QED BY <2>1, <3>1, <3>2 DEF JobInv, CalmInv
  <2>3. CASE Quiet
    <3>1. \A c \in Calls : job[c].at = "free"
      BY <2>3 DEF Quiet, At
    <3>2. Solo(Free)
      BY <2>3 DEF JobInv, CalmInv
    <3>3. \A c \in Calls : Solo(job[c])'
      BY <3>1, <3>2, FreeIs DEF Solo, CheckHolds, Tells
    <3>4. Solo(Free)'
      BY <3>2, FreeIs DEF Solo, CheckHolds, Tells
    <3> QED BY <2>1, <3>1, <3>3, <3>4 DEF CalmInv, At
  <2> QED BY <2>2, <2>3
<1> QED BY <1>1, <1>2 DEF JobInv

-----------------------------------------------------------------------------
(* createAgency *)

LEMMA CheckOwnerStep ==
  ASSUME JobInv, NEW c \in Calls, NEW a \in Agencies, NEW p \in agencies \cup {None},
         agencies \subseteq Agencies, CheckOwner(c, a, p)
  PROVE  JobInv'
<1> DEFINE l == IF p = None THEN "insert" ELSE "parent"
<1>1. PICK r \in Request : /\ job' = [job EXCEPT ![c] = r]
                           /\ r.at = l /\ r.whom = p /\ r.agency = a
  BY GoingFor DEF CheckOwner
<1>2. PlaceOk(r) /\ CheckHolds(r)
  BY <1>1 DEF PlaceOk, CheckHolds, HostPlaces
<1>3. job[c].at \in Quietly /\ r.at \in Quietly
  BY <1>1 DEF CheckOwner, Begin, At, Quietly
<1> QED BY <1>1, <1>2, <1>3, RequestReads DEF CheckOwner, Begin, Sights, vars

LEMMA FindParentStep ==
  ASSUME JobInv, NEW c \in Calls, FindParent(c)
  PROVE  JobInv'
<1>1. PlaceOk(job[c]) /\ job[c].at = "parent" /\ UNCHANGED Sights
  BY DEF JobInv, PlacesInv, FindParent, At, Sights, vars
<1>2. CASE Goto(c, "insert")
  <2>1. PICK r \in Request : /\ job' = [job EXCEPT ![c] = r] /\ r.at = "insert"
                             /\ r.whom = Whom(c) /\ r.agency = Agency(c)
    BY <1>2, GoingTo DEF JobInv
  <2>2. PlaceOk(r) /\ CheckHolds(r)
    BY <1>1, <2>1 DEF PlaceOk, CheckHolds, HostPlaces, Whom, Agency
  <2> QED BY <1>1, <2>1, <2>2, RequestReads DEF At, Quietly
<1>3. CASE Done(c)
  <2>1. PICK r \in Request : job' = [job EXCEPT ![c] = r] /\ r.at = "free"
    BY <1>3, GoingFree
  <2>2. PlaceOk(r) /\ CheckHolds(r)
    BY <2>1 DEF PlaceOk, CheckHolds, HostPlaces
  <2> QED BY <1>1, <2>1, <2>2, RequestReads DEF At, Quietly
<1> QED BY <1>2, <1>3 DEF FindParent

LEMMA InsertAgencyStep ==
  ASSUME JobInv, NEW c \in Calls, InsertAgency(c)
  PROVE  JobInv'
<1>1. PlaceOk(job[c]) /\ job[c].at = "insert" /\ UNCHANGED <<banned, profile, hosts, view, calm>>
  BY DEF JobInv, PlacesInv, InsertAgency, At
<1>2. CASE Agency(c) \in agencies
  <2>1. Done(c) /\ UNCHANGED Sights
    BY <1>1, <1>2 DEF InsertAgency, Sights
  <2>2. PICK r \in Request : job' = [job EXCEPT ![c] = r] /\ r.at = "free"
    BY <2>1, GoingFree
  <2>3. PlaceOk(r) /\ CheckHolds(r)
    BY <2>2 DEF PlaceOk, CheckHolds, HostPlaces
  <2> QED BY <1>1, <2>1, <2>2, <2>3, RequestReads DEF At, Quietly
<1>3. CASE Agency(c) \notin agencies
  <2>1. PICK n : n = Agency(c)
    OBVIOUS
  <2>2. agencies' = agencies \cup {n} /\ Goto(c, "role")
    BY <1>3, <2>1 DEF InsertAgency
  <2>3. PICK r \in Request : /\ job' = [job EXCEPT ![c] = r] /\ r.at = "role"
                             /\ r.whom = Whom(c) /\ r.agency = n
    BY <2>1, <2>2, GoingTo DEF JobInv
  <2>4. PlaceOk(r)'
    BY <1>1, <2>1, <2>2, <2>3 DEF PlaceOk, HostPlaces, Agency
  <2>5. ASSUME calm
        PROVE  Alone(c) /\ Solo(r)'
    <3>1. Alone(c) /\ Solo(job[c])
      BY <1>1, <2>5, AloneWhen DEF At
    <3>2. CheckHolds(r)' /\ \A a \in agencies' \cap hosts' : r.at = "role" /\ r.agency = a
      BY <1>1, <2>2, <2>3, <3>1 DEF Solo, CheckHolds
    <3> QED BY <1>1, <2>3, <3>1, <3>2 DEF Solo, Tells
  <2> QED BY <1>1, <2>2, <2>3, <2>4, <2>5, RequestSteps DEF JobInv, JobTypes
<1> QED BY <1>2, <1>3

LEMMA BecomeAgencyStep ==
  ASSUME JobInv, NEW c \in Calls, BecomeAgency(c)
  PROVE  JobInv'
<1>1. job[c].at = "role" /\ hosts' = hosts \ {Agency(c)} /\ Done(c)
      /\ UNCHANGED <<agencies, banned, profile, view, calm>>
  BY DEF BecomeAgency, At, vars
<1>2. PICK r \in Request : job' = [job EXCEPT ![c] = r] /\ r.at = "free"
  BY <1>1, GoingFree
<1>3. PlaceOk(r)'
  BY <1>2 DEF PlaceOk, HostPlaces
<1>4. ASSUME calm
      PROVE  Alone(c) /\ Solo(r)'
  <2>1. Alone(c) /\ Solo(job[c])
    BY <1>1, <1>4, AloneWhen DEF At
  <2>2. CheckHolds(r)' /\ agencies' \cap hosts' = {}
    BY <1>1, <1>2, <2>1 DEF Solo, CheckHolds, Agency
  <2> QED BY <1>1, <1>2, <2>1, <2>2 DEF Solo, Tells
<1> QED BY <1>1, <1>2, <1>3, <1>4, RequestSteps DEF JobInv, JobTypes

-----------------------------------------------------------------------------
(* Hosts *)

LEMMA AddHostToAgencyStep ==
  ASSUME JobInv, NEW c \in Calls, NEW a \in Agencies, NEW h \in Hosts, AddHostToAgency(c, a, h)
  PROVE  JobInv'
<1>1. job[c].at = "free" /\ UNCHANGED Sights /\ (calm => Quiet)
  BY DEF AddHostToAgency, Begin, At, Sights, vars
<1>2. CASE a \in agencies \ banned
  <2>1. PICK r \in Request : /\ job' = [job EXCEPT ![c] = r] /\ r.at = "user"
                             /\ r.whom = h /\ r.agency = a
    BY <1>2, GoingFor DEF AddHostToAgency, HostPlaces
  <2>2. PlaceOk(r)
    BY <1>2, <2>1 DEF PlaceOk, HostPlaces
  <2>3. CheckHolds(r)
    BY <1>2, <2>1 DEF CheckHolds
  <2> QED BY <1>1, <2>1, <2>2, <2>3, RequestReads DEF Quietly
<1>3. CASE ~(a \in agencies \ banned)
  BY <1>1, <1>3, RequestsStand DEF AddHostToAgency, Sights
<1> QED BY <1>2, <1>3

LEMMA JoinAgencyStep ==
  ASSUME JobInv, NEW c \in Calls, NEW a \in Agencies, NEW h \in Hosts, MembershipAssumption, NoneAssumption, JoinAgency(c, h, a)
  PROVE  JobInv'
<1>1. job[c].at = "free" /\ UNCHANGED Sights /\ (calm => Quiet)
  BY DEF JoinAgency, Begin, At, Sights, vars
<1>2. CASE IsFree(h)
  <2>1. PICK r \in Request : /\ job' = [job EXCEPT ![c] = r] /\ r.at = "agency"
                             /\ r.whom = h /\ r.agency = a
    BY <1>2, GoingFor DEF JoinAgency, HostPlaces
  <2>2. PlaceOk(r)
    BY <1>2, <2>1 DEF PlaceOk, HostPlaces
  <2>3. CheckHolds(r)
    BY <1>2, <2>1 DEF CheckHolds, IsFree, MembershipAssumption, NoneAssumption
  <2> QED BY <1>1, <2>1, <2>2, <2>3, RequestReads DEF Quietly
<1>3. CASE ~(IsFree(h))
  BY <1>1, <1>3, RequestsStand DEF JoinAgency, Sights
<1> QED BY <1>2, <1>3

LEMMA RemoveHostFromAgencyStep ==
  ASSUME JobInv, NEW c \in Calls, NEW a \in Agencies, NEW h \in Hosts, RemoveHostFromAgency(c, a, h)
  PROVE  JobInv'
<1>1. job[c].at = "free" /\ UNCHANGED Sights /\ (calm => Quiet)
  BY DEF RemoveHostFromAgency, Begin, At, Sights, vars
<1>2. CASE a \in agencies
  <2>1. PICK r \in Request : /\ job' = [job EXCEPT ![c] = r] /\ r.at = "profile"
                             /\ r.whom = h /\ r.agency = a
    <3>1. GoFor(c, "profile", h, a)
      BY <1>2 DEF RemoveHostFromAgency
    <3>2. /\ h \in Hosts \cup Agencies \cup {None}
          /\ "profile" \in {"free", "parent", "insert", "role"} \cup HostPlaces
      BY DEF HostPlaces
    <3> QED BY <3>1, <3>2, GoingFor
  <2>2. PlaceOk(r)
    BY <1>2, <2>1 DEF PlaceOk, HostPlaces
  <2>3. CheckHolds(r)
    BY <1>2, <2>1 DEF CheckHolds
  <2> QED BY <1>1, <2>1, <2>2, <2>3, RequestReads DEF Quietly
<1>3. CASE ~(a \in agencies)
  BY <1>1, <1>3, RequestsStand DEF RemoveHostFromAgency, Sights
<1> QED BY <1>2, <1>3

LEMMA LeaveAgencyStep ==
  ASSUME JobInv, NEW c \in Calls, NEW h \in Hosts, LeaveAgency(c, h)
  PROVE  JobInv'
<1>1. job[c].at = "free" /\ UNCHANGED Sights /\ (calm => Quiet)
  BY DEF LeaveAgency, Begin, At, Sights, vars
<1>2. CASE profile[h] \in Agencies
  <2>1. PICK r \in Request : /\ job' = [job EXCEPT ![c] = r] /\ r.at = "clear"
                             /\ r.whom = h /\ r.agency = profile[h]
    BY <1>2, GoingFor DEF LeaveAgency, HostPlaces
  <2>2. PlaceOk(r)
    BY <1>2, <2>1 DEF PlaceOk, HostPlaces
  <2>3. CheckHolds(r)
    BY <1>2, <2>1 DEF CheckHolds
  <2> QED BY <1>1, <2>1, <2>2, <2>3, RequestReads DEF Quietly
<1>3. CASE ~(profile[h] \in Agencies)
  BY <1>1, <1>3, RequestsStand DEF LeaveAgency, Sights
<1> QED BY <1>2, <1>3

LEMMA FindUserStep ==
  ASSUME JobInv, NEW c \in Calls, NoneAssumption, MembershipAssumption, FindUser(c)
  PROVE  JobInv'
<1>1. PlaceOk(job[c]) /\ job[c].at = "user" /\ UNCHANGED Sights
  BY DEF JobInv, PlacesInv, FindUser, At, Sights, vars
<1>2. CASE IsFree(Whom(c))
  <2>1. Whom(c) \in Hosts /\ Agency(c) \in Agencies
    BY <1>1 DEF PlaceOk, HostPlaces, Whom, Agency
  <2>2. PICK r \in Request : /\ job' = [job EXCEPT ![c] = r] /\ r.at = "write"
                             /\ r.whom = Whom(c) /\ r.agency = Agency(c)
    BY <1>2, <2>1, GoingFor DEF FindUser, HostPlaces
  <2>3. PlaceOk(r)
    BY <2>1, <2>2 DEF PlaceOk
  <2>4. calm => CheckHolds(r)
    <3>1. calm => Solo(job[c])
      BY <1>1, AloneWhen DEF At
    <3>2. calm => Agency(c) \in agencies \ banned
      BY <1>1, <3>1 DEF Solo, CheckHolds, Agency
    <3> QED BY <1>2, <2>2, <3>2
            DEF CheckHolds, IsFree, MembershipAssumption, NoneAssumption
  <2> QED BY <1>1, <2>2, <2>3, <2>4, RequestReads DEF At, Quietly
<1>3. CASE ~IsFree(Whom(c))
  <2>1. PICK r \in Request : job' = [job EXCEPT ![c] = r] /\ r.at = "free"
    BY <1>3, GoingFree DEF FindUser
  <2>2. PlaceOk(r) /\ CheckHolds(r)
    BY <2>1 DEF PlaceOk, CheckHolds, HostPlaces
  <2> QED BY <1>1, <2>1, <2>2, RequestReads DEF At, Quietly
<1> QED BY <1>2, <1>3

LEMMA FindAgencyStep ==
  ASSUME JobInv, NEW c \in Calls, FindAgency(c)
  PROVE  JobInv'
<1>1. PlaceOk(job[c]) /\ job[c].at = "agency" /\ UNCHANGED Sights
  BY DEF JobInv, PlacesInv, FindAgency, At, Sights, vars
<1>2. CASE Agency(c) \in agencies \ banned
  <2>1. PICK r \in Request : /\ job' = [job EXCEPT ![c] = r] /\ r.at = "write"
                             /\ r.whom = Whom(c) /\ r.agency = Agency(c)
    BY <1>2, GoingTo DEF JobInv, FindAgency, HostPlaces
  <2>2. PlaceOk(r)
    BY <1>1, <2>1 DEF PlaceOk, HostPlaces, Whom, Agency
  <2>3. calm => Solo(job[c])
    BY <1>1, AloneWhen DEF At
  <2>4. calm => CheckHolds(r)
    BY <1>1, <1>2, <2>1, <2>3 DEF Solo, CheckHolds, Whom, Agency
  <2> QED BY <1>1, <2>1, <2>2, <2>4, RequestReads DEF At, Quietly
<1>3. CASE ~(Agency(c) \in agencies \ banned)
  <2>1. PICK r \in Request : job' = [job EXCEPT ![c] = r] /\ r.at = "free"
    BY <1>3, GoingFree DEF FindAgency
  <2>2. PlaceOk(r) /\ CheckHolds(r)
    BY <2>1 DEF PlaceOk, CheckHolds, HostPlaces
  <2> QED BY <1>1, <2>1, <2>2, RequestReads DEF At, Quietly
<1> QED BY <1>2, <1>3

LEMMA FindProfileStep ==
  ASSUME JobInv, NEW c \in Calls, FindProfile(c)
  PROVE  JobInv'
<1>1. PlaceOk(job[c]) /\ job[c].at = "profile" /\ UNCHANGED Sights
  BY DEF JobInv, PlacesInv, FindProfile, At, Sights, vars
<1>2. CASE profile[Whom(c)] = Agency(c)
  <2>1. PICK r \in Request : /\ job' = [job EXCEPT ![c] = r] /\ r.at = "clear"
                             /\ r.whom = Whom(c) /\ r.agency = Agency(c)
    BY <1>2, GoingTo DEF JobInv, FindProfile, HostPlaces
  <2>2. PlaceOk(r)
    BY <1>1, <2>1 DEF PlaceOk, HostPlaces, Whom, Agency
  <2>3. calm => Solo(job[c])
    BY <1>1, AloneWhen DEF At
  <2>4. calm => CheckHolds(r)
    BY <1>1, <1>2, <2>1, <2>3 DEF Solo, CheckHolds, Whom, Agency
  <2> QED BY <1>1, <2>1, <2>2, <2>4, RequestReads DEF At, Quietly
<1>3. CASE ~(profile[Whom(c)] = Agency(c))
  <2>1. PICK r \in Request : job' = [job EXCEPT ![c] = r] /\ r.at = "free"
    BY <1>3, GoingFree DEF FindProfile
  <2>2. PlaceOk(r) /\ CheckHolds(r)
    BY <2>1 DEF PlaceOk, CheckHolds, HostPlaces
  <2> QED BY <1>1, <2>1, <2>2, RequestReads DEF At, Quietly
<1> QED BY <1>2, <1>3

LEMMA WriteAgencyStep ==
  ASSUME JobInv, NEW c \in Calls, WriteAgency(c)
  PROVE  JobInv'
<1>1. /\ PlaceOk(job[c]) /\ job[c].at = "write"
      /\ UNCHANGED <<agencies, banned, hosts, view, calm>>
  BY DEF JobInv, PlacesInv, WriteAgency, At, vars
<1>2. CASE job[c].fresh /\ profile[Whom(c)] # NoProfile
  <2>1. Done(c) /\ UNCHANGED Sights
    BY <1>1, <1>2 DEF WriteAgency, Sights
  <2>2. PICK r \in Request : job' = [job EXCEPT ![c] = r] /\ r.at = "free"
    BY <2>1, GoingFree
  <2>3. PlaceOk(r) /\ CheckHolds(r)
    BY <2>2 DEF PlaceOk, CheckHolds, HostPlaces
  <2> QED BY <1>1, <2>1, <2>2, <2>3, RequestReads DEF At, Quietly
<1>3. CASE ~(job[c].fresh /\ profile[Whom(c)] # NoProfile)
  <2>1. PICK h \in Hosts, a \in Agencies : h = Whom(c) /\ a = Agency(c)
    BY <1>1 DEF PlaceOk, HostPlaces, Whom, Agency
  <2>2. profile' = [profile EXCEPT ![h] = a] /\ Goto(c, "added")
    BY <1>3, <2>1 DEF WriteAgency
  <2>3. PICK r \in Request : /\ job' = [job EXCEPT ![c] = r] /\ r.at = "added"
                             /\ r.whom = h /\ r.agency = a
    BY <2>1, <2>2, GoingTo DEF JobInv, HostPlaces
  <2>4. /\ profile' \in [Hosts -> Agencies \cup {None, NoProfile}]
        /\ \A g \in Hosts : profile'[g] = IF g = h THEN a ELSE profile[g]
    BY <2>1, <2>2 DEF JobInv, JobTypes
  <2>5. PlaceOk(r)'
    BY <2>1, <2>3 DEF PlaceOk
  <2>6. ASSUME calm
        PROVE  Alone(c) /\ Solo(r)'
    <3>1. Alone(c) /\ Solo(job[c])
      BY <1>1, <2>6, AloneWhen DEF At
    <3>2. h \in hosts /\ profile[h] \notin Agencies /\ a \in agencies \ banned
      BY <1>1, <2>1, <3>1 DEF Solo, CheckHolds, Whom, Agency
    <3>3. agencies \cap hosts = {} /\ h # a
      BY <1>1, <3>1, <3>2 DEF Solo
    <3>4. CheckHolds(r)' /\ \A g \in Hosts : profile'[g] # g
      BY <2>1, <2>3, <2>4, <3>1, <3>3 DEF Solo, CheckHolds
    <3>5. \A b \in Agencies, g \in Hosts : g \in view[b] <=> profile[g] = b
      BY <1>1, <3>1 DEF Solo, Tells
    <3>6. ASSUME NEW b \in Agencies, NEW g \in Hosts
          PROVE  g \in view[b] <=> \/ profile'[g] = b /\ ~Tells(r, "added", b, g)
                                   \/ Tells(r, "removed", b, g)
      BY <2>3, <2>4, <3>2, <3>5 DEF Tells
    <3> QED BY <1>1, <3>1, <3>3, <3>4, <3>6 DEF Solo, Tells
  <2> QED BY <1>1, <2>3, <2>4, <2>5, <2>6, RequestSteps DEF JobInv, JobTypes
<1> QED BY <1>2, <1>3

LEMMA ClearAgencyStep ==
  ASSUME JobInv, NEW c \in Calls, NoneAssumption, MembershipAssumption, ClearAgency(c)
  PROVE  JobInv'
<1>1. /\ PlaceOk(job[c]) /\ job[c].at = "clear"
      /\ UNCHANGED <<agencies, banned, hosts, view, calm>>
  BY DEF JobInv, PlacesInv, ClearAgency, At, vars
<1>2. PICK h \in Hosts, a \in Agencies : h = Whom(c) /\ a = Agency(c)
  BY <1>1 DEF PlaceOk, HostPlaces, Whom, Agency
<1>3. profile' = [profile EXCEPT ![h] = None] /\ Goto(c, "removed")
  BY <1>2 DEF ClearAgency
<1>4. PICK r \in Request : /\ job' = [job EXCEPT ![c] = r] /\ r.at = "removed"
                           /\ r.whom = h /\ r.agency = a
  BY <1>2, <1>3, GoingTo DEF JobInv, HostPlaces
<1>5. /\ profile' \in [Hosts -> Agencies \cup {None, NoProfile}]
      /\ \A g \in Hosts : profile'[g] = IF g = h THEN None ELSE profile[g]
  BY <1>2, <1>3 DEF JobInv, JobTypes
<1>6. PlaceOk(r)'
  BY <1>2, <1>4 DEF PlaceOk
<1>7. ASSUME calm
      PROVE  Alone(c) /\ Solo(r)'
  <2>1. Alone(c) /\ Solo(job[c])
    BY <1>1, <1>7, AloneWhen DEF At
  <2>2. profile[h] = a
    BY <1>1, <1>2, <2>1 DEF Solo, CheckHolds, Whom, Agency
  <2>3. agencies \cap hosts = {}
    BY <1>1, <2>1 DEF Solo
  <2>4. CheckHolds(r)' /\ \A g \in Hosts : profile'[g] # g
    BY <1>2, <1>4, <1>5, <2>1 DEF Solo, CheckHolds, MembershipAssumption, NoneAssumption
  <2>5. \A b \in Agencies, g \in Hosts : g \in view[b] <=> profile[g] = b
    BY <1>1, <2>1 DEF Solo, Tells
  <2>6. ASSUME NEW b \in Agencies, NEW g \in Hosts
        PROVE  g \in view[b] <=> \/ profile'[g] = b /\ ~Tells(r, "added", b, g)
                                 \/ Tells(r, "removed", b, g)
    BY <1>4, <1>5, <2>2, <2>5 DEF Tells, NoneAssumption
  <2> QED BY <1>1, <2>1, <2>3, <2>4, <2>6 DEF Solo, Tells
<1> QED BY <1>1, <1>4, <1>5, <1>6, <1>7, RequestSteps DEF JobInv, JobTypes

LEMMA EmitStep ==
  ASSUME JobInv, NEW c \in Calls, EmitAdded(c) \/ EmitRemoved(c)
  PROVE  JobInv'
<1>1. /\ PlaceOk(job[c]) /\ job[c].at \in {"added", "removed"} /\ Done(c)
      /\ UNCHANGED <<agencies, banned, profile, hosts, calm>>
  BY DEF JobInv, PlacesInv, EmitAdded, EmitRemoved, At, vars
<1>2. PICK h \in Hosts, a \in Agencies : h = Whom(c) /\ a = Agency(c)
  BY <1>1 DEF PlaceOk, HostPlaces, Whom, Agency
<1>3. PICK r \in Request : job' = [job EXCEPT ![c] = r] /\ r.at = "free"
  BY <1>1, GoingFree
<1>4. PICK V \in SUBSET Hosts :
        /\ view' = [view EXCEPT ![a] = V]
        /\ job[c].at = "added" => V = view[a] \cup {h}
        /\ job[c].at = "removed" => V = view[a] \ {h}
  <2>1. view[a] \cup {h} \in SUBSET Hosts /\ view[a] \ {h} \in SUBSET Hosts
    BY DEF JobInv, JobTypes
  <2>2. \/ job[c].at = "added" /\ view' = [view EXCEPT ![a] = view[a] \cup {h}]
        \/ job[c].at = "removed" /\ view' = [view EXCEPT ![a] = view[a] \ {h}]
    BY <1>2 DEF EmitAdded, EmitRemoved, At
  <2> QED BY <2>1, <2>2
<1>5. /\ view' \in [Agencies -> SUBSET Hosts]
      /\ \A b \in Agencies : view'[b] = IF b = a THEN V ELSE view[b]
  BY <1>4 DEF JobInv, JobTypes
<1>6. PlaceOk(r)'
  BY <1>3 DEF PlaceOk, HostPlaces
<1>7. ASSUME calm
      PROVE  Alone(c) /\ Solo(r)'
  <2>1. Alone(c) /\ Solo(job[c])
    BY <1>1, <1>7, AloneWhen DEF At
  <2>2. agencies \cap hosts = {}
    BY <1>1, <2>1 DEF Solo
  <2>3. CheckHolds(r)' /\ \A g \in Hosts : profile'[g] # g
    BY <1>1, <1>3, <2>1 DEF Solo, CheckHolds
  <2>4. \A l, b, g : Tells(job[c], l, b, g) <=> job[c].at = l /\ a = b /\ h = g
    BY <1>2 DEF Tells, Whom, Agency
  <2>5. ASSUME NEW b \in Agencies, NEW g \in Hosts
        PROVE  g \in view'[b] <=> profile'[g] = b
    <3>1. g \in view[b] <=> \/ profile[g] = b /\ ~(job[c].at = "added" /\ a = b /\ h = g)
                            \/ job[c].at = "removed" /\ a = b /\ h = g
      BY <2>1, <2>4 DEF Solo
    <3>2. /\ job[c].at = "added" => profile[h] = a
          /\ job[c].at = "removed" => profile[h] # a
      BY <2>1, <1>2, <1>1 DEF Solo, CheckHolds, Whom, Agency
    <3> QED BY <1>1, <1>4, <1>5, <3>1, <3>2
  <2> QED BY <1>1, <1>3, <2>1, <2>2, <2>3, <2>5 DEF Solo, Tells
<1> QED BY <1>1, <1>3, <1>5, <1>6, <1>7, RequestSteps DEF JobInv, JobTypes

LEMMA LoseStep ==
  ASSUME JobInv, NEW c \in Calls, Lose(c)
  PROVE  JobInv'
<1>1. ~calm /\ Done(c) /\ UNCHANGED Sights
  BY DEF Lose, Sights, vars
<1>2. PICK r \in Request : job' = [job EXCEPT ![c] = r] /\ r.at = "free"
  BY <1>1, GoingFree
<1>3. PlaceOk(r)'
  BY <1>2 DEF PlaceOk, HostPlaces
<1> QED BY <1>1, <1>2, <1>3, RequestSteps DEF Sights, JobInv, JobTypes

-----------------------------------------------------------------------------
(* The invariant *)

LEMMA AgencyStarts ==
  ASSUME Init, NoneAssumption, TiersAssumption, TreesAssumption, MembershipAssumption
  PROVE  AgencyInv
<1>1. /\ profile \in [Hosts -> {NoProfile, None}] /\ hosts = Hosts \ agencies
      /\ view = [a \in Agencies |-> {}] /\ job = [c \in Calls |-> Free]
  BY DEF Init
<1>2. JobTypes
  BY <1>1, FreeIs DEF JobTypes
<1>3. PlacesInv
  BY <1>1, FreeIs DEF PlacesInv, PlaceOk, HostPlaces
<1>4. Solo(Free)
  <2>1. \A h \in Hosts : profile[h] \in {NoProfile, None} /\ profile[h] # h
                       /\ profile[h] \notin Agencies
    BY <1>1 DEF MembershipAssumption, NoneAssumption
  <2>2. agencies \cap hosts = {} /\ \A a \in Agencies : view[a] = {}
    BY <1>1
  <2> QED BY <2>1, <2>2, FreeIs DEF Solo, CheckHolds, Tells
<1>5. CalmInv
  BY <1>1, <1>4, FreeIs DEF CalmInv, At
<1> QED BY <1>2, <1>3, <1>5, MoneyStarts DEF AgencyInv, JobInv

LEMMA MoneyKeepsAgencies ==
  ASSUME MoneyNext
  PROVE  UNCHANGED <<agencies, banned>>
BY DEF MoneyNext, Take, StopClimbing, PassOver, CreditCommission,
       ReverseChatPaymentCommission, SkipReversed, ReverseLog, RefuseReversal,
       CommitReversal, Fail

\* What a step of a request is, but for a new agency.
LEMMA RequestKeepsMoney ==
  ASSUME NEW c \in Calls,
         \/ \E a \in Agencies, p \in agencies \cup {None} : CheckOwner(c, a, p)
         \/ \E a \in Agencies, h \in Hosts :
              \/ AddHostToAgency(c, a, h) \/ RemoveHostFromAgency(c, a, h)
              \/ JoinAgency(c, h, a)
         \/ \E h \in Hosts : LeaveAgency(c, h)
         \/ FindParent(c) \/ BecomeAgency(c) \/ FindUser(c) \/ FindAgency(c)
         \/ WriteAgency(c) \/ EmitAdded(c) \/ FindProfile(c) \/ ClearAgency(c)
         \/ EmitRemoved(c) \/ Lose(c)
  PROVE  UNCHANGED Money
BY DEF Money, vars, CheckOwner, AddHostToAgency, RemoveHostFromAgency, JoinAgency, LeaveAgency,
       FindParent, BecomeAgency, FindUser, FindAgency, WriteAgency, EmitAdded, FindProfile,
       ClearAgency, EmitRemoved, Lose

LEMMA AgencySteps ==
  ASSUME AgencyInv, [Next]_allVars, NoneAssumption, NumbersAssumption, TiersAssumption,
         MembershipAssumption
  PROVE  AgencyInv'
<1>1. MoneyInv /\ JobInv /\ agencies \subseteq Agencies
  BY DEF AgencyInv, MoneyInv, MoneyTypes
<1>2. CASE MemberNext
  <2>1. tx = None
    BY <1>2 DEF MemberNext
  <2>2. PICK c \in Calls :
         \/ \E a \in Agencies :
              \/ \E p \in agencies \cup {None} : CheckOwner(c, a, p)
              \/ \E h \in Hosts : \/ AddHostToAgency(c, a, h) \/ RemoveHostFromAgency(c, a, h)
                                  \/ JoinAgency(c, h, a)
         \/ \E h \in Hosts : LeaveAgency(c, h)
         \/ FindParent(c) \/ InsertAgency(c) \/ BecomeAgency(c) \/ FindUser(c)
         \/ FindAgency(c) \/ WriteAgency(c) \/ EmitAdded(c)
         \/ FindProfile(c) \/ ClearAgency(c) \/ EmitRemoved(c) \/ Lose(c)
    BY <1>2 DEF MemberNext
  <2>3. CASE InsertAgency(c)
    <3>1. Agency(c) \in Agencies /\ Whom(c) \in agencies \cup {None}
      BY <1>1, <2>3 DEF JobInv, PlacesInv, PlaceOk, InsertAgency, At, Agency, Whom
    <3> QED BY <1>1, <2>1, <2>3, <3>1, InsertAgencyMoney, InsertAgencyStep DEF AgencyInv
  <2>4. CASE ~InsertAgency(c)
    <3>1. MoneyInv'
      <4>1. UNCHANGED Money
        BY <2>2, <2>4, RequestKeepsMoney
      <4> QED BY <1>1, <4>1, MoneyStands
    <3>2. JobInv'
      BY <1>1, <2>2, <2>4, CheckOwnerStep, AddHostToAgencyStep, RemoveHostFromAgencyStep,
         JoinAgencyStep, LeaveAgencyStep, FindParentStep, BecomeAgencyStep, FindUserStep,
         FindAgencyStep, WriteAgencyStep, EmitStep, FindProfileStep, ClearAgencyStep, LoseStep
    <3> QED BY <3>1, <3>2 DEF AgencyInv
  <2> QED BY <2>3, <2>4
<1>3. CASE BanNext /\ UNCHANGED memberVars
  <2>1. UNCHANGED Money /\ (calm => Quiet)
    BY <1>3 DEF BanNext, SetAgencyBanStatus, Money
  <2> QED BY <1>1, <1>3, <2>1, MoneyStands, RequestsStand DEF AgencyInv, Money, memberVars
<1>4. CASE (PayNext \/ MoneyNext) /\ UNCHANGED memberVars
  <2>1. UNCHANGED <<agencies, banned>>
    BY <1>4, MoneyKeepsAgencies DEF PayNext, ProcessGiftCommission
  <2>2. MoneyInv'
    BY <1>1, <1>4, MoneyNextStep, ProcessGiftCommissionStep DEF PayNext
  <2>3. JobInv'
    BY <1>1, <1>4, <2>1, RequestsStand DEF memberVars
  <2> QED BY <2>2, <2>3 DEF AgencyInv
<1>5. CASE UNCHANGED allVars
  BY <1>1, <1>5, MoneyStands, RequestsStand DEF AgencyInv, allVars, vars, memberVars, Money
<1> QED BY <1>2, <1>3, <1>4, <1>5 DEF Next

-----------------------------------------------------------------------------
(* The logs add up *)

\* What the logs of a set earned, and the gifts they were earned on.
EarnedIn(S) == SumFunctionOnSet([l \in S |-> l.earned], S)
AmountIn(S) == SumFunctionOnSet([l \in S |-> l.amount], S)

LogsIn(b, a) == {l \in b.logs : l.agency = a}
StandingIn(b, a) == {l \in LogsIn(b, a) : ~l.reversal /\ ~Reversed(b, a, l.gift)}

\* The books agree with their logs, and an agency has one log of a gift.
AddUp(b) ==
  /\ IsFiniteSet(b.logs)
  /\ \A l, m \in b.logs :
       l.agency = m.agency /\ l.gift = m.gift /\ ~l.reversal /\ ~m.reversal => l = m
  /\ \A a \in Agencies : b.diamonds[a] + taken[a] = EarnedIn(LogsIn(b, a))
  /\ \A a \in Agencies : b.rolling[a] = AmountIn(StandingIn(b, a))

SumsInv ==
  taken \in [Agencies -> Nat] /\ AddUp(books) /\ (tx # None => AddUp(tx.began))

\* One more log adds what it earned, and its amount.
LEMMA OneMoreLog ==
  ASSUME NEW S \in SUBSET Log, IsFiniteSet(S), NEW r \in Log, r \notin S, NumbersAssumption
  PROVE  /\ EarnedIn(S) \in Int /\ EarnedIn(S \cup {r}) = EarnedIn(S) + r.earned
         /\ AmountIn(S) \in Nat /\ AmountIn(S \cup {r}) = AmountIn(S) + r.amount
<1> DEFINE T == S \cup {r}
<1>1. \A l \in T : l.earned \in Int /\ l.amount \in Nat
  BY LogsAre
<1>2. ASSUME NEW f, NEW g, \A l \in T : g[l] \in Int, \A l \in S : f[l] = g[l]
      PROVE  /\ SumFunctionOnSet(f, S) \in Int
             /\ SumFunctionOnSet(g, S \cup {r}) = SumFunctionOnSet(f, S) + g[r]
  <2>1. \A l \in S : f[l] \in Int /\ f[l] = g[l]
    BY <1>2
  <2>2. SumFunctionOnSet(f, S) = SumFunctionOnSet(g, S)
    BY <2>1, SumSame
  <2>3. SumFunctionOnSet(f, S) \in Int
    BY <2>1, SumRecursion
  <2>4. \A l \in S \cup {r} : g[l] \in Int
    BY <1>2
  <2>5. SumFunctionOnSet(g, S \cup {r}) = SumFunctionOnSet(g, S) + g[r]
    BY <2>4, SumWith
  <2> QED BY <2>2, <2>3, <2>5
<1>3. EarnedIn(S) \in Int /\ EarnedIn(T) = EarnedIn(S) + r.earned
  <2> DEFINE f == [l \in S |-> l.earned]
             g == [l \in T |-> l.earned]
  <2>1. (\A l \in T : g[l] \in Int) /\ (\A l \in S : f[l] = g[l]) /\ g[r] = r.earned
    BY <1>1
  <2>2. EarnedIn(S) = SumFunctionOnSet(f, S) /\ EarnedIn(T) = SumFunctionOnSet(g, S \cup {r})
    BY DEF EarnedIn
  <2> HIDE DEF f, g
  <2> QED BY <1>2, <2>1, <2>2
<1>4. AmountIn(S) \in Nat /\ AmountIn(T) = AmountIn(S) + r.amount
  <2> DEFINE f == [l \in S |-> l.amount]
             g == [l \in T |-> l.amount]
  <2>1. /\ \A l \in T : g[l] \in Int
        /\ \A l \in S : f[l] = g[l] /\ f[l] \in Nat
        /\ g[r] = r.amount
    BY <1>1
  <2>2. AmountIn(S) = SumFunctionOnSet(f, S) /\ AmountIn(T) = SumFunctionOnSet(g, S \cup {r})
    BY DEF AmountIn
  <2> HIDE DEF f, g
  <2>3. SumFunctionOnSet(f, S) \in Nat
    BY <2>1, SumNatural
  <2> QED BY <1>2, <2>1, <2>2, <2>3
<1> QED BY <1>3, <1>4

\* The sets of logs of an agency when one more log is written.
LEMMA LogsGrow ==
  ASSUME NEW b, NEW c, NEW r, c.logs = b.logs \cup {r}, NEW a
  PROVE  /\ LogsIn(c, a) = IF r.agency = a THEN LogsIn(b, a) \cup {r} ELSE LogsIn(b, a)
         /\ r.agency # a => StandingIn(c, a) = StandingIn(b, a)
BY DEF LogsIn, StandingIn, Reversed

LEMMA LogsAreFinite ==
  ASSUME NEW b \in Books, IsFiniteSet(b.logs), NEW a
  PROVE  /\ LogsIn(b, a) \in SUBSET Log /\ IsFiniteSet(LogsIn(b, a))
         /\ StandingIn(b, a) \in SUBSET Log /\ IsFiniteSet(StandingIn(b, a))
<1>1. LogsIn(b, a) \subseteq b.logs /\ StandingIn(b, a) \subseteq b.logs
  BY DEF LogsIn, StandingIn
<1> QED BY <1>1, BooksAre, FS_Subset

LEMMA CreditAddsUp ==
  ASSUME MoneyInv, SumsInv, NumbersAssumption, TiersAssumption, CreditCommission
  PROVE  AddUp(books)'
<1> DEFINE a == tx.at
           e == Share(tx.amount, RateOf(a), SubRate)
           new == Commission(a, e)
<1>1. /\ tx \in Payments /\ tx.gift \in Gifts /\ tx.amount \in Amounts /\ tx.amount \in Nat
      /\ a \in Agencies /\ Paying /\ taken' = taken /\ books \in Books
  BY TxIs DEF MoneyInv, MoneyTypes, NumbersAssumption, CreditCommission
<1>2. RateOf(a) \in Nat /\ SubRate \in Nat
  BY <1>1, RatesAre
<1>3. e \in Nat
  <2>1. e \in Int
    BY <1>1, <1>2, ShareBound
  <2>2. e > 0
    BY DEF CreditCommission
  <2> HIDE DEF e
  <2> QED BY <2>1, <2>2
<1>4. /\ new \in Log /\ new.agency = a /\ new.gift = tx.gift /\ new.amount = tx.amount
      /\ new.earned = e /\ ~new.reversal
  <2> HIDE DEF e
  <2> QED BY <1>1, <1>2, <1>3 DEF Commission, Log
<1>5. books' = Credited(books, a, e)
  BY DEF CreditCommission
<1> HIDE DEF a, e, new
<1>6. /\ books' \in Books /\ books'.logs = books.logs \cup {new}
      /\ \A x \in Agencies : books'.rolling[x] =
           IF x = a THEN books.rolling[a] + tx.amount ELSE books.rolling[x]
      /\ \A x \in Agencies : books'.diamonds[x] =
           IF x = a THEN books.diamonds[a] + e ELSE books.diamonds[x]
  BY <1>1, <1>3, <1>4, <1>5, BooksCredited DEF new
<1>7. \A l \in books.logs : l.gift = tx.gift => l.agency # a
  BY <1>1 DEF MoneyInv, PayInv, Ahead, a
<1>8. new \notin books.logs
  BY <1>4, <1>7
<1>9. IsFiniteSet(books'.logs)
  <2>1. IsFiniteSet(books.logs) /\ books'.logs = books.logs \cup {new}
    BY <1>6 DEF SumsInv, AddUp
  <2>2. \A x : IsFiniteSet(books.logs \cup {x})
    BY <2>1, FS_AddElement
  <2> QED BY <2>1, <2>2
<1>10. \A l, m \in books'.logs :
         l.agency = m.agency /\ l.gift = m.gift /\ ~l.reversal /\ ~m.reversal => l = m
  BY <1>4, <1>6, <1>7 DEF SumsInv, AddUp
<1>11. ASSUME NEW x \in Agencies
       PROVE  /\ books'.diamonds[x] + taken[x] = EarnedIn(LogsIn(books', x))
              /\ books'.rolling[x] = AmountIn(StandingIn(books', x))
  <2>1. /\ books.diamonds[x] + taken[x] = EarnedIn(LogsIn(books, x))
        /\ books.rolling[x] = AmountIn(StandingIn(books, x))
        /\ taken[x] \in Nat /\ books.diamonds[x] \in Nat /\ IsFiniteSet(books.logs)
    BY <1>1, BooksAre DEF SumsInv, AddUp
  <2>2. CASE x # a
    BY <1>4, <1>6, <2>1, <2>2, LogsGrow
  <2>3. CASE x = a
    <3>1. /\ LogsIn(books, x) \in SUBSET Log /\ IsFiniteSet(LogsIn(books, x))
          /\ StandingIn(books, x) \in SUBSET Log /\ IsFiniteSet(StandingIn(books, x))
      BY <1>1, <2>1, LogsAreFinite
    <3>2. new \notin LogsIn(books, x) /\ new \notin StandingIn(books, x)
      BY <1>8 DEF LogsIn, StandingIn
    <3>3. LogsIn(books', x) = LogsIn(books, x) \cup {new}
      BY <1>4, <1>6, <2>3 DEF LogsIn
    <3>4. StandingIn(books', x) = StandingIn(books, x) \cup {new}
      BY <1>4, <1>6, <1>7, <2>3 DEF StandingIn, LogsIn, Reversed
    <3>5. /\ EarnedIn(LogsIn(books, x) \cup {new}) = EarnedIn(LogsIn(books, x)) + e
          /\ AmountIn(StandingIn(books, x) \cup {new}) = AmountIn(StandingIn(books, x)) + tx.amount
      BY <1>4, <3>1, <3>2, OneMoreLog
    <3>6. /\ books'.rolling[x] = books.rolling[x] + tx.amount
          /\ books'.diamonds[x] = books.diamonds[x] + e
      BY <1>1, <1>6, <2>3
    <3> QED BY <1>3, <2>1, <3>3, <3>4, <3>5, <3>6
  <2> QED BY <2>2, <2>3
<1> QED BY <1>1, <1>9, <1>10, <1>11 DEF AddUp

LEMMA ReverseAddsUp ==
  ASSUME MoneyInv, SumsInv, NumbersAssumption, NEW l \in tx.left, ReverseLog(l)
  PROVE  AddUp(books)'
<1> DEFINE a == l.agency
<1>1. /\ l \in books.logs /\ l \in Log /\ l.gift = tx.gift /\ ~l.reversal
      /\ a \in Agencies /\ l.amount \in Nat /\ l.earned \in Int
  BY LeftIs, LogsAre DEF ReverseLog
<1>2. books \in Books /\ taken' = taken /\ ~Reversed(books, a, l.gift)
  BY DEF MoneyInv, MoneyTypes, ReverseLog, Logged, Reversed
<1>3. PICK r \in Log :
        /\ r.agency = a /\ r.gift = l.gift /\ r.reversal /\ r.earned = -l.earned
        /\ books' \in Books /\ books'.logs = books.logs \cup {r}
        /\ \A x \in Agencies : books'.diamonds[x] =
             IF x = a THEN books.diamonds[x] - l.earned ELSE books.diamonds[x]
        /\ \A x \in Agencies : x # a => books'.rolling[x] = books.rolling[x]
        /\ l.amount <= books.rolling[a] => books'.rolling[a] = books.rolling[a] - l.amount
  <2>1. books.diamonds[l.agency] >= l.earned /\ books' = Undone(books, l)
    BY DEF ReverseLog
  <2> QED BY <1>1, <1>2, <2>1, BooksUndone
<1> HIDE DEF a
<1>4. r \notin books.logs
  BY <1>2, <1>3 DEF Reversed
<1>5. IsFiniteSet(books.logs) /\ IsFiniteSet(books'.logs)
  <2>1. IsFiniteSet(books.logs) /\ books'.logs = books.logs \cup {r}
    BY <1>3 DEF SumsInv, AddUp
  <2> QED BY <2>1, FS_AddElement
<1>6. \A k, m \in books'.logs :
        k.agency = m.agency /\ k.gift = m.gift /\ ~k.reversal /\ ~m.reversal => k = m
  BY <1>3 DEF SumsInv, AddUp
<1>7. ASSUME NEW x \in Agencies
      PROVE  /\ books'.diamonds[x] + taken[x] = EarnedIn(LogsIn(books', x))
             /\ books'.rolling[x] = AmountIn(StandingIn(books', x))
  <2>1. /\ books.diamonds[x] + taken[x] = EarnedIn(LogsIn(books, x))
        /\ books.rolling[x] = AmountIn(StandingIn(books, x))
        /\ taken[x] \in Nat /\ books.diamonds[x] \in Nat
    BY <1>2, BooksAre DEF SumsInv, AddUp
  <2>2. CASE x # a
    BY <1>3, <2>1, <2>2, LogsGrow
  <2>3. CASE x = a
    <3>1. /\ LogsIn(books, x) \in SUBSET Log /\ IsFiniteSet(LogsIn(books, x))
          /\ StandingIn(books', x) \in SUBSET Log /\ IsFiniteSet(StandingIn(books', x))
      BY <1>2, <1>3, <1>5, LogsAreFinite
    <3>2. LogsIn(books', x) = LogsIn(books, x) \cup {r} /\ r \notin LogsIn(books, x)
      BY <1>3, <1>4, <2>3, LogsGrow DEF LogsIn
    <3>3. EarnedIn(LogsIn(books', x)) = EarnedIn(LogsIn(books, x)) - l.earned
      <4>1. EarnedIn(LogsIn(books, x)) \in Int
        BY <3>1, <3>2, OneMoreLog
      <4>2. EarnedIn(LogsIn(books, x) \cup {r}) = EarnedIn(LogsIn(books, x)) + r.earned
        BY <3>1, <3>2, OneMoreLog
      <4> QED BY <1>1, <1>3, <3>2, <4>1, <4>2
    <3>4. /\ StandingIn(books, x) = StandingIn(books', x) \cup {l}
          /\ l \notin StandingIn(books', x)
      <4>1. l \in StandingIn(books, x)
        BY <1>1, <1>2, <2>3 DEF StandingIn, LogsIn, a
      <4>2. \A m : Reversed(books', x, m) <=> Reversed(books, x, m) \/ m = l.gift
        BY <1>3, <2>3 DEF Reversed
      <4>3. \A m \in StandingIn(books, x) : m.gift = l.gift => m = l
        BY <1>1, <2>3 DEF StandingIn, LogsIn, SumsInv, AddUp, a
      <4>4. \A m : m \in StandingIn(books', x) <=> m \in StandingIn(books, x) /\ m.gift # l.gift
        BY <1>3, <4>2 DEF StandingIn, LogsIn
      <4> QED BY <4>1, <4>3, <4>4
    <3>5. /\ AmountIn(StandingIn(books', x)) \in Nat
          /\ AmountIn(StandingIn(books, x)) = AmountIn(StandingIn(books', x)) + l.amount
      BY <1>1, <3>1, <3>4, OneMoreLog
    <3>6. l.amount <= books.rolling[x]
      BY <1>1, <2>1, <3>5
    <3>7. books'.rolling[x] = books.rolling[x] - l.amount
      BY <1>3, <2>3, <3>6
    <3>8. books'.diamonds[x] = books.diamonds[x] - l.earned
      BY <1>3, <2>3
    <3> QED BY <1>1, <2>1, <3>3, <3>5, <3>7, <3>8
  <2> QED BY <2>2, <2>3
<1> QED BY <1>2, <1>5, <1>6, <1>7 DEF AddUp

LEMMA TakeAddsUp ==
  ASSUME MoneyInv, SumsInv, NEW a \in Agencies, Take(a)
  PROVE  SumsInv'
<1>1. /\ books \in Books /\ tx' = None
      /\ taken' = [taken EXCEPT ![a] = @ + books.diamonds[a]]
      /\ books' = [books EXCEPT !.diamonds[a] = 0]
  BY DEF Take, MoneyInv, MoneyTypes
<1>2. /\ books'.logs = books.logs /\ books'.rolling = books.rolling
      /\ \A x \in Agencies : books'.diamonds[x] = IF x = a THEN 0 ELSE books.diamonds[x]
      /\ \A x \in Agencies : books.diamonds[x] \in Nat
  BY <1>1 DEF Books
<1>3. /\ taken' \in [Agencies -> Nat]
      /\ \A x \in Agencies : taken'[x] = IF x = a THEN taken[a] + books.diamonds[a] ELSE taken[x]
      /\ \A x \in Agencies : taken[x] \in Nat
  BY <1>1, <1>2 DEF SumsInv
<1>4. \A x \in Agencies : books'.diamonds[x] + taken'[x] = books.diamonds[x] + taken[x]
  BY <1>2, <1>3
<1>5. \A x : LogsIn(books', x) = LogsIn(books, x) /\ StandingIn(books', x) = StandingIn(books, x)
  BY <1>2 DEF LogsIn, StandingIn, Reversed
<1>6. AddUp(books)'
  BY <1>2, <1>4, <1>5 DEF SumsInv, AddUp
<1> QED BY <1>1, <1>3, <1>6 DEF SumsInv

\* A transaction that goes on still knows the books it began with.
LEMMA ClimbKeepsBegan ==
  ASSUME MoneyInv, Paying, Climb
  PROVE  tx' = None \/ (tx # None /\ tx'.began = tx.began)
<1>1. tx \in Payments /\ tx # None
  BY TxIs DEF MoneyInv
<1> DEFINE t == [tx EXCEPT !.at = parent[tx.at], !.child = tx.at]
<1>2. t.began = tx.began
  BY <1>1 DEF Payments
<1>3. tx' = None \/ tx' = t
  BY DEF Climb, Commit
<1> HIDE DEF t
<1> QED BY <1>1, <1>2, <1>3

\* A rollback brings books back that added up, and the owners cannot have taken
\* any diamonds since.
LEMMA SumsStep ==
  ASSUME AgencyInv, SumsInv, [Next]_allVars, NumbersAssumption, TiersAssumption
  PROVE  SumsInv'
<1>0. MoneyInv
  BY DEF AgencyInv
<1>1. ASSUME taken' = taken, AddUp(books)',
             tx' = None \/ (tx # None /\ tx'.began = tx.began)
      PROVE  SumsInv'
  BY <1>1 DEF SumsInv, AddUp
<1>2. ASSUME taken' = taken, books' = books PROVE AddUp(books)'
  BY <1>2 DEF SumsInv, AddUp
<1>3. ASSUME UNCHANGED <<books, taken>>, tx' = None \/ tx'.began = books PROVE SumsInv'
  BY <1>3 DEF SumsInv, AddUp
<1>4. ASSUME UNCHANGED <<books, tx, taken>> PROVE SumsInv'
  BY <1>4 DEF SumsInv, AddUp
<1>5. ASSUME Abort, taken' = taken, tx # None PROVE SumsInv'
  BY <1>5 DEF SumsInv, AddUp, Abort
<1>6. CASE MoneyNext
  <2>1. CASE \E a \in Agencies : Take(a)
    BY <1>0, <2>1, TakeAddsUp
  <2>2. CASE StopClimbing
    BY <1>1, <1>2, <2>2 DEF StopClimbing, Commit
  <2>3. CASE PassOver
    BY <1>0, <1>1, <1>2, <2>3, ClimbKeepsBegan DEF PassOver
  <2>4. CASE CreditCommission
    BY <1>0, <1>1, <2>4, ClimbKeepsBegan, CreditAddsUp DEF CreditCommission
  <2>5. ASSUME NEW g \in Gifts, ReverseChatPaymentCommission(g) PROVE SumsInv'
    BY <1>3, <2>5 DEF ReverseChatPaymentCommission
  <2>6. ASSUME NEW l \in tx.left, Reversing,
               SkipReversed(l) \/ ReverseLog(l) \/ RefuseReversal(l)
        PROVE  SumsInv'
    <3>1. tx # None /\ (tx' = Without(l) => tx'.began = tx.began)
      BY <1>0, <2>6, WithoutOne DEF MoneyInv, Reversing
    <3>2. CASE SkipReversed(l)
      BY <1>1, <1>2, <3>1, <3>2 DEF SkipReversed
    <3>3. CASE ReverseLog(l)
      BY <1>0, <1>1, <3>1, <3>3, ReverseAddsUp DEF ReverseLog
    <3>4. CASE RefuseReversal(l)
      BY <1>5, <3>1, <3>4 DEF RefuseReversal
    <3> QED BY <2>6, <3>2, <3>3, <3>4
  <2>7. CASE CommitReversal
    BY <1>1, <1>2, <2>7 DEF CommitReversal, Commit
  <2>8. CASE Fail
    BY <1>5, <2>8 DEF Fail
  <2> QED BY <1>6, <2>1, <2>2, <2>3, <2>4, <2>5, <2>6, <2>7, <2>8 DEF MoneyNext
<1>7. CASE PayNext
  <2>1. PICK g, a, n : ProcessGiftCommission(g, a, n)
    BY <1>7 DEF PayNext
  <2> QED BY <1>3, <2>1 DEF ProcessGiftCommission
<1>8. CASE MemberNext \/ BanNext \/ UNCHANGED allVars
  <2>1. UNCHANGED <<books, tx, taken>>
    BY <1>8 DEF MemberNext, BanNext, SetAgencyBanStatus, allVars, vars, NoMoney, CheckOwner,
       AddHostToAgency, RemoveHostFromAgency, JoinAgency, LeaveAgency, FindParent,
       InsertAgency, BecomeAgency, FindUser, FindAgency, WriteAgency, EmitAdded,
       FindProfile, ClearAgency, EmitRemoved, Lose
  <2> QED BY <1>4, <2>1
<1> QED BY <1>6, <1>7, <1>8 DEF Next

LEMMA SumsStart ==
  ASSUME Init
  PROVE  SumsInv
<1>1. /\ books.logs = {} /\ tx = None /\ taken = [a \in Agencies |-> 0]
      /\ \A a \in Agencies : books.diamonds[a] = 0 /\ books.rolling[a] = 0
  BY DEF Init, MoneyInit
<1>2. \A a : LogsIn(books, a) = {} /\ StandingIn(books, a) = {}
  BY <1>1 DEF LogsIn, StandingIn
<1>3. IsFiniteSet({})
  BY FS_EmptySet
<1>4. EarnedIn({}) = 0 /\ AmountIn({}) = 0
  BY <1>3, SumRecursion DEF EarnedIn, AmountIn
<1>5. AddUp(books)
  BY <1>1, <1>2, <1>3, <1>4 DEF AddUp
<1> QED BY <1>1, <1>5 DEF SumsInv

\* Books, transaction and requests are always as AgencyInv says.
THEOREM AgencyAlways == Spec => []AgencyInv
<1>1. Init => AgencyInv
  BY AgencyStarts, NoneAssumption, TiersAssumption, TreesAssumption, MembershipAssumption
<1>2. AgencyInv /\ [Next]_allVars => AgencyInv'
  BY AgencySteps, NoneAssumption, NumbersAssumption, TiersAssumption, MembershipAssumption
<1> QED BY <1>1, <1>2, PTL DEF Spec

\* For any tree of agencies, in whatever order the logs are reversed and
\* wherever a transaction fails: a payment's commission is reversed for all of
\* its agencies or for none (agency.service.ts 658-661, 714-724).
THEOREM ReversalIsWholeAlways == Spec => []ReversalIsWhole
<1>1. AgencyInv => ReversalIsWhole
  BY DEF AgencyInv, MoneyInv, BooksInv, Settled, Whole, Earned, Reversed, ReversalIsWhole,
         Of, Logged
<1> QED BY <1>1, AgencyAlways, PTL

\* For any tiers whose rates grow, an agency and the one below it never earn
\* more on a payment than the upper one's rate gives (agency.service.ts 459-460).
THEOREM AdjacentWithinParentsRateAlways == Spec => []AdjacentWithinParentsRate
<1>1. AgencyInv => AdjacentWithinParentsRate
  BY DEF AgencyInv, MoneyInv, BooksInv, SharesFit, Earned, AdjacentWithinParentsRate, Of
<1> QED BY <1>1, AgencyAlways, PTL

\* No owner's diamonds fall below zero, whatever is reversed after the owner has
\* taken the diamonds out (agency.service.ts 714-724).
THEOREM OwnersStaySolvent == Spec => [](\A a \in Agencies : books.diamonds[a] >= 0)
<1>1. AgencyInv => \A a \in Agencies : books.diamonds[a] >= 0
  BY BooksAre DEF AgencyInv, MoneyInv, MoneyTypes
<1> QED BY <1>1, AgencyAlways, PTL

\* The books always agree with the logs they are explained by.
THEOREM SumsAlways == Spec => [](AgencyInv /\ SumsInv)
<1>1. Init => SumsInv
  BY SumsStart
<1>2. AgencyInv /\ SumsInv /\ [Next]_allVars => SumsInv'
  BY SumsStep, NumbersAssumption, TiersAssumption
<1> QED BY <1>1, <1>2, AgencyAlways, PTL DEF Spec

\* For any tree, tiers and gifts, wherever a payment or a reversal is cut off:
\* what an owner holds and has taken out is the sum of the owner's logs
\* (agency.service.ts 551-606, 714-762).
THEOREM LogsExplainDiamondsAlways == Spec => []LogsExplainDiamonds
<1>1. AgencyInv /\ SumsInv => LogsExplainDiamonds
  <2> SUFFICES ASSUME AgencyInv, SumsInv, NEW a \in Agencies
               PROVE  books.diamonds[a] >= 0 /\ books.diamonds[a] + taken[a] = EarnedBy(a)
    BY DEF LogsExplainDiamonds
  <2>1. books.diamonds[a] \in Nat
    BY BooksAre DEF AgencyInv, MoneyInv, MoneyTypes
  <2>2. EarnedBy(a) = EarnedIn(LogsIn(books, a))
    BY DEF EarnedBy, EarnedIn, LogsOf, LogsIn
  <2> QED BY <2>1, <2>2 DEF SumsInv, AddUp
<1> QED BY <1>1, SumsAlways, PTL

\* The rolling counter, which alone decides the tier, is the sum of the gifts
\* whose commission stands: stopping at zero hides none (609-615, 765-772).
THEOREM RollingMatchesLogsAlways == Spec => []RollingMatchesLogs
<1>1. SumsInv => RollingMatchesLogs
  <2> SUFFICES ASSUME SumsInv, NEW a \in Agencies
               PROVE  books.rolling[a] = ThroughGifts(a)
    BY DEF RollingMatchesLogs
  <2>1. Standing(a) = StandingIn(books, a)
    BY DEF Standing, StandingIn, LogsOf, LogsIn, Logged, Reversed
  <2> QED BY <2>1 DEF SumsInv, AddUp, ThroughGifts, AmountIn
<1> QED BY <1>1, SumsAlways, PTL

LEMMA CalmIsSolo ==
  ASSUME AgencyInv, calm
  PROVE  \E r : Solo(r) /\ (Quiet => r = Free)
BY DEF AgencyInv, JobInv, CalmInv, Quiet

\* With one call at a time, whatever hosts, agencies and calls there are, nobody
\* becomes a host of his own agency (agency.service.ts 74-77, 180-182, 270-272).
THEOREM NobodyHostsForHimselfAlways == Spec => []NobodyHostsForHimself
<1>1. AgencyInv => NobodyHostsForHimself
  BY CalmIsSolo DEF Solo, NobodyHostsForHimself
<1> QED BY <1>1, AgencyAlways, PTL

\* With one call at a time an owner has been told of just the hosts it has, when
\* no call is under way (agency.service.ts 210-213, 307-310, 338-343).
THEOREM OwnersSeeTheirHostsAlways == Spec => []OwnersSeeTheirHosts
<1>1. ASSUME AgencyInv
      PROVE  OwnersSeeTheirHosts
  <2> SUFFICES ASSUME calm, Quiet, NEW a \in Agencies
               PROVE  view[a] = {h \in Hosts : profile[h] = a}
    BY DEF OwnersSeeTheirHosts
  <2>1. Solo(Free)
    BY <1>1 DEF AgencyInv, JobInv, CalmInv
  <2>2. \A h \in Hosts : h \in view[a] <=> profile[h] = a
    BY <2>1, FreeIs DEF Solo, Tells
  <2>3. view[a] \subseteq Hosts
    BY <1>1 DEF AgencyInv, JobInv, JobTypes
  <2> QED BY <2>2, <2>3
<1> QED BY <1>1, AgencyAlways, PTL

\* A step in which a host enters an agency.
Enters == calm => \A h \in Hosts : profile'[h] \in Agencies /\ profile'[h] # profile[h] =>
                    profile[h] \notin Agencies /\ profile'[h] \notin banned

LEMMA WriteEnters ==
  ASSUME JobInv, NEW c \in Calls, WriteAgency(c)
  PROVE  Enters
<1> SUFFICES ASSUME calm
             PROVE  Enters
  BY DEF Enters
<1>1. /\ PlaceOk(job[c]) /\ job[c].at = "write" /\ Solo(job[c])
  BY AloneWhen DEF JobInv, PlacesInv, WriteAgency, At
<1>2. PICK h \in Hosts, a \in Agencies : h = Whom(c) /\ a = Agency(c)
  BY <1>1 DEF PlaceOk, HostPlaces, Whom, Agency
<1>3. profile[h] \notin Agencies /\ a \notin banned
  BY <1>1, <1>2 DEF Solo, CheckHolds, Whom, Agency
<1>4. profile' = profile \/ profile' = [profile EXCEPT ![h] = a]
  BY <1>2 DEF WriteAgency
<1>5. \A g \in Hosts : profile'[g] = profile[g] \/ (g = h /\ profile'[g] = a)
  BY <1>4 DEF JobInv, JobTypes
<1> QED BY <1>3, <1>5 DEF Enters

\* For any hosts, agencies and calls, one at a time, a host enters an agency
\* from none, and never a banned one (agency.service.ts 166-203, 278-303).
THEOREM EntersFreelyAlways == Spec => EntersFreely
<1>1. ASSUME AgencyInv, [Next]_allVars
      PROVE  Enters
  <2>1. CASE UNCHANGED profile
    BY <2>1 DEF Enters
  <2>2. CASE \E c \in Calls : WriteAgency(c)
    BY <1>1, <2>2, WriteEnters DEF AgencyInv
  <2>3. CASE \E c \in Calls : ClearAgency(c)
    <3>1. PICK c \in Calls : profile' = [profile EXCEPT ![Whom(c)] = None]
      BY <2>3 DEF ClearAgency
    <3>2. \A h \in Hosts : profile'[h] = profile[h] \/ profile'[h] = None
      BY <1>1, <3>1 DEF AgencyInv, JobInv, JobTypes
    <3> QED BY <3>2, NoneAssumption DEF Enters, NoneAssumption
  <2>4. MemberNext => \/ UNCHANGED profile
                      \/ \E c \in Calls : WriteAgency(c) \/ ClearAgency(c)
    BY DEF MemberNext, CheckOwner, AddHostToAgency, RemoveHostFromAgency, JoinAgency,
           LeaveAgency, FindParent, InsertAgency, BecomeAgency, FindUser, FindAgency,
           EmitAdded, FindProfile, EmitRemoved, Lose
  <2> QED BY <1>1, <2>1, <2>2, <2>3, <2>4 DEF Next, memberVars, allVars
<1> QED BY <1>1, AgencyAlways, PTL DEF Spec, EntersFreely, Enters
=============================================================================
