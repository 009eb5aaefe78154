----------------------------- MODULE HostProofs -----------------------------
(***************************************************************************)
(* For every set of hosts and calls, any salary tiers, any times: a reward  *)
(* is justified by its day's row; and for a host that makes one claim at a  *)
(* time each reward is paid once a day, no new-host reward follows an       *)
(* ordinary one, and each superstar's salary is paid once.                  *)
(*                                                                         *)
(* HostInv is inductive.  A claim under way has read no more than its row   *)
(* holds now, because rows only grow; the marks of the day and of the month *)
(* are never taken back; and the claims of one host are kept apart, so what *)
(* a claim has read of the marks still holds when it pays.                  *)
(***************************************************************************)
EXTENDS HostReward, SumProofs, FiniteSetTheorems, WellFoundedInduction, TLAPS

Places == {"idle", "ended", "weekly", "stat", "create", "find", "award", "level", "pay"}
Call == [at: Places, kind: Kinds, host: Hosts \cup {Nobody}, date: Nat, day: Days,
         income: Nat, hours: Nat, due: SUBSET Hosts]
Stat == [there: BOOLEAN, income: Nat, hours: Nat, daily: BOOLEAN, new: BOOLEAN]
Entry == [call: Calls, kind: ClaimKinds \cup {"salary", "agency"}, host: Hosts,
          date: Nat, day: Days, amount: Nat]

TypeInv ==
  /\ now \in Nat /\ now >= RegisteredAt /\ now <= LastTick
  /\ stat \in [Hosts -> [Days -> Stat]]
  /\ DOMAIN star = Hosts /\ \A h \in Hosts : "paid" \in DOMAIN star[h]
  /\ call \in [Calls -> Call]
  /\ awards \subseteq Entry

Busy(r) == r.at \notin {"idle", "ended"}
Claims(r) == r.at \in {"stat", "create", "find", "award", "level"}

\* What is true of a call whatever the others do.
CallOk(r) ==
  /\ Claims(r) => r.kind \in ClaimKinds /\ r.host \in Hosts
  /\ r.at = "find" => r.kind = "ordinary"
  /\ r.at = "weekly" => r.kind = "income" /\ r.host \in Hosts
  /\ r.at = "pay" => r.kind = "salary"
  /\ r.at \in {"find", "award"} =>
       /\ r.income <= stat[r.host][r.day].income
       /\ RequiredHours <= r.hours /\ r.hours <= stat[r.host][r.day].hours
       /\ r.kind = "daily" => SalaryTier(r.income, r.hours) > 0
  /\ Busy(r) /\ r.kind = "ordinary" => IsOrdinary

\* What is true of a payment.
Justified(a) ==
  LET s == stat[a.host][a.day] IN
  /\ s.hours >= RequiredHours
  /\ a.kind = "daily" =>
       \E i \in DOMAIN Tiers : Tiers[i].bonus = a.amount /\ Tiers[i].target <= s.income
EntryOk(a) ==
  /\ a.kind \in ClaimKinds => Justified(a)
  /\ a.kind = "daily" => stat[a.host][a.day].daily
  /\ a.kind = "new" => stat[a.host][a.day].new
  /\ a.kind = "ordinary" => IsOrdinary
  /\ a.kind \in {"salary", "agency"} => star[a.host].paid

\* Claims of one host, and salary runs, are kept apart.
Apart(r, q) ==
  /\ ~(r.kind \in ClaimKinds /\ q.kind \in ClaimKinds /\ r.host = q.host)
  /\ ~(r.kind = "salary" /\ q.kind = "salary")

\* What a call has read of the marks still holds.
MarksHold(r) ==
  /\ r.at = "award" /\ r.kind = "daily" => ~stat[r.host][r.day].daily
  /\ r.at = "award" /\ r.kind = "new" => ~stat[r.host][r.day].new
  /\ r.at = "award" /\ r.kind = "ordinary" =>
       \A a \in awards : ~(a.kind = "ordinary" /\ a.host = r.host /\ a.date = r.date)
  /\ r.at = "pay" => \A h \in r.due : ~star[h].paid
  /\ Busy(r) /\ r.kind = "new" => \A a \in awards : ~(a.kind = "ordinary" /\ a.host = r.host)

OnceEach ==
  \A a, b \in awards : Overlap(a, b) =>
    /\ a.kind \in {"daily", "new"} => a.day # b.day
    /\ a.kind = "ordinary" => a.date # b.date
    /\ a.kind \notin {"salary", "agency"}

CalmInv == calm =>
  /\ \A c, d \in Calls : c # d /\ Busy(call[c]) /\ Busy(call[d]) => Apart(call[c], call[d])
  /\ \A c \in Calls : MarksHold(call[c])
  /\ OnceEach

HostInv ==
  /\ TypeInv
  /\ \A c \in Calls : CallOk(call[c])
  /\ \A a \in awards : EntryOk(a)
  /\ CalmInv

-----------------------------------------------------------------------------
(* Tiers and times *)

LEMMA SmallestOf ==
  ASSUME NEW S \in SUBSET Nat, S # {}
  PROVE  \E n \in S : \A m \in S : n <= m
<1>1. PICK n \in S : \A m \in S : ~(<<m, n>> \in OpToRel(<, Nat))
  BY NatLessThanWellFounded, WFMin
<1>2. \A m \in S : ~(m < n)
  BY <1>1 DEF OpToRel
<1> QED BY <1>2

LEMMA TiersAre ==
  ASSUME TiersAssumption
  PROVE  /\ DOMAIN Tiers = 1..Len(Tiers) /\ Len(Tiers) \in Nat
         /\ \A i \in DOMAIN Tiers : Tiers[i].target \in Nat /\ Tiers[i].bonus \in Nat
         /\ \A i, j \in DOMAIN Tiers : i < j => Tiers[i].target < Tiers[j].target
<1> DEFINE Tier == [target: Nat, bonus: Nat]
<1>1. Tiers \in Seq(Tier)
  BY DEF TiersAssumption
<1>2. \A i \in DOMAIN Tiers : Tiers[i] \in Tier
  <2> HIDE DEF Tier
  <2> QED BY <1>1
<1>3. DOMAIN Tiers = 1..Len(Tiers) /\ Len(Tiers) \in Nat
  <2> HIDE DEF Tier
  <2> QED BY <1>1
<1>4. \A x \in Tier : x.target \in Nat /\ x.bonus \in Nat
  OBVIOUS
<1>5. \A i \in DOMAIN Tiers : Tiers[i].target \in Nat /\ Tiers[i].bonus \in Nat
  <2> HIDE DEF Tier
  <2> QED BY <1>2, <1>4
<1>6. \A i, j \in DOMAIN Tiers : i < j => Tiers[i].target < Tiers[j].target
  <2> HIDE DEF Tier
  <2> QED BY DEF TiersAssumption
<1> QED BY <1>3, <1>5, <1>6

\* The tiers reached are the first ones, so their number is the last of them.
LEMMA SalaryTierReached ==
  ASSUME NEW income \in Nat, NEW hours \in Nat, TiersAssumption,
         SalaryTier(income, hours) > 0
  PROVE  /\ hours >= RequiredHours
         /\ SalaryTier(income, hours) \in DOMAIN Tiers
         /\ Tiers[SalaryTier(income, hours)].target <= income
<1> DEFINE reached == {i \in DOMAIN Tiers : Tiers[i].target <= income}
           bounds == {u \in Nat : \A i \in reached : i <= u}
<1>1. /\ DOMAIN Tiers = 1..Len(Tiers) /\ Len(Tiers) \in Nat
      /\ \A i \in DOMAIN Tiers : Tiers[i].target \in Nat
      /\ \A i, j \in DOMAIN Tiers : i < j => Tiers[i].target < Tiers[j].target
  BY TiersAre
<1>2. reached \subseteq Nat \ {0}
  BY <1>1
<1>3. ~(hours < RequiredHours) /\ SalaryTier(income, hours) = Cardinality(reached)
  BY DEF SalaryTier
<1>4. PICK u \in bounds : \A v \in bounds : u <= v
  <2>1. Len(Tiers) \in bounds
    BY <1>1
  <2>2. bounds \in SUBSET Nat /\ bounds # {}
    BY <2>1
  <2> HIDE DEF bounds
  <2> QED BY <2>2, SmallestOf
<1>5. reached # {}
  <2>1. reached = {} => Cardinality(reached) = 0
    BY FS_EmptySet
  <2> HIDE DEF reached
  <2> QED BY <2>1, <1>3
<1>6. u \in Nat /\ u >= 1
  BY <1>2, <1>5
<1>7. u \in reached
  <2>1. u - 1 \in Nat /\ ~(u <= u - 1)
    BY <1>6
  <2>2. u - 1 \notin bounds
    <3> HIDE DEF bounds
    <3> QED BY <1>4, <2>1
  <2>3. PICK i \in reached : ~(i <= u - 1)
    BY <2>1, <2>2
  <2>4. i <= u /\ i \in Nat
    BY <1>2
  <2> QED BY <1>6, <2>3, <2>4
<1>8. reached = 1..u
  <2>1. \A i \in reached : i \in 1..u
    BY <1>2, <1>6
  <2>2. ASSUME NEW i \in 1..u
        PROVE  i \in reached
    <3>1. i \in DOMAIN Tiers /\ u \in DOMAIN Tiers /\ Tiers[u].target <= income
      BY <1>1, <1>6, <1>7
    <3>2. CASE i = u
      BY <3>2, <1>7
    <3>3. CASE i < u
      <4>1. Tiers[i].target < Tiers[u].target
        BY <1>1, <3>1, <3>3
      <4>2. Tiers[i].target \in Nat /\ Tiers[u].target \in Nat
        BY <1>1, <3>1
      <4>3. Tiers[i].target <= income
        BY <3>1, <4>1, <4>2
      <4> QED BY <3>1, <4>3
    <3> QED BY <3>2, <3>3, <1>6
  <2> HIDE DEF reached
  <2> QED BY <2>1, <2>2
<1>9. Cardinality(reached) = u
  <2>1. Cardinality(1..u) = u
    <3>1. Cardinality(1..u) = IF 1 > u THEN 0 ELSE u - 1 + 1
      BY <1>6, FS_Interval
    <3> QED BY <3>1, <1>6
  <2> QED BY <1>8, <2>1
<1>10. RequiredHours \in Nat
  BY NumbersAssumption DEF NumbersAssumption
<1> QED BY <1>3, <1>7, <1>9, <1>10

LEMMA TodayIs ==
  ASSUME TypeInv
  PROVE  Today \in Days /\ Today \in Nat
<1>1. now \in Nat /\ LastTick \in Nat /\ now <= LastTick
  BY NumbersAssumption DEF TypeInv, NumbersAssumption
<1> QED BY <1>1 DEF Today, DayOf, Days

LEMMA DaysGrow ==
  ASSUME NEW m \in Nat, NEW n \in Nat, NEW r \in Nat, m <= n
  PROVE  /\ (m - r) \div 2 \in Int /\ (n - r) \div 2 \in Int
         /\ (m - r) \div 2 <= (n - r) \div 2
OBVIOUS

LEMMA OrdinaryStays ==
  ASSUME now \in Nat, now' \in Nat, now <= now', IsOrdinary
  PROVE  IsOrdinary'
<1>1. RegisteredAt \in Nat /\ EligibleDays \in Nat
  BY NumbersAssumption DEF NumbersAssumption
<1>2. /\ DaysSince \in Int /\ DaysSince' \in Int /\ DaysSince <= DaysSince'
  BY <1>1, DaysGrow DEF DaysSince
<1> QED BY <1>1, <1>2 DEF IsOrdinary

-----------------------------------------------------------------------------
(* Steps of a call *)

\* The rows only grow, and their marks stay.
StatKept ==
  /\ stat' \in [Hosts -> [Days -> Stat]]
  /\ \A h \in Hosts, d \in Days :
       /\ stat[h][d].income <= stat'[h][d].income /\ stat[h][d].hours <= stat'[h][d].hours
       /\ stat'[h][d].daily = stat[h][d].daily /\ stat'[h][d].new = stat[h][d].new
StatGrows ==
  /\ stat' \in [Hosts -> [Days -> Stat]]
  /\ \A h \in Hosts, d \in Days :
       /\ stat[h][d].income <= stat'[h][d].income /\ stat[h][d].hours <= stat'[h][d].hours
       /\ stat[h][d].daily => stat'[h][d].daily
       /\ stat[h][d].new => stat'[h][d].new
Same(r, q) ==
  /\ r.kind = q.kind /\ r.host = q.host /\ r.date = q.date /\ r.day = q.day
  /\ r.income = q.income /\ r.hours = q.hours /\ r.due = q.due

LEMMA StatsAre ==
  ASSUME TypeInv, NEW h \in Hosts, NEW d \in Days
  PROVE  /\ stat[h][d] \in Stat /\ stat[h][d].income \in Nat /\ stat[h][d].hours \in Nat
         /\ stat[h][d].daily \in BOOLEAN /\ stat[h][d].new \in BOOLEAN
         /\ stat[h][d].there \in BOOLEAN
<1>1. stat[h][d] \in Stat
  BY DEF TypeInv
<1> QED BY <1>1 DEF Stat

LEMMA CallsAre ==
  ASSUME NEW r \in Call
  PROVE  /\ r.at \in Places /\ r.kind \in Kinds /\ r.host \in Hosts \cup {Nobody}
         /\ r.date \in Nat /\ r.day \in Days /\ r.income \in Nat /\ r.hours \in Nat
         /\ r.due \in SUBSET Hosts
BY DEF Call

LEMMA CallMoves ==
  ASSUME TypeInv, NEW c \in Calls, NEW r \in Call, call' = [call EXCEPT ![c] = r]
  PROVE  /\ call' \in [Calls -> Call]
         /\ \A d \in Calls : call'[d] = IF d = c THEN r ELSE call[d]
BY DEF TypeInv

LEMMA Going ==
  ASSUME TypeInv, NEW c \in Calls, NEW l \in Places, l # "ended", Goto(c, l)
  PROVE  \E r \in Call : /\ call' = [call EXCEPT ![c] = r]
                         /\ r.at = l /\ Same(r, call[c])
<1> DEFINE r == [call[c] EXCEPT !.at = l]
<1>1. call[c] \in Call
  BY DEF TypeInv
<1>2. r \in Call /\ r.at = l /\ Same(r, call[c])
  BY <1>1 DEF Call, Same
<1>3. call' = [call EXCEPT ![c] = r]
  BY DEF Goto
<1> QED BY <1>2, <1>3

LEMMA Ended ==
  /\ 0 \in Days
  /\ [NoCall EXCEPT !.at = "ended"] \in Call /\ [NoCall EXCEPT !.at = "ended"].at = "ended"
  /\ [NoCall EXCEPT !.at = "ended"].kind = "none"
<1>1. 0 \in Days
  <2>1. LastTick \in Nat
    BY NumbersAssumption DEF NumbersAssumption
  <2>2. LastTick \div 2 \in Nat
    BY <2>1
  <2> QED BY <2>2 DEF Days, DayOf
<1> QED BY <1>1 DEF NoCall, Call, Places, Kinds, ClaimKinds

\* What was true of a call or a payment still is when rows grow.
LEMMA CallStays ==
  ASSUME TypeInv, StatGrows, UNCHANGED now, NEW q \in Call, CallOk(q)
  PROVE  CallOk(q)'
<1>1. /\ q.at \in Places /\ q.host \in Hosts \cup {Nobody} /\ q.day \in Days
      /\ q.income \in Nat /\ q.hours \in Nat
  BY CallsAre
<1>2. IsOrdinary' = IsOrdinary
  BY DEF IsOrdinary, DaysSince
<1>3. ASSUME q.at \in {"find", "award"}
      PROVE  /\ q.income <= stat'[q.host][q.day].income
             /\ RequiredHours <= q.hours /\ q.hours <= stat'[q.host][q.day].hours
  <2>1. q.host \in Hosts
    BY <1>3 DEF CallOk, Claims
  <2>2. stat[q.host][q.day].income \in Nat /\ stat[q.host][q.day].hours \in Nat
    BY <1>1, <2>1, StatsAre
  <2>3. stat'[q.host][q.day] \in Stat
    BY <1>1, <2>1 DEF StatGrows
  <2>4. stat'[q.host][q.day].income \in Nat /\ stat'[q.host][q.day].hours \in Nat
    BY <2>3 DEF Stat
  <2>5. /\ q.income <= stat[q.host][q.day].income
        /\ RequiredHours <= q.hours /\ q.hours <= stat[q.host][q.day].hours
    BY <1>3 DEF CallOk
  <2>6. /\ stat[q.host][q.day].income <= stat'[q.host][q.day].income
        /\ stat[q.host][q.day].hours <= stat'[q.host][q.day].hours
    BY <1>1, <2>1 DEF StatGrows
  <2> QED BY <1>1, <2>2, <2>4, <2>5, <2>6
<1> QED BY <1>2, <1>3 DEF CallOk, Busy, Claims

LEMMA EntryStays ==
  ASSUME TypeInv, StatGrows, UNCHANGED now, NEW a \in Entry, EntryOk(a),
         star[a.host].paid => star'[a.host].paid
  PROVE  EntryOk(a)'
<1>1. a.host \in Hosts /\ a.day \in Days
  BY DEF Entry
<1>2. /\ stat[a.host][a.day].income \in Nat /\ stat[a.host][a.day].hours \in Nat
      /\ stat'[a.host][a.day] \in Stat
  BY <1>1, StatsAre DEF StatGrows
<1>3. stat'[a.host][a.day].income \in Nat /\ stat'[a.host][a.day].hours \in Nat
  BY <1>2 DEF Stat
<1>4. /\ stat[a.host][a.day].income <= stat'[a.host][a.day].income
      /\ stat[a.host][a.day].hours <= stat'[a.host][a.day].hours
      /\ stat[a.host][a.day].daily => stat'[a.host][a.day].daily
      /\ stat[a.host][a.day].new => stat'[a.host][a.day].new
  BY <1>1 DEF StatGrows
<1>5. Justified(a) => Justified(a)'
  <2>1. RequiredHours \in Nat /\ \A i \in DOMAIN Tiers : Tiers[i].target \in Nat
    BY TiersAssumption, TiersAre, NumbersAssumption DEF NumbersAssumption
  <2>2. stat'[a.host][a.day].hours >= RequiredHours
        \/ ~(stat[a.host][a.day].hours >= RequiredHours)
    BY <1>2, <1>3, <1>4, <2>1
  <2>3. \A i \in DOMAIN Tiers : Tiers[i].target <= stat[a.host][a.day].income =>
          Tiers[i].target <= stat'[a.host][a.day].income
    BY <1>2, <1>3, <1>4, <2>1
  <2> QED BY <2>2, <2>3 DEF Justified
<1>6. IsOrdinary' = IsOrdinary
  BY DEF IsOrdinary, DaysSince
<1> QED BY <1>4, <1>5, <1>6 DEF EntryOk

\* A step of one call.
LEMMA CallSteps ==
  ASSUME HostInv, NEW c \in Calls, NEW r \in Call, call' = [call EXCEPT ![c] = r],
         UNCHANGED <<now, calm>>, StatGrows,
         DOMAIN star' = Hosts, \A h \in Hosts : "paid" \in DOMAIN star'[h],
         awards' \subseteq Entry, CallOk(r)', \A a \in awards' : EntryOk(a)',
         calm => \A d \in Calls : d # c /\ Busy(call[d]) /\ Busy(r) => Apart(r, call[d]),
         calm => MarksHold(r)' /\ \A d \in Calls : d # c => MarksHold(call[d])',
         calm => OnceEach'
  PROVE  HostInv'
<1>1. /\ call' \in [Calls -> Call]
      /\ \A d \in Calls : call'[d] = IF d = c THEN r ELSE call[d]
  BY CallMoves DEF HostInv
<1>2. TypeInv'
  BY <1>1 DEF HostInv, TypeInv, StatGrows
<1>3. (\A d \in Calls : CallOk(call[d]))'
  <2>1. ASSUME NEW d \in Calls, d # c
        PROVE  CallOk(call[d])'
    <3>1. call[d] \in Call /\ CallOk(call[d]) /\ call'[d] = call[d]
      BY <1>1, <2>1 DEF HostInv, TypeInv
    <3>2. PICK q \in Call : q = call[d] /\ q = call'[d]
      BY <3>1
    <3>3. CallOk(q)'
      BY <3>1, <3>2, CallStays DEF HostInv
    <3> QED BY <3>2, <3>3 DEF CallOk
  <2>2. CallOk(call[c])'
    BY <1>1 DEF CallOk
  <2> QED BY <2>1, <2>2
<1>4. CalmInv'
  <2> SUFFICES ASSUME calm
               PROVE  CalmInv'
    BY DEF CalmInv
  <2>1. ASSUME NEW b \in Calls, NEW d \in Calls, b # d, Busy(call'[b]), Busy(call'[d])
        PROVE  Apart(call'[b], call'[d])
    BY <2>1, <1>1 DEF HostInv, CalmInv, Apart
  <2>2. (\A b, d \in Calls : b # d /\ Busy(call[b]) /\ Busy(call[d]) => Apart(call[b], call[d]))'
    BY <2>1 DEF Busy, Apart
  <2>3. \A d \in Calls : MarksHold(call[d])'
    BY <1>1 DEF MarksHold
  <2> QED BY <2>2, <2>3 DEF CalmInv
<1> QED BY <1>2, <1>3, <1>4 DEF HostInv

\* One that pays nothing and marks nothing.
LEMMA CallReads ==
  ASSUME HostInv, NEW c \in Calls, NEW r \in Call, call' = [call EXCEPT ![c] = r],
         UNCHANGED <<now, calm, star, awards>>, StatKept, CallOk(r)',
         calm => \A d \in Calls : d # c /\ Busy(call[d]) /\ Busy(r) => Apart(r, call[d]),
         calm => MarksHold(r)
  PROVE  HostInv'
<1>1. StatGrows
  BY DEF StatKept, StatGrows
<1>2. ASSUME NEW q \in Call, CallOk(q), MarksHold(q)
      PROVE  MarksHold(q)'
  <2>1. q.at = "award" => q.host \in Hosts
    BY <1>2 DEF CallOk, Claims
  <2>2. q.at = "award" => /\ stat'[q.host][q.day].daily = stat[q.host][q.day].daily
                          /\ stat'[q.host][q.day].new = stat[q.host][q.day].new
    BY <2>1, CallsAre DEF StatKept
  <2> QED BY <1>2, <2>2 DEF MarksHold
<1>3. CallOk(r)' => (r.at = "award" => r.host \in Hosts)
  BY DEF CallOk, Claims
<1>4. calm => MarksHold(r)'
  <2>1. r.at = "award" => /\ stat'[r.host][r.day].daily = stat[r.host][r.day].daily
                          /\ stat'[r.host][r.day].new = stat[r.host][r.day].new
    BY <1>3, CallsAre DEF StatKept
  <2> QED BY <2>1 DEF MarksHold
<1>5. calm => \A d \in Calls : d # c => MarksHold(call[d])'
  <2> SUFFICES ASSUME calm, NEW d \in Calls, d # c
               PROVE  MarksHold(call[d])'
    OBVIOUS
  <2>1. call[d] \in Call /\ CallOk(call[d]) /\ MarksHold(call[d]) /\ call'[d] = call[d]
    BY CallMoves DEF HostInv, TypeInv, CalmInv
  <2>2. PICK q \in Call : q = call[d] /\ q = call'[d]
    BY <2>1
  <2>3. MarksHold(q)'
    BY <2>1, <2>2, <1>2
  <2> QED BY <2>2, <2>3 DEF MarksHold
<1>6. calm => OnceEach'
  BY DEF HostInv, CalmInv, OnceEach, Overlap
<1>7. \A a \in awards' : EntryOk(a)'
  BY <1>1, EntryStays DEF HostInv, TypeInv
<1>8. /\ DOMAIN star' = Hosts /\ \A h \in Hosts : "paid" \in DOMAIN star'[h]
      /\ awards' \subseteq Entry
  BY DEF HostInv, TypeInv
<1> QED BY <1>1, <1>4, <1>5, <1>6, <1>7, <1>8, CallSteps

LEMMA StatStands ==
  ASSUME TypeInv, UNCHANGED stat
  PROVE  StatKept
<1>1. \A h \in Hosts, d \in Days : stat[h][d].income \in Nat /\ stat[h][d].hours \in Nat
  BY StatsAre
<1> QED BY <1>1 DEF StatKept, TypeInv

LEMMA CallEnds ==
  ASSUME HostInv, NEW c \in Calls, UNCHANGED <<now, calm, star, awards>>, StatKept,
         Goto(c, "ended") \/ call' = [call EXCEPT ![c] = [NoCall EXCEPT !.at = "ended"]]
  PROVE  HostInv'
<1> DEFINE r == [NoCall EXCEPT !.at = "ended"]
<1>1. r \in Call /\ r.at = "ended" /\ r.kind = "none"
  BY Ended
<1>2. call' = [call EXCEPT ![c] = r]
  BY DEF Goto
<1> HIDE DEF r
<1>3. CallOk(r)' /\ MarksHold(r) /\ ~Busy(r)
  BY <1>1 DEF CallOk, Claims, MarksHold, Busy
<1> QED BY <1>1, <1>2, <1>3, CallReads

-----------------------------------------------------------------------------
(* What is earned *)

LEMMA RecordDailyStep ==
  ASSUME HostInv, NEW c \in Calls, NEW h \in Hosts, NEW income \in Nat, NEW hours \in Nat,
         RecordDaily(c, h, income, hours)
  PROVE  HostInv'
<1>1. PICK day \in Days : day = Today
  BY TodayIs DEF HostInv
<1>2. PICK s \in Stat : s = stat[h][day]
  BY StatsAre DEF HostInv
<1>3. PICK t \in Stat : /\ t = [there |-> TRUE, income |-> s.income + income,
                               hours |-> s.hours + hours, daily |-> s.daily, new |-> s.new]
                        /\ s.income <= t.income /\ s.hours <= t.hours
                        /\ t.daily = s.daily /\ t.new = s.new
  <2> DEFINE t == [there |-> TRUE, income |-> s.income + income,
                   hours |-> s.hours + hours, daily |-> s.daily, new |-> s.new]
  <2>1. s.income \in Nat /\ s.hours \in Nat /\ s.daily \in BOOLEAN /\ s.new \in BOOLEAN
    BY DEF Stat
  <2>2. s.income <= t.income /\ s.hours <= t.hours
    BY <2>1
  <2>3. t \in Stat
    BY <2>1 DEF Stat
  <2> QED BY <2>2, <2>3
<1>4. stat' = [stat EXCEPT ![h][day] = t]
  BY <1>1, <1>2, <1>3 DEF RecordDaily
<1>5. /\ stat' \in [Hosts -> [Days -> Stat]]
      /\ \A g \in Hosts, d \in Days :
           stat'[g][d] = IF g = h /\ d = day THEN t ELSE stat[g][d]
  BY <1>4 DEF HostInv, TypeInv
<1>6. StatKept
  <2>1. \A g \in Hosts, d \in Days : stat[g][d].income \in Nat /\ stat[g][d].hours \in Nat
    BY StatsAre DEF HostInv
  <2> QED BY <1>2, <1>3, <1>5, <2>1 DEF StatKept
<1>7. PICK r \in Call : /\ call' = [call EXCEPT ![c] = r]
                        /\ r.at = "weekly" /\ r.kind = "income" /\ r.host = h
  <2> DEFINE r == [at |-> "weekly", kind |-> "income", host |-> h, date |-> 0, day |-> day,
                   income |-> income, hours |-> hours, due |-> {}]
  <2>1. r \in Call /\ r.at = "weekly" /\ r.kind = "income" /\ r.host = h
    BY DEF Call, Places, Kinds
  <2>2. call' = [call EXCEPT ![c] = r]
    BY <1>1 DEF RecordDaily
  <2> QED BY <2>1, <2>2
<1>8. CallOk(r)' /\ MarksHold(r) /\ \A q : Apart(r, q)
  BY <1>7 DEF CallOk, Claims, MarksHold, Apart, ClaimKinds
<1>9. UNCHANGED <<now, calm, star, awards>>
  BY DEF RecordDaily
<1> QED BY <1>6, <1>7, <1>8, <1>9, CallReads

LEMMA RecordWeeklyStep ==
  ASSUME HostInv, NEW c \in Calls, RecordWeekly(c)
  PROVE  HostInv'
BY StatStands, CallEnds DEF HostInv, RecordWeekly

-----------------------------------------------------------------------------
(* Claims *)

LEMMA BeginStep ==
  ASSUME HostInv, NEW c \in Calls, NEW kind \in ClaimKinds, NEW h \in Hosts, NEW eligible,
         Begin(c, kind, h, eligible),
         eligible => (kind = "ordinary" => IsOrdinary) /\ (kind = "new" => IsNew)
  PROVE  HostInv'
<1>1. UNCHANGED <<now, calm, star, awards, stat>> /\ StatKept
  BY StatStands DEF Begin, HostInv
<1>2. CASE ~eligible
  BY <1>1, <1>2, CallEnds DEF Begin
<1>3. CASE eligible
  <2> DEFINE s == [at |-> "stat", kind |-> kind, host |-> h, date |-> Today, day |-> 0,
                   income |-> 0, hours |-> 0, due |-> {}]
  <2>1. s \in Call
    BY TodayIs, Ended DEF HostInv, Call, Places, Kinds
  <2>2. call' = [call EXCEPT ![c] = s]
    BY <1>3 DEF Begin
  <2>3. PICK r \in Call : /\ call' = [call EXCEPT ![c] = r] /\ r.at = "stat"
                          /\ r.kind = kind /\ r.host = h
    BY <2>1, <2>2
  <2>4. CallOk(r)'
    BY <1>1, <1>3, <2>3 DEF CallOk, Claims, ClaimKinds, IsOrdinary, DaysSince
  <2>5. calm => \A d \in Calls : d # c /\ Busy(call[d]) /\ Busy(r) => Apart(r, call[d])
    BY <2>3 DEF Begin, InFlight, Kind, Host, Busy, Apart, ClaimKinds
  <2>6. MarksHold(r)
    <3>1. r.kind = "new" => \A a \in awards : a.kind # "ordinary"
      <4>1. r.kind = "new" => ~IsOrdinary
        <5>1. DaysSince \in Int /\ EligibleDays \in Nat
          <6>1. now \in Nat /\ RegisteredAt \in Nat /\ EligibleDays \in Nat
            BY NumbersAssumption DEF HostInv, TypeInv, NumbersAssumption
          <6> QED BY <6>1, DaysGrow DEF DaysSince
        <5> QED BY <1>3, <2>3, <5>1 DEF IsNew, IsOrdinary
      <4> QED BY <4>1 DEF HostInv, EntryOk
    <3> QED BY <2>3, <3>1 DEF MarksHold
  <2> QED BY <1>1, <2>3, <2>4, <2>5, <2>6, CallReads
<1> QED BY <1>2, <1>3

LEMMA ClaimSteps ==
  ASSUME HostInv, NEW c \in Calls, NEW h \in Hosts,
         \/ ClaimDailyReward(c, h) \/ ClaimNewHostReward(c, h) \/ ClaimOrdinaryHostReward(c, h)
  PROVE  HostInv'
<1>1. "daily" \in ClaimKinds /\ "new" \in ClaimKinds /\ "ordinary" \in ClaimKinds
  BY DEF ClaimKinds
<1>2. CASE ClaimDailyReward(c, h)
  BY <1>1, <1>2, BeginStep DEF ClaimDailyReward
<1>3. CASE ClaimNewHostReward(c, h)
  BY <1>1, <1>3, BeginStep DEF ClaimNewHostReward
<1>4. CASE ClaimOrdinaryHostReward(c, h)
  BY <1>1, <1>4, BeginStep DEF ClaimOrdinaryHostReward
<1> QED BY <1>2, <1>3, <1>4

LEMMA FindStatStep ==
  ASSUME HostInv, NEW c \in Calls, FindStat(c)
  PROVE  HostInv'
<1>1. UNCHANGED <<now, calm, star, awards, stat>> /\ StatKept
  BY StatStands DEF FindStat, HostInv
<1>2. /\ call[c] \in Call /\ call[c].at = "stat" /\ CallOk(call[c])
      /\ call[c].kind \in ClaimKinds /\ call[c].host \in Hosts
  BY DEF HostInv, TypeInv, FindStat, CallOk, Claims
<1>3. PICK day \in Days : day = Today
  BY TodayIs DEF HostInv
<1>4. PICK s \in Stat : s = stat[call[c].host][day]
  BY <1>2, StatsAre DEF HostInv
<1>5. CASE Goto(c, "ended")
  BY <1>1, <1>5, CallEnds
<1>6. CASE ~Goto(c, "ended")
  <2> DEFINE l == IF ~s.there THEN "create"
                  ELSE IF call[c].kind = "ordinary" THEN "find" ELSE "award"
             f == [at |-> l, kind |-> call[c].kind, host |-> call[c].host,
                   date |-> call[c].date, day |-> day, income |-> s.income,
                   hours |-> s.hours, due |-> {}]
  <2>1. s.there => Worth(call[c].kind, s)
    BY <1>3, <1>4, <1>6 DEF FindStat, Host, Kind
  <2>2. call' = [call EXCEPT ![c] = f]
    BY <1>2, <1>3, <1>4, <1>6 DEF FindStat, Host, Kind, TypeInv, HostInv
  <2>3. f \in Call
    <3>1. s.income \in Nat /\ s.hours \in Nat
      BY DEF Stat
    <3> QED BY <1>2, <3>1, CallsAre DEF Call, Places
  <2>4. PICK r \in Call : /\ call' = [call EXCEPT ![c] = r]
                          /\ r.at = l /\ r.kind = call[c].kind /\ r.host = call[c].host
                          /\ r.day = day /\ r.income = s.income /\ r.hours = s.hours
    BY <2>2, <2>3
  <2>5. r.at \in {"create", "find", "award"} /\ (r.at # "create" => s.there)
        /\ (r.at = "find" <=> s.there /\ r.kind = "ordinary")
    BY <2>4
  <2>6. r.kind \in {"daily", "new", "ordinary"}
    BY <1>2, <2>4 DEF ClaimKinds
  <2>7. r.at # "create" =>
          /\ r.hours >= RequiredHours
          /\ r.kind = "daily" => ~s.daily /\ SalaryTier(r.income, r.hours) > 0
          /\ r.kind = "new" => ~s.new
    <3>1. s.income \in Nat /\ s.hours \in Nat
      BY DEF Stat
    <3>2. SalaryTier(s.income, s.hours) > 0 => s.hours >= RequiredHours
      BY <3>1, SalaryTierReached, TiersAssumption
    <3> QED BY <2>1, <2>4, <2>5, <2>6, <3>2 DEF Worth, WorthDaily, WorthNew, WorthOrdinary
  <2> HIDE DEF l, f
  <2>8. CallOk(r)
    <3>1. s.income \in Nat /\ s.hours \in Nat /\ RequiredHours \in Nat
      BY NumbersAssumption DEF Stat, NumbersAssumption
    <3>2. s.income <= s.income /\ s.hours <= s.hours
      BY <3>1
    <3>3. s = stat[r.host][r.day]
      BY <1>4, <2>4
    <3>4. r.at # "create" => RequiredHours <= r.hours
      BY <2>4, <2>7, <3>1
    <3>5. r.kind = "ordinary" => IsOrdinary
      BY <1>2, <2>4 DEF CallOk, Busy
    <3> QED BY <1>2, <2>4, <2>5, <2>7, <3>2, <3>3, <3>4, <3>5 DEF CallOk, Claims
  <2>9. CallOk(r)'
    BY <1>1, <2>8 DEF CallOk, IsOrdinary, DaysSince
  <2>10. calm => \A d \in Calls : d # c /\ Busy(call[d]) /\ Busy(r) => Apart(r, call[d])
    BY <1>2, <2>4 DEF HostInv, CalmInv, Busy, Apart
  <2>11. calm => MarksHold(r)
    <3>1. calm => MarksHold(call[c])
      BY DEF HostInv, CalmInv
    <3>2. r.at = "award" => r.kind # "ordinary"
      BY <2>4 DEF l
    <3>3. s = stat[r.host][r.day]
      BY <1>4, <2>4
    <3> QED BY <1>2, <2>4, <2>5, <2>7, <3>1, <3>2, <3>3 DEF MarksHold, Busy
  <2> QED BY <1>1, <2>4, <2>9, <2>10, <2>11, CallReads
<1> QED BY <1>5, <1>6

LEMMA CreateStatStep ==
  ASSUME HostInv, NEW c \in Calls, CreateStat(c)
  PROVE  HostInv'
<1>1. PICK h \in Hosts, day \in Days : h = call[c].host /\ day = call[c].day
  <2>1. call[c] \in Call /\ call[c].at = "create" /\ CallOk(call[c])
    BY DEF HostInv, TypeInv, CreateStat
  <2> QED BY <2>1, CallsAre DEF CallOk, Claims
<1>2. PICK s \in Stat : s = stat[h][day]
  BY StatsAre DEF HostInv
<1>3. PICK t \in Stat : /\ t = [s EXCEPT !.there = TRUE]
                        /\ t.income = s.income /\ t.hours = s.hours
                        /\ t.daily = s.daily /\ t.new = s.new
  <2> DEFINE t == [s EXCEPT !.there = TRUE]
  <2>1. t \in Stat /\ t.income = s.income /\ t.hours = s.hours
        /\ t.daily = s.daily /\ t.new = s.new
    BY DEF Stat
  <2> QED BY <2>1
<1>4. stat' = [stat EXCEPT ![h][day] = t]
  BY <1>1, <1>2, <1>3 DEF CreateStat, Host
<1>5. /\ stat' \in [Hosts -> [Days -> Stat]]
      /\ \A g \in Hosts, d \in Days :
           stat'[g][d] = IF g = h /\ d = day THEN t ELSE stat[g][d]
  BY <1>4 DEF HostInv, TypeInv
<1>6. StatKept
  <2>1. \A g \in Hosts, d \in Days : stat[g][d].income \in Nat /\ stat[g][d].hours \in Nat
    BY StatsAre DEF HostInv
  <2>2. /\ t.income = stat[h][day].income /\ t.hours = stat[h][day].hours
        /\ t.daily = stat[h][day].daily /\ t.new = stat[h][day].new
    BY <1>2, <1>3
  <2> QED BY <1>5, <2>1, <2>2 DEF StatKept
<1> QED BY <1>6, CallEnds DEF CreateStat

LEMMA FindClaimStep ==
  ASSUME HostInv, NEW c \in Calls, FindClaim(c)
  PROVE  HostInv'
<1>1. UNCHANGED <<now, calm, star, awards, stat>> /\ StatKept
  BY StatStands DEF FindClaim, HostInv
<1>2. CASE \E a \in awards : a.kind = "ordinary" /\ a.host = Host(c) /\ a.date = call[c].date
  BY <1>1, <1>2, CallEnds DEF FindClaim
<1>3. CASE ~ \E a \in awards : a.kind = "ordinary" /\ a.host = Host(c) /\ a.date = call[c].date
  <2>1. call[c].at = "find" /\ CallOk(call[c]) /\ Goto(c, "award") /\ "award" \in Places
    BY <1>3 DEF FindClaim, HostInv, Places
  <2>2. PICK r \in Call : call' = [call EXCEPT ![c] = r] /\ r.at = "award" /\ Same(r, call[c])
    BY <2>1, Going DEF HostInv
  <2>3. CallOk(r)
    BY <2>1, <2>2 DEF CallOk, Claims, Same, Busy
  <2>4. CallOk(r)'
    BY <1>1, <2>3 DEF CallOk, IsOrdinary, DaysSince
  <2>5. calm => \A d \in Calls : d # c /\ Busy(call[d]) /\ Busy(r) => Apart(r, call[d])
    BY <2>1, <2>2 DEF HostInv, CalmInv, Busy, Apart, Same
  <2>6. MarksHold(r)
    BY <1>3, <2>1, <2>2 DEF MarksHold, Same, CallOk, Host
  <2> QED BY <1>1, <2>2, <2>4, <2>5, <2>6, CallReads
<1> QED BY <1>2, <1>3

LEMMA UpdateHostLevelStep ==
  ASSUME HostInv, NEW c \in Calls, UpdateHostLevel(c)
  PROVE  HostInv'
BY StatStands, CallEnds DEF HostInv, UpdateHostLevel

LEMMA FailStep ==
  ASSUME HostInv, NEW c \in Calls, Fail(c)
  PROVE  HostInv'
BY StatStands, CallEnds DEF HostInv, Fail

-----------------------------------------------------------------------------
(* What is paid *)

\* A claim pays: it had read of the row no more than the row holds, and of the
\* marks what still holds.
LEMMA AwardStep ==
  ASSUME HostInv, NEW c \in Calls, NEW kind \in ClaimKinds, NEW amount \in Nat,
         NEW l \in {"level", "ended"}, Award(c, kind, amount), Goto(c, l), StatGrows,
         \A h \in Hosts, d \in Days : h # call[c].host =>
           stat'[h][d].daily = stat[h][d].daily /\ stat'[h][d].new = stat[h][d].new,
         kind = "daily" => stat'[call[c].host][call[c].day].daily,
         kind = "new" => stat'[call[c].host][call[c].day].new,
         kind = "daily" => \E i \in DOMAIN Tiers :
           Tiers[i].bonus = amount /\ Tiers[i].target <= call[c].income
  PROVE  HostInv'
<1>1. UNCHANGED <<now, calm, star>>
  BY DEF Award
<1>2. PICK q \in Call : /\ q = call[c] /\ q.at = "award" /\ q.kind = kind /\ CallOk(q)
                        /\ q.host \in Hosts /\ (calm => MarksHold(q))
  BY DEF HostInv, TypeInv, CalmInv, Award, CallOk, Claims, Kind
<1>3. q.day \in Days /\ q.date \in Nat /\ q.income \in Nat /\ q.hours \in Nat
  BY CallsAre
<1>4. PICK e \in Entry : /\ awards' = awards \cup {e}
                         /\ e.kind = kind /\ e.host = q.host /\ e.date = q.date
                         /\ e.day = q.day /\ e.amount = amount
  <2> DEFINE f == [call |-> c, kind |-> kind, host |-> q.host, date |-> q.date,
                   day |-> q.day, amount |-> amount]
  <2>1. f \in Entry
    BY <1>2, <1>3 DEF Entry
  <2>2. awards' = awards \cup {f}
    BY <1>2 DEF Award, Host
  <2> QED BY <2>1, <2>2
<1>5. PICK r \in Call : /\ call' = [call EXCEPT ![c] = r]
                        /\ \/ r.at = "level" /\ Same(r, q)
                           \/ r.at = "ended" /\ r.kind = "none"
  <2>1. CASE l = "level"
    BY <1>2, <2>1, Going DEF HostInv, Places
  <2>2. CASE l = "ended"
    BY <2>2, Ended DEF Goto
  <2> QED BY <2>1, <2>2
<1>6. IsOrdinary' = IsOrdinary
  BY <1>1 DEF IsOrdinary, DaysSince
<1>7. CallOk(r)'
  BY <1>2, <1>5, <1>6 DEF CallOk, Claims, Busy, Same
<1>8. EntryOk(e)'
  <2>1. /\ stat[q.host][q.day].income \in Nat /\ stat[q.host][q.day].hours \in Nat
        /\ stat'[q.host][q.day] \in Stat
        /\ stat[q.host][q.day].income <= stat'[q.host][q.day].income
        /\ stat[q.host][q.day].hours <= stat'[q.host][q.day].hours
    BY <1>2, <1>3, StatsAre DEF StatGrows, HostInv
  <2>2. stat'[q.host][q.day].income \in Nat /\ stat'[q.host][q.day].hours \in Nat
    BY <2>1 DEF Stat
  <2>3. /\ q.income <= stat[q.host][q.day].income
        /\ RequiredHours <= q.hours /\ q.hours <= stat[q.host][q.day].hours
    BY <1>2 DEF CallOk
  <2>4. /\ RequiredHours \in Nat /\ \A i \in DOMAIN Tiers : Tiers[i].target \in Nat
    BY TiersAre, TiersAssumption, NumbersAssumption DEF NumbersAssumption
  <2>5. stat'[q.host][q.day].hours >= RequiredHours
    BY <1>3, <2>1, <2>2, <2>3, <2>4
  <2>6. kind = "daily" => \E i \in DOMAIN Tiers : Tiers[i].bonus = amount
                            /\ Tiers[i].target <= stat'[q.host][q.day].income
    <3>1. q.income <= stat'[q.host][q.day].income
      BY <1>3, <2>1, <2>2, <2>3
    <3>2. ASSUME NEW i \in DOMAIN Tiers, Tiers[i].target <= q.income
          PROVE  Tiers[i].target <= stat'[q.host][q.day].income
      BY <1>3, <2>2, <2>4, <3>1, <3>2
    <3>3. kind = "daily" => \E i \in DOMAIN Tiers :
            Tiers[i].bonus = amount /\ Tiers[i].target <= q.income
      BY <1>2
    <3> QED BY <3>2, <3>3
  <2>7. Justified(e)'
    BY <1>4, <2>5, <2>6 DEF Justified
  <2>8. kind = "ordinary" => IsOrdinary'
    BY <1>2, <1>6 DEF CallOk, Busy
  <2> QED BY <1>2, <1>4, <2>7, <2>8 DEF EntryOk, ClaimKinds
<1>9. \A a \in awards' : EntryOk(a)'
  BY <1>1, <1>4, <1>8, EntryStays DEF HostInv, TypeInv
<1>10. calm => \A d \in Calls : d # c /\ Busy(call[d]) /\ Busy(r) => Apart(r, call[d])
  BY <1>2, <1>5 DEF HostInv, CalmInv, Busy, Apart, Same
<1>11. calm => MarksHold(r)'
  <2>1. calm /\ r.at = "level" /\ r.kind = "new" =>
          \A a \in awards' : ~(a.kind = "ordinary" /\ a.host = r.host)
    BY <1>2, <1>4, <1>5 DEF MarksHold, Busy, Same
  <2> QED BY <1>5, <2>1 DEF MarksHold, Busy
<1>12. ASSUME calm, NEW d \in Calls, d # c
       PROVE  MarksHold(call[d])'
  <2>1. PICK x \in Call : x = call[d] /\ x = call'[d]
    BY <1>5, <1>12, CallMoves DEF HostInv, TypeInv
  <2>2. CallOk(x) /\ MarksHold(x)
    BY <1>12, <2>1 DEF HostInv, CalmInv
  <2>3. x.kind \in ClaimKinds /\ Busy(x) => x.host # q.host
    BY <1>2, <1>12, <2>1 DEF HostInv, CalmInv, Apart, Busy
  <2>4. x.at = "award" => x.host # q.host /\ x.host \in Hosts /\ x.day \in Days
    BY <2>2, <2>3, CallsAre DEF CallOk, Claims, Busy
  <2>5. x.at = "award" => /\ stat'[x.host][x.day].daily = stat[x.host][x.day].daily
                          /\ stat'[x.host][x.day].new = stat[x.host][x.day].new
    BY <1>2, <2>4
  <2>6. Busy(x) /\ x.kind \in ClaimKinds =>
          \A a \in awards' : a \notin awards => a.host # x.host
    BY <1>4, <2>3
  <2>7. MarksHold(x)'
    BY <1>1, <2>2, <2>5, <2>6 DEF MarksHold, ClaimKinds, Busy
  <2> QED BY <2>1, <2>7 DEF MarksHold
<1>13. calm => OnceEach'
  <2> SUFFICES ASSUME calm
               PROVE  OnceEach'
    OBVIOUS
  <2>1. ASSUME NEW b \in awards, b.kind = e.kind, b.host = e.host
        PROVE  /\ b.kind \in {"daily", "new"} => b.day # e.day
               /\ b.kind = "ordinary" => b.date # e.date
    <3>1. MarksHold(q) /\ EntryOk(b)
      BY <1>2 DEF HostInv
    <3> QED BY <1>2, <1>4, <2>1, <3>1 DEF MarksHold, EntryOk
  <2>2. e.kind \notin {"salary", "agency"}
    BY <1>4 DEF ClaimKinds
  <2>3. ASSUME NEW a \in awards', NEW b \in awards', Overlap(a, b)
        PROVE  /\ a.kind \in {"daily", "new"} => a.day # b.day
               /\ a.kind = "ordinary" => a.date # b.date
               /\ a.kind \notin {"salary", "agency"}
    <3>1. CASE a \in awards /\ b \in awards
      BY <2>3, <3>1 DEF HostInv, CalmInv, OnceEach
    <3>2. CASE a = e /\ b \in awards
      BY <2>1, <2>2, <2>3, <3>2 DEF Overlap
    <3>3. CASE a \in awards /\ b = e
      BY <2>1, <2>2, <2>3, <3>3 DEF Overlap
    <3> QED BY <1>4, <2>3, <3>1, <3>2, <3>3 DEF Overlap
  <2> QED BY <2>3 DEF OnceEach, Overlap
<1>14. /\ DOMAIN star' = Hosts /\ \A h \in Hosts : "paid" \in DOMAIN star'[h]
       /\ awards' \subseteq Entry
  BY <1>1, <1>4 DEF HostInv, TypeInv
<1> QED BY <1>1, <1>5, <1>7, <1>9, <1>10, <1>11, <1>12, <1>13, <1>14, CallSteps

LEMMA AwardDailyStep ==
  ASSUME HostInv, NEW c \in Calls, AwardDaily(c)
  PROVE  HostInv'
<1>1. PICK q \in Call : /\ q = call[c] /\ q.at = "award" /\ q.kind = "daily" /\ CallOk(q)
                        /\ q.host \in Hosts
  BY DEF HostInv, TypeInv, AwardDaily, Award, CallOk, Claims, Kind
<1>2. q.day \in Days /\ q.income \in Nat /\ q.hours \in Nat
  BY CallsAre
<1>3. PICK k \in DOMAIN Tiers : /\ k = SalaryTier(q.income, q.hours)
                                /\ Tiers[k].target <= q.income /\ Tiers[k].bonus \in Nat
  <2>1. SalaryTier(q.income, q.hours) > 0
    BY <1>1 DEF CallOk
  <2> QED BY <1>2, <2>1, SalaryTierReached, TiersAre, TiersAssumption
<1>4. PICK s \in Stat : s = stat[q.host][q.day]
  BY <1>1, <1>2, StatsAre DEF HostInv
<1>5. PICK t \in Stat : /\ t = [s EXCEPT !.daily = TRUE]
                        /\ t.income = s.income /\ t.hours = s.hours
                        /\ t.daily /\ t.new = s.new
  <2> DEFINE t == [s EXCEPT !.daily = TRUE]
  <2>1. t \in Stat /\ t.income = s.income /\ t.hours = s.hours /\ t.daily /\ t.new = s.new
    BY DEF Stat
  <2> QED BY <2>1
<1>6. stat' = [stat EXCEPT ![q.host][q.day] = t]
  BY <1>1, <1>4, <1>5 DEF AwardDaily, Host
<1>7. /\ stat' \in [Hosts -> [Days -> Stat]]
      /\ \A g \in Hosts, d \in Days :
           stat'[g][d] = IF g = q.host /\ d = q.day THEN t ELSE stat[g][d]
  BY <1>1, <1>2, <1>6 DEF HostInv, TypeInv
<1>8. StatGrows
  <2>1. \A g \in Hosts, d \in Days : stat[g][d].income \in Nat /\ stat[g][d].hours \in Nat
    BY StatsAre DEF HostInv
  <2>2. /\ t.income = stat[q.host][q.day].income /\ t.hours = stat[q.host][q.day].hours
        /\ t.daily /\ t.new = stat[q.host][q.day].new
    BY <1>4, <1>5
  <2> QED BY <1>7, <2>1, <2>2 DEF StatGrows
<1>9. \A h \in Hosts, d \in Days : h # q.host =>
        stat'[h][d].daily = stat[h][d].daily /\ stat'[h][d].new = stat[h][d].new
  BY <1>7
<1>10. stat'[q.host][q.day].daily
  BY <1>1, <1>2, <1>5, <1>7
<1>11. Award(c, "daily", Tiers[k].bonus) /\ Goto(c, "level") /\ "daily" \in ClaimKinds
  BY <1>1, <1>3 DEF AwardDaily, ClaimKinds
<1> QED BY <1>1, <1>3, <1>8, <1>9, <1>10, <1>11, AwardStep

LEMMA AwardNewStep ==
  ASSUME HostInv, NEW c \in Calls, AwardNew(c)
  PROVE  HostInv'
<1>1. PICK q \in Call : /\ q = call[c] /\ q.at = "award" /\ q.kind = "new" /\ CallOk(q)
                        /\ q.host \in Hosts
  BY DEF HostInv, TypeInv, AwardNew, Award, CallOk, Claims, Kind
<1>2. q.day \in Days
  BY CallsAre
<1>4. PICK s \in Stat : s = stat[q.host][q.day]
  BY <1>1, <1>2, StatsAre DEF HostInv
<1>5. PICK t \in Stat : /\ t = [s EXCEPT !.new = TRUE]
                        /\ t.income = s.income /\ t.hours = s.hours
                        /\ t.new /\ t.daily = s.daily
  <2> DEFINE t == [s EXCEPT !.new = TRUE]
  <2>1. t \in Stat /\ t.income = s.income /\ t.hours = s.hours /\ t.new /\ t.daily = s.daily
    BY DEF Stat
  <2> QED BY <2>1
<1>6. stat' = [stat EXCEPT ![q.host][q.day] = t]
  BY <1>1, <1>4, <1>5 DEF AwardNew, Host
<1>7. /\ stat' \in [Hosts -> [Days -> Stat]]
      /\ \A g \in Hosts, d \in Days :
           stat'[g][d] = IF g = q.host /\ d = q.day THEN t ELSE stat[g][d]
  BY <1>1, <1>2, <1>6 DEF HostInv, TypeInv
<1>8. StatGrows
  <2>1. \A g \in Hosts, d \in Days : stat[g][d].income \in Nat /\ stat[g][d].hours \in Nat
    BY StatsAre DEF HostInv
  <2>2. /\ t.income = stat[q.host][q.day].income /\ t.hours = stat[q.host][q.day].hours
        /\ t.new /\ t.daily = stat[q.host][q.day].daily
    BY <1>4, <1>5
  <2> QED BY <1>7, <2>1, <2>2 DEF StatGrows
<1>9. \A h \in Hosts, d \in Days : h # q.host =>
        stat'[h][d].daily = stat[h][d].daily /\ stat'[h][d].new = stat[h][d].new
  BY <1>7
<1>10. stat'[q.host][q.day].new
  BY <1>1, <1>2, <1>5, <1>7
<1>11. Award(c, "new", NewReward) /\ Goto(c, "ended") /\ "new" \in ClaimKinds
  BY DEF AwardNew, ClaimKinds
<1>12. NewReward \in Nat
  BY NumbersAssumption DEF NumbersAssumption
<1> QED BY <1>1, <1>8, <1>9, <1>10, <1>11, <1>12, AwardStep

LEMMA AwardOrdinaryStep ==
  ASSUME HostInv, NEW c \in Calls, AwardOrdinary(c)
  PROVE  HostInv'
<1>1. StatGrows
  BY StatStands DEF AwardOrdinary, HostInv, StatKept, StatGrows
<1>2. Award(c, "ordinary", OrdinaryReward) /\ Goto(c, "ended") /\ "ordinary" \in ClaimKinds
  BY DEF AwardOrdinary, ClaimKinds
<1>3. OrdinaryReward \in Nat
  BY NumbersAssumption DEF NumbersAssumption
<1>4. \A h \in Hosts, d \in Days :
        stat'[h][d].daily = stat[h][d].daily /\ stat'[h][d].new = stat[h][d].new
  BY DEF AwardOrdinary
<1> QED BY <1>1, <1>2, <1>3, <1>4, AwardStep

LEMMA BeginSalariesStep ==
  ASSUME HostInv, NEW c \in Calls, BeginSalaries(c)
  PROVE  HostInv'
<1>1. UNCHANGED <<now, calm, star, awards, stat>> /\ StatKept
  BY StatStands DEF BeginSalaries, HostInv
<1>2. PICK due \in SUBSET Hosts :
        /\ \A h \in due : ~star[h].paid
        /\ call' = [call EXCEPT ![c] =
             IF due = {} THEN [NoCall EXCEPT !.at = "ended"]
             ELSE [at |-> "pay", kind |-> "salary", host |-> Nobody, date |-> 0, day |-> 0,
                   income |-> 0, hours |-> 0, due |-> due]]
  BY DEF BeginSalaries
<1>3. CASE due = {}
  BY <1>1, <1>2, <1>3, CallEnds
<1>4. CASE due # {}
  <2> DEFINE p == [at |-> "pay", kind |-> "salary", host |-> Nobody, date |-> 0, day |-> 0,
                   income |-> 0, hours |-> 0, due |-> due]
  <2>1. p \in Call
    BY Ended DEF Call, Places, Kinds
  <2>2. PICK r \in Call : /\ call' = [call EXCEPT ![c] = r]
                          /\ r.at = "pay" /\ r.kind = "salary" /\ r.due = due
    BY <1>2, <1>4, <2>1
  <2>3. CallOk(r)' /\ (calm => MarksHold(r))
    BY <1>2, <2>2 DEF CallOk, Claims, MarksHold, Busy
  <2>4. calm => \A d \in Calls : d # c /\ Busy(call[d]) /\ Busy(r) => Apart(r, call[d])
    BY <2>2 DEF BeginSalaries, InFlight, Kind, Busy, Apart, ClaimKinds
  <2> QED BY <1>1, <2>2, <2>3, <2>4, CallReads
<1> QED BY <1>3, <1>4

LEMMA PaySuperstarStep ==
  ASSUME HostInv, NEW c \in Calls, NEW h \in Hosts, PaySuperstar(c, h)
  PROVE  HostInv'
<1>1. UNCHANGED <<now, calm, stat>> /\ StatGrows
  BY StatStands DEF PaySuperstar, HostInv, StatKept, StatGrows
<1>2. PICK q \in Call : /\ q = call[c] /\ q.at = "pay" /\ h \in q.due
                        /\ q.kind = "salary" /\ (calm => MarksHold(q))
  BY DEF HostInv, TypeInv, CalmInv, PaySuperstar, CallOk
<1>3. /\ DOMAIN star' = Hosts /\ \A g \in Hosts : "paid" \in DOMAIN star'[g]
      /\ star'[h].paid /\ \A g \in Hosts : g # h => star'[g] = star[g]
  BY DEF PaySuperstar, HostInv, TypeInv
<1>4. PICK r \in Call : /\ call' = [call EXCEPT ![c] = r]
                        /\ \/ /\ r.at = "pay" /\ r.kind = "salary"
                              /\ r.due = q.due \ {h}
                           \/ r.at = "ended" /\ r.kind = "none"
  <2>1. CASE q.due = {h}
    BY <1>2, <2>1, Ended DEF PaySuperstar
  <2>2. CASE q.due # {h}
    <3> DEFINE p == [q EXCEPT !.due = q.due \ {h}]
    <3>1. p \in Call /\ p.at = "pay" /\ p.kind = "salary" /\ p.due = q.due \ {h}
      BY <1>2 DEF Call
    <3>2. call' = [call EXCEPT ![c] = p]
      <4>1. call' = [call EXCEPT ![c] =
               IF call[c].due = {h} THEN [NoCall EXCEPT !.at = "ended"]
               ELSE [call[c] EXCEPT !.due = call[c].due \ {h}]]
        BY DEF PaySuperstar
      <4> QED BY <1>2, <2>2, <4>1
    <3> QED BY <3>1, <3>2
  <2> QED BY <2>1, <2>2
<1>5. PICK new \in SUBSET Entry :
        /\ awards' = awards \cup new
        /\ \A a \in new : a.kind \in {"salary", "agency"} /\ a.host = h
        /\ \A a, b \in new : a.kind = b.kind => a = b
  <2> DEFINE new == {Salary(c, h, k) : k \in SalaryKinds(h)}
  <2>1. SalaryKinds(h) \subseteq {"salary", "agency"}
    BY DEF SalaryKinds
  <2>2. \A k \in {"salary", "agency"} :
          /\ Salary(c, h, k) \in Entry /\ Salary(c, h, k).kind = k
          /\ Salary(c, h, k).host = h
    BY Ended DEF Salary, Entry
  <2>3. awards' = awards \cup new
    BY DEF PaySuperstar
  <2>4. /\ new \in SUBSET Entry
        /\ \A a \in new : a.kind \in {"salary", "agency"} /\ a.host = h
    BY <2>1, <2>2
  <2>5. \A a, b \in new : a.kind = b.kind => a = b
    BY <2>1, <2>2
  <2> HIDE DEF new
  <2> QED BY <2>3, <2>4, <2>5
<1>6. CallOk(r)'
  BY <1>4 DEF CallOk, Claims, Busy
<1>7. \A a \in awards' : EntryOk(a)'
  <2>1. \A a \in new : EntryOk(a)'
    BY <1>3, <1>5 DEF EntryOk, ClaimKinds
  <2>2. \A a \in awards : a.host \in Hosts /\ (star[a.host].paid => star'[a.host].paid)
    BY <1>3 DEF HostInv, TypeInv, Entry
  <2>3. \A a \in awards : a \in Entry /\ EntryOk(a)
    BY DEF HostInv, TypeInv
  <2>4. TypeInv /\ UNCHANGED now
    BY <1>1 DEF HostInv
  <2>5. \A a \in awards : EntryOk(a)'
    BY <1>1, <2>2, <2>3, <2>4, EntryStays
  <2> QED BY <1>5, <2>1, <2>5
<1>8. calm => \A d \in Calls : d # c /\ Busy(call[d]) /\ Busy(r) => Apart(r, call[d])
  BY <1>2, <1>4 DEF HostInv, CalmInv, Busy, Apart, ClaimKinds
<1>9. calm => MarksHold(r)'
  <2>1. calm => \A g \in q.due : ~star[g].paid
    BY <1>2 DEF MarksHold
  <2>2. calm /\ r.at = "pay" => \A g \in r.due : ~star'[g].paid
    BY <1>2, <1>3, <1>4, <2>1, CallsAre
  <2> QED BY <1>4, <2>2 DEF MarksHold, Busy
<1>10. ASSUME calm, NEW d \in Calls, d # c
       PROVE  MarksHold(call[d])'
  <2>1. PICK x \in Call : x = call[d] /\ x = call'[d]
    BY <1>4, <1>10, CallMoves DEF HostInv, TypeInv
  <2>2. CallOk(x) /\ MarksHold(x)
    BY <1>10, <2>1 DEF HostInv, CalmInv
  <2>3. x.at # "pay"
    BY <1>2, <1>10, <2>1, <2>2 DEF HostInv, CalmInv, Apart, Busy, CallOk
  <2>4. \A a \in awards' : a.kind = "ordinary" => a \in awards
    BY <1>5
  <2>5. MarksHold(x)'
    BY <1>1, <2>2, <2>3, <2>4 DEF MarksHold
  <2> QED BY <2>1, <2>5 DEF MarksHold
<1>11. calm => OnceEach'
  <2> SUFFICES ASSUME calm
               PROVE  OnceEach'
    OBVIOUS
  <2>1. ~star[h].paid
    BY <1>2 DEF MarksHold
  <2>2. \A a \in new, b \in awards : ~(a.kind = b.kind /\ a.host = b.host)
    BY <1>5, <2>1 DEF HostInv, EntryOk
  <2>3. \A a, b \in awards' : Overlap(a, b) => a \in awards /\ b \in awards
    BY <1>5, <2>2 DEF Overlap
  <2> QED BY <2>3 DEF HostInv, CalmInv, OnceEach, Overlap
<1>12. awards' \subseteq Entry
  BY <1>5 DEF HostInv, TypeInv
<1> QED BY <1>1, <1>3, <1>4, <1>6, <1>7, <1>8, <1>9, <1>10, <1>11, <1>12, CallSteps

\* The tag and the totals of a superstar change, and what was paid stays.
LEMMA StarStep ==
  ASSUME HostInv, UNCHANGED <<now, calm, stat, awards, call>>, DOMAIN star' = Hosts,
         \A h \in Hosts : "paid" \in DOMAIN star'[h] /\ star'[h].paid = star[h].paid
  PROVE  HostInv'
<1>1. TypeInv'
  BY DEF HostInv, TypeInv
<1>2. (\A c \in Calls : CallOk(call[c]))'
  BY DEF HostInv, CallOk, IsOrdinary, DaysSince
<1>3. (\A a \in awards : EntryOk(a))'
  <2>1. \A a \in awards : a.host \in Hosts
    BY DEF HostInv, TypeInv, Entry
  <2> QED BY <2>1 DEF HostInv, EntryOk, Justified, IsOrdinary, DaysSince
<1>4. CalmInv'
  <2>1. \A c \in Calls : call[c].due \in SUBSET Hosts
    BY CallsAre DEF HostInv, TypeInv
  <2>2. \A c \in Calls : MarksHold(call[c]) => MarksHold(call[c])'
    BY <2>1 DEF MarksHold
  <2>3. OnceEach => OnceEach'
    BY DEF OnceEach, Overlap
  <2> QED BY <2>2, <2>3 DEF HostInv, CalmInv, Apart, Busy
<1> QED BY <1>1, <1>2, <1>3, <1>4 DEF HostInv

LEMMA StarSteps ==
  ASSUME HostInv,
         \/ \E h \in Hosts, tag \in DOMAIN StarTiers : RegisterSuperstar(h, tag)
         \/ \E r \in signing : UpsertRecord(r) \/ FailSigning(r)
         \/ \E h \in Hosts : EnterTotals(h)
  PROVE  HostInv'
<1>1. DOMAIN star = Hosts /\ \A g \in Hosts : "paid" \in DOMAIN star[g]
  BY DEF HostInv, TypeInv
<1>2. ASSUME UNCHANGED <<now, stat, star, awards, call, calm>>
      PROVE  HostInv'
  BY <1>1, <1>2, StarStep
<1>3. ASSUME NEW h \in Hosts, NEW tag, RegisterSuperstar(h, tag)
      PROVE  HostInv'
  BY <1>2, <1>3 DEF RegisterSuperstar
<1>4. ASSUME NEW r \in signing, UpsertRecord(r)
      PROVE  HostInv'
  <2>1. /\ DOMAIN star' = Hosts
        /\ \A g \in Hosts : "paid" \in DOMAIN star'[g] /\ star'[g].paid = star[g].paid
    BY <1>1, <1>4 DEF UpsertRecord
  <2> QED BY <1>4, <2>1, StarStep DEF UpsertRecord
<1>5. ASSUME NEW r \in signing, FailSigning(r)
      PROVE  HostInv'
  BY <1>2, <1>5 DEF FailSigning
<1>6. ASSUME NEW h \in Hosts, EnterTotals(h)
      PROVE  HostInv'
  <2>1. PICK diamonds, hours : star' = [star EXCEPT ![h] =
          [there |-> star[h].there, tag |-> star[h].tag, diamonds |-> diamonds,
           hours |-> hours, paid |-> star[h].paid]]
    BY <1>6 DEF EnterTotals
  <2>2. /\ DOMAIN star' = Hosts
        /\ \A g \in Hosts : "paid" \in DOMAIN star'[g] /\ star'[g].paid = star[g].paid
    BY <1>1, <2>1
  <2> QED BY <1>6, <2>2, StarStep DEF EnterTotals
<1> QED BY <1>3, <1>4, <1>5, <1>6

-----------------------------------------------------------------------------
(* The theorems *)

LEMMA TickStep ==
  ASSUME HostInv, Tick
  PROVE  HostInv'
<1>1. UNCHANGED <<stat, star, awards, call, calm>>
  BY DEF Tick
<1>2. now \in Nat /\ now' \in Nat /\ now <= now' /\ now' >= RegisteredAt /\ now' <= LastTick
  <2>1. now \in Nat /\ now >= RegisteredAt /\ RegisteredAt \in Nat /\ LastTick \in Nat
    BY NumbersAssumption DEF HostInv, TypeInv, NumbersAssumption
  <2> QED BY <2>1 DEF Tick
<1>3. IsOrdinary => IsOrdinary'
  BY <1>2, OrdinaryStays
<1>4. TypeInv'
  BY <1>1, <1>2 DEF HostInv, TypeInv
<1>5. (\A c \in Calls : CallOk(call[c]))'
  BY <1>1, <1>3 DEF HostInv, CallOk
<1>6. (\A a \in awards : EntryOk(a))'
  BY <1>1, <1>3 DEF HostInv, EntryOk, Justified
<1>7. CalmInv'
  BY <1>1 DEF HostInv, CalmInv, Apart, Busy, MarksHold, OnceEach, Overlap
<1> QED BY <1>4, <1>5, <1>6, <1>7 DEF HostInv

LEMMA HostInit ==
  ASSUME Init
  PROVE  HostInv
<1>1. now = RegisteredAt /\ RegisteredAt \in Nat /\ RequiredHours \in Nat
      /\ RegisteredAt <= LastTick
  BY NumbersAssumption DEF Init, NumbersAssumption
<1>2. stat \in [Hosts -> [Days -> Stat]]
  <2> DEFINE rows == {NoStat} \cup
        {[there |-> TRUE, income |-> Tiers[i].target, hours |-> RequiredHours,
          daily |-> FALSE, new |-> FALSE] : i \in DOMAIN Tiers}
  <2>1. NoStat \in Stat
    BY DEF NoStat, Stat
  <2>2. rows \subseteq Stat
    <3>1. \A i \in DOMAIN Tiers : Tiers[i].target \in Nat
      BY TiersAre, TiersAssumption
    <3>2. \A i \in DOMAIN Tiers :
            [there |-> TRUE, income |-> Tiers[i].target, hours |-> RequiredHours,
             daily |-> FALSE, new |-> FALSE] \in Stat
      BY <1>1, <3>1 DEF Stat
    <3> QED BY <2>1, <3>2
  <2>3. PICK s \in [Hosts -> rows] :
          stat = [h \in Hosts |-> [d \in Days |-> IF d = Today THEN s[h] ELSE NoStat]]
    BY DEF Init
  <2> HIDE DEF rows
  <2> QED BY <2>1, <2>2, <2>3
<1>3. DOMAIN star = Hosts /\ \A h \in Hosts : "paid" \in DOMAIN star[h]
  BY DEF Init, NoStar
<1>4. \A c \in Calls : call[c] \in Call /\ call[c].at = "idle"
  <2>1. NoCall \in Call /\ NoCall.at = "idle"
    BY Ended DEF NoCall, Call, Places, Kinds
  <2> QED BY <2>1 DEF Init
<1>5. call \in [Calls -> Call]
  BY <1>4 DEF Init
<1>6. awards = {}
  BY DEF Init
<1>7. TypeInv
  BY <1>1, <1>2, <1>3, <1>5, <1>6 DEF TypeInv
<1>8. \A c \in Calls : CallOk(call[c]) /\ MarksHold(call[c]) /\ ~Busy(call[c])
  BY <1>4 DEF CallOk, Claims, MarksHold, Busy
<1> QED BY <1>6, <1>7, <1>8 DEF HostInv, CalmInv, OnceEach

\* HostInv is kept by every step of every call and of the surroundings.
LEMMA HostStep ==
  ASSUME HostInv, [Next]_vars
  PROVE  HostInv'
<1>1. CASE UNCHANGED vars
  <2>1. UNCHANGED <<now, calm, stat, awards, call, star>>
    BY <1>1 DEF vars
  <2> QED BY <2>1, StarStep DEF HostInv, TypeInv
<1>2. ASSUME NEW c \in Calls, NEW h \in Hosts,
             \/ RecordGiftIncome(c, h) \/ RecordLiveMinutes(c, h)
      PROVE  HostInv'
  <2>1. /\ 0 \in Nat /\ RequiredHours \in Nat /\ \A g \in Gifts : g \in Nat
    BY NumbersAssumption DEF NumbersAssumption
  <2> QED BY <1>2, <2>1, RecordDailyStep DEF RecordGiftIncome, RecordLiveMinutes
<1>3. ASSUME NEW c \in Calls, NEW h \in Hosts,
             \/ ClaimDailyReward(c, h) \/ ClaimNewHostReward(c, h)
             \/ ClaimOrdinaryHostReward(c, h)
      PROVE  HostInv'
  BY <1>3, ClaimSteps
<1>4. ASSUME NEW c \in Calls, NEW h \in Hosts, PaySuperstar(c, h)
      PROVE  HostInv'
  BY <1>4, PaySuperstarStep
<1>5. ASSUME NEW c \in Calls,
             \/ RecordWeekly(c) \/ FindStat(c) \/ CreateStat(c) \/ FindClaim(c)
             \/ UpdateHostLevel(c) \/ Fail(c)
      PROVE  HostInv'
  BY <1>5, RecordWeeklyStep, FindStatStep, CreateStatStep, FindClaimStep,
     UpdateHostLevelStep, FailStep
<1>6. ASSUME NEW c \in Calls,
             AwardDaily(c) \/ AwardNew(c) \/ AwardOrdinary(c) \/ BeginSalaries(c)
      PROVE  HostInv'
  BY <1>6, AwardDailyStep, AwardNewStep, AwardOrdinaryStep, BeginSalariesStep
<1>7. ASSUME \/ \E h \in Hosts, tag \in DOMAIN StarTiers : RegisterSuperstar(h, tag)
             \/ \E r \in signing : UpsertRecord(r) \/ FailSigning(r)
             \/ \E h \in Hosts : EnterTotals(h)
      PROVE  HostInv'
  BY <1>7, StarSteps
<1>8. CASE Tick
  BY <1>8, TickStep
<1> QED BY <1>1, <1>2, <1>3, <1>4, <1>5, <1>6, <1>7, <1>8 DEF Next

-----------------------------------------------------------------------------
(* Days and weeks *)

\* A day is in the week that starts on its Monday, and in no other.
LEMMA WeekOfDay ==
  ASSUME NEW d \in Nat, NEW e \in Nat
  PROVE  /\ WeekStart(d) \in Int
         /\ WeekStart(e) <= d /\ d < WeekStart(e) + 7 <=> WeekStart(d) = WeekStart(e)
<1>1. FirstWeekday \in 0..6
  BY NumbersAssumption DEF NumbersAssumption
<1>2. ASSUME NEW n \in Nat
      PROVE  \E q \in Int : /\ WeekStart(n) = 7 * q + 1 - FirstWeekday
                           /\ WeekStart(n) <= n /\ n < WeekStart(n) + 7
  <2> DEFINE q == (n + FirstWeekday) \div 7
             r == (n + FirstWeekday) % 7
  <2>1. q \in Int /\ r \in 0..6 /\ n + FirstWeekday = 7 * q + r
    BY <1>1
  <2>2. WeekStart(n) = n - r + (IF r = 0 THEN -6 ELSE 1)
    BY DEF WeekStart, WeekdayOf
  <2> HIDE DEF q, r
  <2>3. CASE r = 0
    <3>1. q - 1 \in Int /\ WeekStart(n) = 7 * (q - 1) + 1 - FirstWeekday
          /\ WeekStart(n) <= n /\ n < WeekStart(n) + 7
      BY <1>1, <2>1, <2>2, <2>3
    <3> QED BY <3>1
  <2>4. CASE r # 0
    <3>1. WeekStart(n) = 7 * q + 1 - FirstWeekday
          /\ WeekStart(n) <= n /\ n < WeekStart(n) + 7
      BY <1>1, <2>1, <2>2, <2>4
    <3> QED BY <2>1, <3>1
  <2> QED BY <2>3, <2>4
<1>3. PICK q \in Int : /\ WeekStart(d) = 7 * q + 1 - FirstWeekday
                       /\ WeekStart(d) <= d /\ d < WeekStart(d) + 7
  BY <1>2
<1>4. PICK p \in Int : WeekStart(e) = 7 * p + 1 - FirstWeekday
  BY <1>2
<1> QED BY <1>1, <1>3, <1>4

LEMMA DaysAre ==
  ASSUME NEW w \in Weeks
  PROVE  /\ IsFiniteSet(DaysOf(w)) /\ DaysOf(w) \subseteq Days
         /\ \A d \in Days : d \in Nat /\ WeekStart(d) \in Weeks
         /\ \A d \in Days : d \in DaysOf(w) <=> WeekStart(d) = w
<1>1. LastTick \div 2 \in Nat
  <2>1. LastTick \in Nat
    BY NumbersAssumption DEF NumbersAssumption
  <2> QED BY <2>1
<1>2. IsFiniteSet(Days) /\ \A d \in Days : d \in Nat
  BY <1>1, FS_Interval DEF Days, DayOf
<1>3. IsFiniteSet(DaysOf(w))
  BY <1>2, FS_Subset DEF DaysOf
<1>4. PICK e \in Days : w = WeekStart(e)
  BY DEF Weeks
<1>5. \A d \in Days : d \in DaysOf(w) <=> WeekStart(d) = w
  BY <1>2, <1>4, WeekOfDay DEF DaysOf
<1> QED BY <1>2, <1>3, <1>5 DEF DaysOf, Weeks

-----------------------------------------------------------------------------
(* The week is the sum of its days *)

\* The calls that still have to enter a day's income in the week, and how much.
Waiting(h, w) ==
  {c \in Calls : call[c].at = "weekly" /\ call[c].host = h /\ WeekStart(call[c].day) = w}
ToCome(h, w) == SumFunctionOnSet([c \in Waiting(h, w) |-> call[c].income], Waiting(h, w))

WeekOk(h, w) ==
  /\ IsFiniteSet(Waiting(h, w))
  /\ week[h][w].income + ToCome(h, w) <= IncomeOf(h, w)
  /\ faults = 0 => week[h][w].income + ToCome(h, w) = IncomeOf(h, w)
Row == [income: Nat, hours: Nat]
WeekInv ==
  /\ week \in [Hosts -> [Weeks -> Row]] /\ faults \in Nat
  /\ \A h \in Hosts, w \in Weeks : WeekOk(h, w)

LEMMA SumsAre ==
  ASSUME TypeInv, NEW h \in Hosts, NEW w \in Weeks, IsFiniteSet(Waiting(h, w))
  PROVE  ToCome(h, w) \in Nat /\ IncomeOf(h, w) \in Nat
<1>1. \A c \in Waiting(h, w) : call[c].income \in Nat
  BY CallsAre DEF Waiting, TypeInv
<1>2. \A d \in DaysOf(w) : stat[h][d].income \in Nat
  BY DaysAre, StatsAre
<1>3. ToCome(h, w) \in Nat
  <2> DEFINE f == [c \in Waiting(h, w) |-> call[c].income]
  <2>1. \A c \in Waiting(h, w) : f[c] \in Nat
    BY <1>1
  <2> HIDE DEF f
  <2>2. SumFunctionOnSet(f, Waiting(h, w)) \in Nat
    BY <2>1, SumNatural
  <2> QED BY <2>2 DEF ToCome, f
<1>4. IncomeOf(h, w) \in Nat
  <2> DEFINE f == [d \in DaysOf(w) |-> stat[h][d].income]
  <2>1. \A d \in DaysOf(w) : f[d] \in Nat
    BY <1>2
  <2> HIDE DEF f
  <2>2. SumFunctionOnSet(f, DaysOf(w)) \in Nat
    BY <2>1, DaysAre, SumNatural
  <2> QED BY <2>2 DEF IncomeOf, f
<1> QED BY <1>3, <1>4

\* The calls that wait for the week are the same, and the days' incomes too.
WeeklyKept ==
  \A c \in Calls : call[c].at = "weekly" \/ call'[c].at = "weekly" => call'[c] = call[c]
IncomesKept == \A h \in Hosts, d \in Days : stat'[h][d].income = stat[h][d].income

LEMMA WeekStands ==
  ASSUME WeekInv, WeeklyKept, IncomesKept, week' = week, faults' \in {faults, faults + 1}
  PROVE  WeekInv'
<1>1. ASSUME NEW h \in Hosts, NEW w \in Weeks
      PROVE  WeekOk(h, w)'
  <2>1. Waiting(h, w)' = Waiting(h, w)
    BY DEF WeeklyKept, Waiting
  <2>2. ToCome(h, w)' = ToCome(h, w)
    <3>1. [c \in Waiting(h, w) |-> call[c].income]' = [c \in Waiting(h, w) |-> call[c].income]
      BY <2>1 DEF WeeklyKept, Waiting
    <3> QED BY <2>1, <3>1 DEF ToCome
  <2>3. IncomeOf(h, w)' = IncomeOf(h, w)
    <3>1. DaysOf(w)' = DaysOf(w)
      BY DEF DaysOf, Days
    <3>2. [d \in DaysOf(w) |-> stat[h][d].income]' = [d \in DaysOf(w) |-> stat[h][d].income]
      BY DaysAre, <3>1 DEF IncomesKept
    <3> QED BY <3>1, <3>2 DEF IncomeOf
  <2>4. faults' \in Nat /\ (faults' = 0 => faults = 0)
    BY DEF WeekInv
  <2> QED BY <2>1, <2>2, <2>3, <2>4 DEF WeekInv, WeekOk
<1> QED BY <1>1 DEF WeekInv

LEMMA Elsewhere ==
  ASSUME TypeInv, NEW c \in Calls, call[c].at # "weekly",
         \/ \E r : call' = [call EXCEPT ![c] = r] /\ r.at # "weekly"
         \/ \E l \in Places \ {"weekly"} : Goto(c, l)
  PROVE  WeeklyKept
<1>1. PICK r : call' = [call EXCEPT ![c] = r] /\ r.at # "weekly"
  <2>1. ASSUME NEW l \in Places \ {"weekly"}, Goto(c, l)
        PROVE  \E r : call' = [call EXCEPT ![c] = r] /\ r.at # "weekly"
    <3>1. CASE l = "ended"
      <4> DEFINE r == [NoCall EXCEPT !.at = "ended"]
      <4>1. r.at = "ended" /\ call' = [call EXCEPT ![c] = r]
        BY <2>1, <3>1, Ended DEF Goto
      <4> HIDE DEF r
      <4> QED BY <4>1
    <3>2. CASE l # "ended"
      BY <2>1, <3>2, Going
    <3> QED BY <3>1, <3>2
  <2> QED BY <2>1
<1> QED BY <1>1 DEF WeeklyKept, TypeInv

\* A mark set in a row leaves its income alone.
LEMMA MarkKeepsIncome ==
  ASSUME TypeInv, NEW h \in Hosts, NEW d \in Days,
         \/ stat' = [stat EXCEPT ![h][d].there = TRUE]
         \/ stat' = [stat EXCEPT ![h][d].daily = TRUE]
         \/ stat' = [stat EXCEPT ![h][d].new = TRUE]
  PROVE  IncomesKept
<1>1. PICK s \in Stat : s = stat[h][d]
  BY StatsAre
<1>2. PICK t \in Stat : t.income = s.income /\ stat' = [stat EXCEPT ![h][d] = t]
  <2> DEFINE t1 == [s EXCEPT !.there = TRUE]
             t2 == [s EXCEPT !.daily = TRUE]
             t3 == [s EXCEPT !.new = TRUE]
  <2>1. t1 \in Stat /\ t2 \in Stat /\ t3 \in Stat
    BY DEF Stat
  <2>2. t1.income = s.income /\ t2.income = s.income /\ t3.income = s.income
    BY DEF Stat
  <2>3. \/ stat' = [stat EXCEPT ![h][d] = t1]
        \/ stat' = [stat EXCEPT ![h][d] = t2]
        \/ stat' = [stat EXCEPT ![h][d] = t3]
    BY <1>1
  <2> HIDE DEF t1, t2, t3
  <2> QED BY <2>1, <2>2, <2>3
<1>3. \A g \in Hosts, e \in Days : stat'[g][e] = IF g = h /\ e = d THEN t ELSE stat[g][e]
  BY <1>2 DEF TypeInv
<1> QED BY <1>1, <1>2, <1>3 DEF IncomesKept

\* A recorded day adds to its own day and to what its week still waits for.
LEMMA RecordDailyWeek ==
  ASSUME TypeInv, TypeInv', WeekInv, NEW c \in Calls, NEW h \in Hosts, NEW income \in Nat,
         NEW hours \in Nat, RecordDaily(c, h, income, hours)
  PROVE  WeekInv'
<1>1. PICK day \in Days : day = Today
  BY TodayIs
<1>2. /\ UNCHANGED <<week, faults>> /\ call[c].at = "idle"
      /\ call'[c].at = "weekly" /\ call'[c].host = h /\ call'[c].day = day
      /\ call'[c].income = income
      /\ \A d \in Calls : d # c => call'[d] = call[d]
  BY <1>1 DEF RecordDaily, TypeInv
<1>3. /\ \A g \in Hosts, d \in Days : ~(g = h /\ d = day) => stat'[g][d] = stat[g][d]
      /\ stat'[h][day].income = stat[h][day].income + income
  <2> DEFINE t == [there |-> TRUE, income |-> stat[h][day].income + income,
                   hours |-> stat[h][day].hours + hours, daily |-> stat[h][day].daily,
                   new |-> stat[h][day].new]
  <2>1. stat' = [stat EXCEPT ![h][day] = t]
    BY <1>1 DEF RecordDaily
  <2>2. t.income = stat[h][day].income + income
    OBVIOUS
  <2> HIDE DEF t
  <2> QED BY <2>1, <2>2 DEF TypeInv
<1>4. ASSUME NEW g \in Hosts, NEW w \in Weeks, g # h \/ w # WeekStart(day)
      PROVE  WeekOk(g, w)'
  <2>1. Waiting(g, w)' = Waiting(g, w) /\ c \notin Waiting(g, w)
    BY <1>2, <1>4 DEF Waiting
  <2>2. ToCome(g, w)' = ToCome(g, w)
    <3>1. \A d \in Waiting(g, w) : call'[d] = call[d]
      BY <1>2, <2>1 DEF Waiting
    <3>2. [d \in Waiting(g, w) |-> call[d].income]' = [d \in Waiting(g, w) |-> call[d].income]
      BY <2>1, <3>1
    <3> QED BY <2>1, <3>2 DEF ToCome
  <2>3. IncomeOf(g, w)' = IncomeOf(g, w)
    <3>1. DaysOf(w)' = DaysOf(w)
      BY DEF DaysOf, Days
    <3>2. \A d \in DaysOf(w) : d \in Days /\ (g = h => d # day)
      BY <1>4, DaysAre
    <3>3. \A d \in DaysOf(w) : stat'[g][d] = stat[g][d]
      BY <1>3, <3>2
    <3>4. [d \in DaysOf(w) |-> stat[g][d].income]' = [d \in DaysOf(w) |-> stat[g][d].income]
      BY <3>1, <3>3
    <3> QED BY <3>1, <3>4 DEF IncomeOf
  <2> QED BY <1>2, <2>1, <2>2, <2>3 DEF WeekInv, WeekOk
<1>5. ASSUME NEW w \in Weeks, w = WeekStart(day)
      PROVE  WeekOk(h, w)'
  <2>1. WeekOk(h, w) /\ IsFiniteSet(Waiting(h, w))
    BY DEF WeekInv, WeekOk
  <2>2. Waiting(h, w)' = Waiting(h, w) \cup {c} /\ c \notin Waiting(h, w)
    BY <1>2, <1>5 DEF Waiting
  <2>3. IsFiniteSet(Waiting(h, w)')
    BY <2>1, <2>2, FS_AddElement
  <2>4. ToCome(h, w)' = ToCome(h, w) + income
    <3> DEFINE f == [d \in Waiting(h, w) |-> call[d].income]
               g == [d \in Waiting(h, w) \cup {c} |-> call'[d].income]
    <3>1. /\ \A d \in Waiting(h, w) : f[d] \in Int /\ f[d] = g[d]
          /\ \A d \in Waiting(h, w) \cup {c} : g[d] \in Int
          /\ g[c] = income
      <4>1. \A d \in Waiting(h, w) : call[d].income \in Nat /\ call'[d] = call[d]
        BY <1>2, <2>2, CallsAre DEF Waiting, TypeInv
      <4> QED BY <1>2, <4>1
    <3>2. ToCome(h, w) = SumFunctionOnSet(f, Waiting(h, w))
      BY DEF ToCome
    <3>3. ToCome(h, w)' = SumFunctionOnSet(g, Waiting(h, w) \cup {c})
      BY <2>2 DEF ToCome
    <3> HIDE DEF f, g
    <3>4. SumFunctionOnSet(f, Waiting(h, w)) = SumFunctionOnSet(g, Waiting(h, w))
      BY <2>1, <3>1, SumSame
    <3>5. SumFunctionOnSet(g, Waiting(h, w) \cup {c}) = SumFunctionOnSet(g, Waiting(h, w)) + g[c]
      BY <2>1, <2>2, <3>1, SumWith
    <3> QED BY <3>1, <3>2, <3>3, <3>4, <3>5
  <2>5. IncomeOf(h, w)' = IncomeOf(h, w) + income
    <3> DEFINE f == [d \in DaysOf(w) |-> stat[h][d].income]
               g == [d \in DaysOf(w) |-> stat'[h][d].income]
    <3>1. day \in DaysOf(w) /\ \A d \in DaysOf(w) : d \in Days
      BY <1>5, DaysAre
    <3>2. /\ \A d \in DaysOf(w) : f[d] \in Int /\ (d # day => g[d] = f[d])
          /\ g[day] = f[day] + income
      <4>1. \A d \in DaysOf(w) : stat[h][d].income \in Nat
        BY <3>1, StatsAre
      <4> QED BY <1>3, <3>1, <4>1
    <3>3. IncomeOf(h, w) = SumFunctionOnSet(f, DaysOf(w))
      BY DEF IncomeOf
    <3>4. IncomeOf(h, w)' = SumFunctionOnSet(g, DaysOf(w))
      BY DEF IncomeOf, DaysOf, Days
    <3>5. IsFiniteSet(DaysOf(w))
      BY DaysAre
    <3> HIDE DEF f, g
    <3>6. g[day] \in Int
      BY <3>1, <3>2
    <3>7. SumFunctionOnSet(g, DaysOf(w)) = SumFunctionOnSet(f, DaysOf(w)) - f[day] + g[day]
      BY <3>1, <3>2, <3>5, <3>6, SumChange
    <3>8. SumFunctionOnSet(f, DaysOf(w)) \in Int /\ f[day] \in Int
      BY <3>1, <3>2, <3>5, SumRecursion
    <3> QED BY <3>2, <3>3, <3>4, <3>7, <3>8
  <2>6. week'[h][w].income = week[h][w].income /\ week[h][w].income \in Nat
    BY <1>2 DEF WeekInv, Row
  <2>7. ToCome(h, w) \in Nat /\ IncomeOf(h, w) \in Nat
    BY <2>1, SumsAre
  <2> QED BY <1>2, <2>1, <2>3, <2>4, <2>5, <2>6, <2>7 DEF WeekOk
<1> QED BY <1>2, <1>4, <1>5 DEF WeekInv

\* A call that no longer waits: what its week waits for is less by its income.
LEMMA NoLonger ==
  ASSUME TypeInv, TypeInv', WeekInv, NEW c \in Calls, call[c].at = "weekly", Goto(c, "ended"),
         NEW h \in Hosts, NEW w \in Weeks, c \in Waiting(h, w)
  PROVE  /\ IsFiniteSet(Waiting(h, w)')
         /\ ToCome(h, w) = ToCome(h, w)' + call[c].income
<1>1. call'[c].at = "ended" /\ \A d \in Calls : d # c => call'[d] = call[d]
  <2> DEFINE r == [NoCall EXCEPT !.at = "ended"]
  <2>1. r.at = "ended" /\ call' = [call EXCEPT ![c] = r]
    BY Ended DEF Goto
  <2> HIDE DEF r
  <2> QED BY <2>1 DEF TypeInv
<1>2. IsFiniteSet(Waiting(h, w))
  BY DEF WeekInv, WeekOk
<1>3. Waiting(h, w)' = Waiting(h, w) \ {c}
  BY <1>1 DEF Waiting
<1>4. IsFiniteSet(Waiting(h, w) \ {c})
  BY <1>2, FS_RemoveElement
<1> DEFINE f == [d \in Waiting(h, w) |-> call[d].income]
           g == [d \in Waiting(h, w) \ {c} |-> call'[d].income]
<1>5. \A d \in Waiting(h, w) : f[d] \in Int /\ f[d] = call[d].income
  BY CallsAre DEF Waiting, TypeInv
<1>6. \A d \in Waiting(h, w) \ {c} : g[d] \in Int /\ g[d] = f[d]
  BY <1>1, <1>5 DEF Waiting
<1>7. ToCome(h, w) = SumFunctionOnSet(f, Waiting(h, w))
  BY DEF ToCome
<1>8. ToCome(h, w)' = SumFunctionOnSet(g, Waiting(h, w) \ {c})
  BY <1>3 DEF ToCome
<1> HIDE DEF f, g
<1>9. SumFunctionOnSet(f, Waiting(h, w)) = f[c] + SumFunctionOnSet(f, Waiting(h, w) \ {c})
  BY <1>2, <1>5, SumWithout
<1>10. SumFunctionOnSet(g, Waiting(h, w) \ {c}) = SumFunctionOnSet(f, Waiting(h, w) \ {c})
  BY <1>4, <1>6, SumSame
<1>11. SumFunctionOnSet(g, Waiting(h, w) \ {c}) \in Int
  BY <1>4, <1>6, SumRecursion
<1> QED BY <1>3, <1>4, <1>5, <1>7, <1>8, <1>9, <1>10, <1>11

\* Nothing changes for the weeks the call did not wait for.
LEMMA OtherWeeks ==
  ASSUME TypeInv, NEW c \in Calls, Goto(c, "ended"),
         NEW h \in Hosts, NEW w \in Weeks, c \notin Waiting(h, w)
  PROVE  Waiting(h, w)' = Waiting(h, w) /\ ToCome(h, w)' = ToCome(h, w)
<1>1. call'[c].at = "ended" /\ \A d \in Calls : d # c => call'[d] = call[d]
  <2> DEFINE r == [NoCall EXCEPT !.at = "ended"]
  <2>1. r.at = "ended" /\ call' = [call EXCEPT ![c] = r]
    BY Ended DEF Goto
  <2> HIDE DEF r
  <2> QED BY <2>1 DEF TypeInv
<1>2. Waiting(h, w)' = Waiting(h, w) /\ \A d \in Waiting(h, w) : call'[d] = call[d]
  BY <1>1 DEF Waiting
<1>3. [d \in Waiting(h, w) |-> call[d].income]' = [d \in Waiting(h, w) |-> call[d].income]
  BY <1>2
<1> QED BY <1>2, <1>3 DEF ToCome

\* The week's row takes in what it waited for.
LEMMA RecordWeeklyWeek ==
  ASSUME TypeInv, TypeInv', WeekInv, NEW c \in Calls, RecordWeekly(c), call[c].host \in Hosts
  PROVE  WeekInv'
<1>1. PICK h \in Hosts, v \in Weeks, q \in Call :
        /\ h = call[c].host /\ v = WeekStart(call[c].day) /\ q = call[c]
        /\ q.income \in Nat /\ q.hours \in Nat
  <2>1. call[c] \in Call
    BY DEF TypeInv
  <2>2. WeekStart(call[c].day) \in Weeks /\ call[c].income \in Nat /\ call[c].hours \in Nat
    BY <2>1, CallsAre DEF Weeks
  <2> QED BY <2>1, <2>2
<1>2. PICK s \in Row : s = week[h][v]
  BY DEF WeekInv
<1>3. PICK t \in Row : /\ t.income = s.income + q.income
                       /\ week' = [week EXCEPT ![h][v] = t]
  <2> DEFINE t == [income |-> s.income + q.income, hours |-> s.hours + q.hours]
  <2>1. t \in Row /\ t.income = s.income + q.income
    BY <1>1 DEF Row
  <2>2. week' = [week EXCEPT ![h][v] = t]
    BY <1>1, <1>2 DEF RecordWeekly, Host
  <2> HIDE DEF t
  <2> QED BY <2>1, <2>2
<1>4. /\ week' \in [Hosts -> [Weeks -> Row]]
      /\ \A g \in Hosts, w \in Weeks :
           week'[g][w] = IF g = h /\ w = v THEN t ELSE week[g][w]
  BY <1>3 DEF WeekInv
<1>5. /\ call[c].at = "weekly" /\ Goto(c, "ended") /\ faults' = faults /\ stat' = stat
  BY DEF RecordWeekly
<1>6. ASSUME NEW g \in Hosts, NEW w \in Weeks
      PROVE  WeekOk(g, w)'
  <2>1. IncomeOf(g, w)' = IncomeOf(g, w)
    BY <1>5 DEF IncomeOf, DaysOf, Days
  <2>2. CASE g = h /\ w = v
    <3>1. c \in Waiting(g, w)
      BY <1>1, <1>5, <2>2 DEF Waiting
    <3>2. IsFiniteSet(Waiting(g, w)') /\ ToCome(g, w) = ToCome(g, w)' + call[c].income
      BY <1>5, <3>1, NoLonger
    <3>3. week'[g][w].income = week[g][w].income + call[c].income
      BY <1>1, <1>2, <1>3, <1>4, <2>2
    <3>4. ToCome(g, w)' \in Nat
      <4>1. \A d \in Calls : call'[d].income \in Nat
        BY CallsAre DEF TypeInv
      <4> DEFINE f == [d \in Waiting(g, w)' |-> call'[d].income]
      <4>2. \A d \in Waiting(g, w)' : f[d] \in Nat
        BY <4>1 DEF Waiting
      <4>3. ToCome(g, w)' = SumFunctionOnSet(f, Waiting(g, w)')
        BY DEF ToCome
      <4> HIDE DEF f
      <4> QED BY <3>2, <4>2, <4>3, SumNatural
    <3>5. week[g][w].income \in Nat /\ call[c].income \in Nat
      BY <1>1 DEF WeekInv, Row
    <3>6. week'[g][w].income + ToCome(g, w)' = week[g][w].income + ToCome(g, w)
      BY <3>2, <3>3, <3>4, <3>5
    <3> QED BY <1>5, <2>1, <3>2, <3>6 DEF WeekInv, WeekOk
  <2>3. CASE ~(g = h /\ w = v)
    <3>1. c \notin Waiting(g, w)
      BY <1>1, <2>3 DEF Waiting
    <3>2. Waiting(g, w)' = Waiting(g, w) /\ ToCome(g, w)' = ToCome(g, w)
      BY <1>5, <3>1, OtherWeeks
    <3>3. week'[g][w] = week[g][w]
      BY <1>4, <2>3
    <3> QED BY <1>5, <2>1, <3>2, <3>3 DEF WeekInv, WeekOk
  <2> QED BY <2>2, <2>3
<1> QED BY <1>4, <1>5, <1>6 DEF WeekInv

\* A call that fails between the two rows leaves the week behind its days.
LEMMA FailWeek ==
  ASSUME TypeInv, TypeInv', WeekInv, NEW c \in Calls, Fail(c)
  PROVE  WeekInv'
<1>1. Goto(c, "ended") /\ faults' = faults + 1 /\ UNCHANGED <<stat, week>> /\ faults \in Nat
  BY DEF Fail, WeekInv
<1>2. ASSUME NEW h \in Hosts, NEW w \in Weeks
      PROVE  WeekOk(h, w)'
  <2>1. IncomeOf(h, w)' = IncomeOf(h, w)
    BY <1>1 DEF IncomeOf, DaysOf, Days
  <2>2. WeekOk(h, w) /\ week[h][w].income \in Nat /\ IsFiniteSet(Waiting(h, w))
    BY DEF WeekInv, WeekOk, Row
  <2>3. ToCome(h, w) \in Nat /\ IncomeOf(h, w) \in Nat
    BY <2>2, SumsAre
  <2>4. CASE c \in Waiting(h, w)
    <3>1. IsFiniteSet(Waiting(h, w)') /\ ToCome(h, w) = ToCome(h, w)' + call[c].income
      BY <1>1, <2>4, NoLonger DEF Waiting
    <3>2. call[c].income \in Nat
      BY CallsAre DEF TypeInv
    <3>3. ToCome(h, w)' \in Nat
      <4>1. \A d \in Calls : call'[d].income \in Nat
        BY CallsAre DEF TypeInv
      <4> DEFINE f == [d \in Waiting(h, w)' |-> call'[d].income]
      <4>2. \A d \in Waiting(h, w)' : f[d] \in Nat
        BY <4>1 DEF Waiting
      <4>3. ToCome(h, w)' = SumFunctionOnSet(f, Waiting(h, w)')
        BY DEF ToCome
      <4> HIDE DEF f
      <4> QED BY <3>1, <4>2, <4>3, SumNatural
    <3>4. week'[h][w].income + ToCome(h, w)' <= IncomeOf(h, w)'
      BY <1>1, <2>1, <2>2, <2>3, <3>1, <3>2, <3>3 DEF WeekOk
    <3> QED BY <1>1, <3>1, <3>4 DEF WeekOk
  <2>5. CASE c \notin Waiting(h, w)
    <3>1. Waiting(h, w)' = Waiting(h, w) /\ ToCome(h, w)' = ToCome(h, w)
      BY <1>1, <2>5, OtherWeeks
    <3> QED BY <1>1, <2>1, <2>2, <3>1 DEF WeekOk
  <2> QED BY <2>4, <2>5
<1> QED BY <1>1, <1>2 DEF WeekInv

LEMMA WeekStep ==
  ASSUME HostInv, HostInv', WeekInv, [Next]_vars
  PROVE  WeekInv'
<1>0. TypeInv /\ TypeInv'
  BY DEF HostInv
<1>1. ASSUME UNCHANGED <<stat, call, week>>, faults' \in {faults, faults + 1} PROVE WeekInv'
  BY <1>1, WeekStands DEF WeeklyKept, IncomesKept
<1>2. ASSUME NEW c \in Calls, NEW h \in Hosts,
             RecordGiftIncome(c, h) \/ RecordLiveMinutes(c, h)
      PROVE  WeekInv'
  <2>1. 0 \in Nat /\ RequiredHours \in Nat /\ \A g \in Gifts : g \in Nat
    BY NumbersAssumption DEF NumbersAssumption
  <2> QED BY <1>0, <1>2, <2>1, RecordDailyWeek DEF RecordGiftIncome, RecordLiveMinutes
<1>3. ASSUME NEW c \in Calls, RecordWeekly(c) PROVE WeekInv'
  <2>1. call[c].host \in Hosts
    BY <1>3 DEF HostInv, CallOk, RecordWeekly
  <2> QED BY <1>0, <1>3, <2>1, RecordWeeklyWeek
<1>4. ASSUME NEW c \in Calls, Fail(c) PROVE WeekInv'
  BY <1>0, <1>4, FailWeek
<1>5. ASSUME IncomesKept, UNCHANGED <<week, faults>>, NEW c \in Calls, call[c].at # "weekly",
             \/ \E r : call' = [call EXCEPT ![c] = r] /\ r.at # "weekly"
             \/ \E l \in Places \ {"weekly"} : Goto(c, l)
      PROVE  WeekInv'
  BY <1>0, <1>5, Elsewhere, WeekStands
<1>6. stat' = stat => IncomesKept
  BY DEF IncomesKept
<1>7. {"ended", "award", "level"} \subseteq Places \ {"weekly"}
  BY DEF Places
<1>8. ASSUME NEW c \in Calls, NEW h \in Hosts,
             \/ ClaimDailyReward(c, h) \/ ClaimNewHostReward(c, h)
             \/ ClaimOrdinaryHostReward(c, h)
      PROVE  WeekInv'
  <2>1. PICK kind, eligible : Begin(c, kind, h, eligible)
    BY <1>8 DEF ClaimDailyReward, ClaimNewHostReward, ClaimOrdinaryHostReward
  <2> DEFINE r == IF eligible
                  THEN [at |-> "stat", kind |-> kind, host |-> h, date |-> Today, day |-> 0,
                        income |-> 0, hours |-> 0, due |-> {}]
                  ELSE [NoCall EXCEPT !.at = "ended"]
  <2>2. call' = [call EXCEPT ![c] = r] /\ r.at # "weekly"
    BY <2>1, Ended DEF Begin
  <2> HIDE DEF r
  <2> QED BY <1>5, <1>6, <2>1, <2>2 DEF Begin
<1>9. ASSUME NEW c \in Calls, FindStat(c) PROVE WeekInv'
  <2>1. /\ call[c].at = "stat" /\ UNCHANGED <<stat, week, faults>>
        /\ \/ Goto(c, "ended")
           \/ \E r : call' = [call EXCEPT ![c] = r] /\ r.at # "weekly"
    BY <1>9 DEF FindStat
  <2> QED BY <1>5, <1>6, <1>7, <2>1
<1>10. ASSUME NEW c \in Calls, CreateStat(c) \/ AwardDaily(c) \/ AwardNew(c)
       PROVE  WeekInv'
  <2>1. /\ call[c].host \in Hosts /\ call[c].day \in Days /\ call[c].at # "weekly"
        /\ Goto(c, "ended") \/ Goto(c, "level")
        /\ UNCHANGED <<week, faults>>
    <3>1. call[c] \in Call /\ CallOk(call[c])
      BY DEF HostInv, TypeInv
    <3>2. call[c].at \in {"create", "award"}
      BY <1>10 DEF CreateStat, AwardDaily, AwardNew, Award
    <3> QED BY <1>10, <3>1, <3>2, CallsAre
            DEF CallOk, Claims, CreateStat, AwardDaily, AwardNew, Award
  <2>2. \/ stat' = [stat EXCEPT ![call[c].host][call[c].day].there = TRUE]
        \/ stat' = [stat EXCEPT ![call[c].host][call[c].day].daily = TRUE]
        \/ stat' = [stat EXCEPT ![call[c].host][call[c].day].new = TRUE]
    BY <1>10 DEF CreateStat, AwardDaily, AwardNew, Host
  <2>3. IncomesKept
    BY <1>0, <2>1, <2>2, MarkKeepsIncome
  <2> QED BY <1>5, <1>7, <2>1, <2>3
<1>11. ASSUME NEW c \in Calls, FindClaim(c) \/ AwardOrdinary(c) \/ UpdateHostLevel(c)
       PROVE  WeekInv'
  <2>1. /\ call[c].at # "weekly" /\ UNCHANGED <<stat, week, faults>>
        /\ Goto(c, "ended") \/ Goto(c, "award")
    BY <1>11 DEF FindClaim, AwardOrdinary, Award, UpdateHostLevel
  <2> QED BY <1>5, <1>6, <1>7, <2>1
<1>12. ASSUME NEW c \in Calls, BeginSalaries(c) PROVE WeekInv'
  <2>1. PICK due :
          call' = [call EXCEPT ![c] =
            IF due = {} THEN [NoCall EXCEPT !.at = "ended"]
            ELSE [at |-> "pay", kind |-> "salary", host |-> Nobody, date |-> 0, day |-> 0,
                  income |-> 0, hours |-> 0, due |-> due]]
    BY <1>12 DEF BeginSalaries
  <2> DEFINE r == IF due = {} THEN [NoCall EXCEPT !.at = "ended"]
                  ELSE [at |-> "pay", kind |-> "salary", host |-> Nobody, date |-> 0,
                        day |-> 0, income |-> 0, hours |-> 0, due |-> due]
  <2>2. r.at # "weekly"
    BY Ended
  <2>3. call' = [call EXCEPT ![c] = r]
    BY <2>1
  <2> HIDE DEF r
  <2> QED BY <1>5, <1>6, <1>12, <2>2, <2>3 DEF BeginSalaries
<1>13. ASSUME NEW c \in Calls, NEW h \in Hosts, PaySuperstar(c, h) PROVE WeekInv'
  <2> DEFINE q == [call[c] EXCEPT !.due = call[c].due \ {h}]
             r == IF call[c].due = {h} THEN [NoCall EXCEPT !.at = "ended"] ELSE q
  <2>1. call[c].at = "pay" /\ call[c] \in Call
    BY <1>0, <1>13 DEF PaySuperstar, TypeInv
  <2>2. q.at = "pay"
    BY <2>1 DEF Call
  <2>3. call' = [call EXCEPT ![c] = r]
    BY <1>13 DEF PaySuperstar
  <2> HIDE DEF q
  <2>4. r.at # "weekly"
    BY <2>2, Ended
  <2> HIDE DEF r
  <2> QED BY <1>5, <1>6, <1>13, <2>1, <2>3, <2>4 DEF PaySuperstar
<1>14. ASSUME \/ Tick \/ UNCHANGED vars
              \/ \E h \in Hosts, tag \in DOMAIN StarTiers : RegisterSuperstar(h, tag)
              \/ \E r \in signing : UpsertRecord(r) \/ FailSigning(r)
              \/ \E h \in Hosts : EnterTotals(h)
       PROVE  WeekInv'
  BY <1>1, <1>14
     DEF Tick, vars, RegisterSuperstar, UpsertRecord, FailSigning, EnterTotals
<1> QED BY <1>2, <1>3, <1>4, <1>8, <1>9, <1>10, <1>11, <1>12, <1>13, <1>14 DEF Next

\* At the start the week holds what its first day does.
LEMMA WeekStarts ==
  ASSUME Init
  PROVE  WeekInv
<1>0. TypeInv
  BY HostInit DEF HostInv
<1>1. PICK today \in Days : today = Today
  BY <1>0, TodayIs
<1>2. /\ \A h \in Hosts, d \in Days : d # today => stat[h][d].income = 0
      /\ \A c \in Calls : call[c].at = "idle"
      /\ faults = 0
  BY <1>1 DEF Init, NoStat, NoCall
<1>3. /\ week \in [Hosts -> [Weeks -> Row]]
      /\ \A h \in Hosts, w \in Weeks : week[h][w].income =
           IF w = WeekStart(today) THEN stat[h][today].income ELSE 0
  <2>1. \A h \in Hosts : stat[h][today].income \in Nat /\ stat[h][today].hours \in Nat
    BY <1>0, StatsAre
  <2>2. week = [h \in Hosts |-> [w \in Weeks |->
                 IF w = WeekStart(today)
                 THEN [income |-> stat[h][today].income, hours |-> stat[h][today].hours]
                 ELSE [income |-> 0, hours |-> 0]]]
    BY <1>1 DEF Init
  <2> QED BY <2>1, <2>2 DEF Row
<1>4. ASSUME NEW h \in Hosts, NEW w \in Weeks
      PROVE  WeekOk(h, w)
  <2>1. Waiting(h, w) = {} /\ IsFiniteSet({})
    BY <1>2, FS_EmptySet DEF Waiting
  <2>2. ToCome(h, w) = 0
    BY <2>1, SumRecursion DEF ToCome
  <2> DEFINE f == [d \in DaysOf(w) |-> stat[h][d].income]
             g == [d \in DaysOf(w) |-> 0]
  <2>3. /\ \A d \in DaysOf(w) : d \in Days /\ f[d] \in Int /\ (d # today => f[d] = 0)
        /\ today \in DaysOf(w) <=> w = WeekStart(today)
        /\ today \in DaysOf(w) => f[today] = stat[h][today].income
        /\ IsFiniteSet(DaysOf(w))
    BY <1>0, <1>2, DaysAre, StatsAre
  <2>4. IncomeOf(h, w) = SumFunctionOnSet(f, DaysOf(w))
    BY DEF IncomeOf
  <2>5. \A d \in DaysOf(w) : g[d] = 0
    OBVIOUS
  <2> HIDE DEF f, g
  <2>6. SumFunctionOnSet(g, DaysOf(w)) = 0
    BY <2>3, <2>5, SumZero
  <2>7. CASE w = WeekStart(today)
    <3>1. SumFunctionOnSet(f, DaysOf(w)) = SumFunctionOnSet(g, DaysOf(w)) - g[today] + f[today]
      <4>1. today \in DaysOf(w) /\ f[today] \in Int /\ IsFiniteSet(DaysOf(w))
        BY <2>3, <2>7
      <4>2. \A d \in DaysOf(w) : g[d] \in Int /\ (d # today => f[d] = g[d])
        BY <2>3, <2>5
      <4> QED BY <4>1, <4>2, SumChange
    <3> QED BY <1>2, <1>3, <2>1, <2>2, <2>3, <2>4, <2>5, <2>6, <2>7, <3>1 DEF WeekOk
  <2>8. CASE w # WeekStart(today)
    <3>1. \A d \in DaysOf(w) : f[d] = 0
      BY <2>3, <2>8
    <3>2. SumFunctionOnSet(f, DaysOf(w)) = 0
      BY <2>3, <3>1, SumZero
    <3> QED BY <1>3, <2>1, <2>2, <2>4, <2>8, <3>2 DEF WeekOk
  <2> QED BY <2>7, <2>8
<1> QED BY <1>2, <1>3, <1>4 DEF WeekInv

\* HostInv is an invariant of the service.
THEOREM HostAlways == Spec => []HostInv
<1>1. Init => HostInv
  BY HostInit
<1>2. HostInv /\ [Next]_vars => HostInv'
  BY HostStep
<1> QED BY <1>1, <1>2, PTL DEF Spec

\* For any number of overlapping calls of different hosts, with claims that fail
\* and are repeated and midnight between any two steps: a host that makes one
\* claim at a time has each reward of a day once.
THEOREM OncePerDayAlways == Spec => []OncePerDay
<1>1. HostInv => OncePerDay
  BY DEF HostInv, CalmInv, OnceEach, OncePerDay
<1> QED BY <1>1, HostAlways, PTL

\* Every reward is justified by the row of the day it was paid for, even when
\* the claims of one host overlap.
THEOREM AwardIsJustifiedAlways == Spec => []AwardIsJustified
<1>1. HostInv => AwardIsJustified
  BY DEF HostInv, EntryOk, Justified, AwardIsJustified
<1> QED BY <1>1, HostAlways, PTL

\* However a salary run is cut off and repeated, each superstar's record and
\* its owner's bonus are paid once, when runs do not overlap.
THEOREM StarPaidOnceAlways == Spec => []StarPaidOnce
<1>1. HostInv => StarPaidOnce
  BY DEF HostInv, CalmInv, OnceEach, StarPaidOnce, Overlap
<1> QED BY <1>1, HostAlways, PTL

\* However many recordings overlap, whatever day they fall on and wherever they
\* fail: a week's row never runs ahead of its days, and is their sum when
\* nothing has failed and nothing is under way.
THEOREM WeekIsSumOfDaysAlways == Spec => []WeekIsSumOfDays
<1>1. Init => HostInv /\ WeekInv
  BY HostInit, WeekStarts
<1>2. HostInv /\ WeekInv /\ [Next]_vars => HostInv' /\ WeekInv'
  BY HostStep, WeekStep
<1>3. HostInv /\ WeekInv => WeekIsSumOfDays
  <2> SUFFICES ASSUME HostInv, WeekInv, NEW h \in Hosts, NEW w \in Weeks
               PROVE  /\ week[h][w].income <= IncomeOf(h, w)
                      /\ faults = 0 /\ InFlight = {} => week[h][w].income = IncomeOf(h, w)
    BY DEF WeekIsSumOfDays
  <2>1. WeekOk(h, w) /\ IsFiniteSet(Waiting(h, w)) /\ week[h][w].income \in Nat
    BY DEF WeekInv, WeekOk, Row
  <2>2. ToCome(h, w) \in Nat /\ IncomeOf(h, w) \in Nat
    BY <2>1, SumsAre DEF HostInv
  <2>3. InFlight = {} => ToCome(h, w) = 0
    <3>1. InFlight = {} => Waiting(h, w) = {}
      BY DEF InFlight, Waiting
    <3> QED BY <2>1, <3>1, SumRecursion DEF ToCome
  <2> QED BY <2>1, <2>2, <2>3 DEF WeekOk
<1> QED BY <1>1, <1>2, <1>3, PTL DEF Spec

\* Where a host makes one claim at a time, no step pays it a new-host reward
\* after an ordinary one, wherever midnight falls.
THEOREM NewBeforeOrdinaryAlways == Spec => NewBeforeOrdinary
<1> DEFINE Step == calm => \A a \in awards' \ awards :
                     a.kind = "new" => OfKind("ordinary", a.host) = {}
<1>1. ASSUME HostInv, [Next]_vars
      PROVE  Step
  <2>1. ASSUME NEW c \in Calls, AwardNew(c)
        PROVE  Step
    <3>1. /\ \A a \in awards' \ awards : a.host = call[c].host
          /\ call[c].at = "award" /\ call[c].kind = "new"
      BY <2>1 DEF AwardNew, Award, Host, Kind
    <3>2. calm => MarksHold(call[c])
      BY <1>1 DEF HostInv, CalmInv
    <3> QED BY <3>1, <3>2 DEF MarksHold, Busy, OfKind
  <2>2. ASSUME NEW c \in Calls, AwardDaily(c) \/ AwardOrdinary(c)
        PROVE  Step
    <3>1. ASSUME NEW kind \in {"daily", "ordinary"}, NEW amount, Award(c, kind, amount)
          PROVE  \A a \in awards' \ awards : a.kind # "new"
      BY <3>1 DEF Award
    <3>2. \A a \in awards' \ awards : a.kind # "new"
      BY <2>2, <3>1 DEF AwardDaily, AwardOrdinary
    <3> QED BY <3>2
  <2>3. ASSUME NEW c \in Calls, NEW h \in Hosts, PaySuperstar(c, h)
        PROVE  Step
    <3>1. \A k \in SalaryKinds(h) : Salary(c, h, k).kind # "new"
      BY DEF Salary, SalaryKinds
    <3>2. \A a \in awards' \ awards : a.kind # "new"
      BY <2>3, <3>1 DEF PaySuperstar
    <3> QED BY <3>2
  <2>4. ASSUME UNCHANGED awards
        PROVE  Step
    BY <2>4
  <2>5. \/ UNCHANGED awards \/ \E c \in Calls : AwardNew(c)
        \/ \E c \in Calls : AwardDaily(c) \/ AwardOrdinary(c)
        \/ \E c \in Calls, h \in Hosts : PaySuperstar(c, h)
    BY <1>1 DEF Next, vars, RecordGiftIncome, RecordLiveMinutes, RecordDaily,
       ClaimDailyReward, ClaimNewHostReward, ClaimOrdinaryHostReward, Begin,
       RecordWeekly, FindStat, CreateStat, FindClaim, UpdateHostLevel, BeginSalaries,
       Fail, RegisterSuperstar, UpsertRecord, FailSigning, EnterTotals, Tick
  <2> HIDE DEF Step
  <2> QED BY <2>1, <2>2, <2>3, <2>4, <2>5
<1>2. HostInv /\ [Next]_vars => [Step]_vars
  BY <1>1
<1> HIDE DEF Step
<1>3. Spec => [][Step]_vars
  BY <1>2, HostAlways, PTL DEF Spec
<1> QED BY <1>3 DEF NewBeforeOrdinary, Step
=============================================================================
