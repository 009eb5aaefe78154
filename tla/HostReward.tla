----------------------------- MODULE HostReward -----------------------------
(***************************************************************************)
(* HostRewardService (src/src/modules/host/host-reward.service.ts): what a  *)
(* host earned and how long a host was live is added up per day and week;   *)
(* hosts claim rewards of the day; once a month superstars get a salary.    *)
(* A claim looks at the day's row first and pays in a transaction of its    *)
(* own later; calls overlap, and midnight may fall between two steps.       *)
(*                                                                         *)
(* Time counts in half days.  Nothing in src/ ends a live session, sets a   *)
(* host's gender or writes the totals of a superstar's month: the first is  *)
(* a call from outside, the second a constant, the last done by hand.       *)
(***************************************************************************)
EXTENDS Integers, Sequences, FiniteSetsExt, Functions

CONSTANTS
  Calls,         \* calls of the service's methods
  Nobody,        \* the host of a call not made yet
  Hosts,
  Women,         \* hosts whose gender is F
  Banned,        \* hosts whose profile is banned
  InAgency,      \* hosts that belong to an agency
  Tiers,         \* HOST_SALARY_TIERS: seq of [target, bonus], targets increasing
  RequiredHours, \* hours of live time every reward asks for
  EligibleDays,  \* NEW_FEMALE_HOST_REWARD.eligibleDays
  NewReward,     \* NEW_FEMALE_HOST_REWARD.dailyDiamonds
  OrdinaryReward,\* ORDINARY_FEMALE_HOST_REWARD.dailyDiamonds
  StarTiers,     \* SUPERSTAR_TIERS: seq of [target, hours], a tag is an index
  Gifts,         \* diamonds of a gift
  FirstWeekday,  \* getUTCDay() of day 0
  RegisteredAt,  \* when the hosts registered
  LastTick,      \* bound on time
  ByHand,        \* does anybody enter the totals of a superstar's month
  MaxSigning,    \* bound on registrations under way at a time
  MaxFaults      \* bound on failed calls

ASSUME HostsAssumption ==
  Women \subseteq Hosts /\ Banned \subseteq Hosts /\ InAgency \subseteq Hosts
  /\ Nobody \notin Hosts
ASSUME TiersAssumption ==
  /\ Tiers \in Seq([target: Nat, bonus: Nat]) /\ Tiers # <<>>
  /\ \A i, j \in DOMAIN Tiers : i < j => Tiers[i].target < Tiers[j].target
ASSUME NumbersAssumption ==
  /\ {RequiredHours, EligibleDays, NewReward, OrdinaryReward, RegisteredAt,
      LastTick, MaxSigning, MaxFaults} \subseteq Nat
  /\ StarTiers \in Seq([target: Nat, hours: Nat]) /\ Gifts \subseteq Nat \ {0}
  /\ RegisteredAt <= LastTick /\ FirstWeekday \in 0..6 /\ ByHand \in BOOLEAN

VARIABLES
  now,      \* half days since the first midnight
  stat,     \* HostDailyStat of each host and day
  week,     \* HostWeeklyStat of each host and Monday
  tagged,   \* superstarTag of the hosts' profiles, 0 for none
  star,     \* each host's SuperstarRecord of the month
  signing,  \* [host, tag]: registrations between the profile and the record
  level,    \* hostLevel: an index of Tiers, 0 for NONE
  awards,   \* what was paid: one entry per committed transaction
  call,     \* each call: where it is, its kind, its host, what it has read
  faults,
  calm      \* nobody claims twice at a time and salary runs do not overlap

vars == <<now, stat, week, tagged, star, signing, level, awards, call, faults,
          calm>>

DayOf(tick) == tick \div 2
Days  == 0..DayOf(LastTick)
Today == DayOf(now)

ClaimKinds == {"daily", "new", "ordinary"}
Kinds == ClaimKinds \cup {"income", "salary", "none"}

NoStat == [there |-> FALSE, income |-> 0, hours |-> 0, daily |-> FALSE, new |-> FALSE]
NoStar == [there |-> FALSE, tag |-> 0, diamonds |-> 0, hours |-> 0, paid |-> FALSE]
NoCall == [at |-> "idle", kind |-> "none", host |-> Nobody, date |-> 0, day |-> 0,
           income |-> 0, hours |-> 0, due |-> {}]

\* getWeekStart: the Monday of the week.
WeekdayOf(d) == (d + FirstWeekday) % 7
\* Mutant: Sunday starts the next week.
WeekStartSunday(d) == d - WeekdayOf(d) + 1
WeekStart(d) == d - WeekdayOf(d) + (IF WeekdayOf(d) = 0 THEN -6 ELSE 1)
Weeks == {WeekStart(d) : d \in Days}

-----------------------------------------------------------------------------
(* What a day is worth *)

\* getHostSalaryTier: the highest tier whose targets are met, 0 for none.
\* Mutant: the tier above the one reached.
SalaryTierNext(income, hours) ==
  IF hours < RequiredHours THEN 0
  ELSE Cardinality({i \in DOMAIN Tiers : i = 1 \/ Tiers[i - 1].target <= income})
SalaryTier(income, hours) ==
  IF hours < RequiredHours THEN 0
  ELSE Cardinality({i \in DOMAIN Tiers : Tiers[i].target <= income})

\* updateHostLevel looks at the income alone.
LevelFor(income) == Cardinality({i \in DOMAIN Tiers : Tiers[i].target <= income})

\* Whole days since the host registered, from the clock.
DaysSince == (now - RegisteredAt) \div 2
IsNew == DaysSince < EligibleDays
\* Mutant: the last day of the window counts as after it.
IsOrdinaryEarly == DaysSince >= EligibleDays - 1
IsOrdinary == DaysSince >= EligibleDays

-----------------------------------------------------------------------------
(* Calls *)

Kind(c) == call[c].kind
Host(c) == call[c].host
InFlight == {c \in Calls : call[c].at \notin {"idle", "ended"}}

\* A call goes on at l; one that has ended is forgotten.
Goto(c, l) == call' = [call EXCEPT ![c] = IF l = "ended" THEN [NoCall EXCEPT !.at = l]
                                          ELSE [@ EXCEPT !.at = l]]

Init ==
  /\ now = RegisteredAt
  /\ \E s \in [Hosts -> {NoStat} \cup
         {[there |-> TRUE, income |-> Tiers[i].target, hours |-> RequiredHours,
           daily |-> FALSE, new |-> FALSE] : i \in DOMAIN Tiers}] :
       stat = [h \in Hosts |-> [d \in Days |-> IF d = Today THEN s[h] ELSE NoStat]]
  /\ week = [h \in Hosts |-> [w \in Weeks |->
               IF w = WeekStart(Today)
               THEN [income |-> stat[h][Today].income, hours |-> stat[h][Today].hours]
               ELSE [income |-> 0, hours |-> 0]]]
  /\ tagged = [h \in Hosts |-> 0]
  /\ star = [h \in Hosts |-> NoStar]
  /\ signing = {}
  /\ level = [h \in Hosts |-> 0]
  /\ awards = {}
  /\ call = [c \in Calls |-> NoCall]
  /\ faults = 0
  /\ calm \in BOOLEAN

\* recordGiftIncome and recordLiveMinutes: first the day's row ...
RecordDaily(c, h, income, hours) ==
  /\ call[c].at = "idle"
  /\ stat' = [stat EXCEPT ![h][Today] =
       [there |-> TRUE, income |-> @.income + income, hours |-> @.hours + hours,
        daily |-> @.daily, new |-> @.new]]
  /\ call' = [call EXCEPT ![c] =
       [at |-> "weekly", kind |-> "income", host |-> h, date |-> 0, day |-> Today,
        income |-> income, hours |-> hours, due |-> {}]]
  /\ UNCHANGED <<now, week, tagged, star, signing, level, awards, faults, calm>>

RecordGiftIncome(c, h)  == \E g \in Gifts : RecordDaily(c, h, g, 0)
RecordLiveMinutes(c, h) == RecordDaily(c, h, 0, RequiredHours)

\* ... then the week's, of the same date.
RecordWeekly(c) ==
  /\ call[c].at = "weekly"
  /\ week' = [week EXCEPT ![Host(c)][WeekStart(call[c].day)] =
       [income |-> @.income + call[c].income, hours |-> @.hours + call[c].hours]]
  /\ Goto(c, "ended")
  /\ UNCHANGED <<now, stat, tagged, star, signing, level, awards, faults, calm>>

-----------------------------------------------------------------------------
(* claimDailyReward, claimNewHostReward, claimOrdinaryHostReward *)

\* The profile is read, then the clock.
Begin(c, kind, h, eligible) ==
  /\ call[c].at = "idle"
  /\ calm => \A q \in InFlight : Kind(q) \notin ClaimKinds \/ Host(q) # h
  /\ call' = [call EXCEPT ![c] =
       IF eligible
       THEN [at |-> "stat", kind |-> kind, host |-> h, date |-> Today, day |-> 0,
             income |-> 0, hours |-> 0, due |-> {}]
       ELSE [NoCall EXCEPT !.at = "ended"]]
  /\ UNCHANGED <<now, stat, week, tagged, star, signing, level, awards, faults,
                 calm>>

ClaimDailyReward(c, h) == Begin(c, "daily", h, h \notin Banned)
ClaimNewHostReward(c, h) ==
  Begin(c, "new", h, h \notin Banned /\ h \in Women /\ IsNew)
ClaimOrdinaryHostReward(c, h) ==
  Begin(c, "ordinary", h, h \notin Banned /\ h \in Women /\ IsOrdinary)

\* Does the row s of the day let the claim go on?
WorthDaily(s) == ~s.daily /\ SalaryTier(s.income, s.hours) > 0
WorthNew(s)   == ~s.new /\ s.hours >= RequiredHours
WorthOrdinary(s) == s.income < Tiers[1].target /\ s.hours >= RequiredHours
\* Mutant: the marks of the day are not looked at.
WorthUnmarked(kind, s) ==
  CASE kind = "daily" -> SalaryTier(s.income, s.hours) > 0
    [] kind = "new"   -> s.hours >= RequiredHours
    [] OTHER          -> WorthOrdinary(s)
Worth(kind, s) == CASE kind = "daily" -> WorthDaily(s)
                    [] kind = "new"   -> WorthNew(s)
                    [] OTHER          -> WorthOrdinary(s)

\* getOrCreateDailyStat reads the clock again.
FindStat(c) ==
  LET s == stat[Host(c)][Today] IN
  /\ call[c].at = "stat"
  /\ \/ /\ s.there /\ ~Worth(Kind(c), s)
        /\ Goto(c, "ended")
     \/ /\ s.there => Worth(Kind(c), s)
        /\ call' = [call EXCEPT ![c] =
             [at |-> IF ~s.there THEN "create"
                     ELSE IF @.kind = "ordinary" THEN "find" ELSE "award",
              kind |-> @.kind, host |-> @.host, date |-> @.date, day |-> Today,
              income |-> s.income, hours |-> s.hours, due |-> {}]]
  /\ UNCHANGED <<now, stat, week, tagged, star, signing, level, awards, faults,
                 calm>>

\* An empty row is worth nothing; a row made meanwhile is an error.
CreateStat(c) ==
  /\ call[c].at = "create"
  /\ stat' = [stat EXCEPT ![Host(c)][call[c].day].there = TRUE]
  /\ Goto(c, "ended")
  /\ UNCHANGED <<now, week, tagged, star, signing, level, awards, faults, calm>>

\* The ordinary reward has no mark: its claim of the date is looked for.
FindClaim(c) ==
  /\ call[c].at = "find"
  /\ Goto(c, IF \E a \in awards : a.kind = "ordinary" /\ a.host = Host(c)
                                  /\ a.date = call[c].date
             THEN "ended" ELSE "award")
  /\ UNCHANGED <<now, stat, week, tagged, star, signing, level, awards, faults,
                 calm>>

\* One transaction: the wallet, the Transaction, the mark, the claim.
Award(c, kind, amount) ==
  /\ call[c].at = "award" /\ Kind(c) = kind
  /\ awards' = awards \cup {[call |-> c, kind |-> kind, host |-> Host(c),
       date |-> call[c].date, day |-> call[c].day, amount |-> amount]}
  /\ UNCHANGED <<now, week, tagged, star, signing, level, faults, calm>>

AwardDaily(c) ==
  /\ Award(c, "daily", Tiers[SalaryTier(call[c].income, call[c].hours)].bonus)
  /\ stat' = [stat EXCEPT ![Host(c)][call[c].day].daily = TRUE]
  /\ Goto(c, "level")
AwardNew(c) ==
  /\ Award(c, "new", NewReward)
  /\ stat' = [stat EXCEPT ![Host(c)][call[c].day].new = TRUE]
  /\ Goto(c, "ended")
AwardOrdinary(c) ==
  Award(c, "ordinary", OrdinaryReward) /\ UNCHANGED stat /\ Goto(c, "ended")

UpdateHostLevel(c) ==
  /\ call[c].at = "level"
  /\ level' = [level EXCEPT ![Host(c)] = LevelFor(call[c].income)]
  /\ Goto(c, "ended")
  /\ UNCHANGED <<now, stat, week, tagged, star, signing, awards, faults, calm>>

-----------------------------------------------------------------------------
(* Superstars *)

\* The profile gets the tag ...
RegisterSuperstar(h, tag) ==
  /\ Cardinality(signing) < MaxSigning
  /\ [host |-> h, tag |-> tag] \notin signing
  /\ tagged' = [tagged EXCEPT ![h] = tag]
  /\ signing' = signing \cup {[host |-> h, tag |-> tag]}
  /\ UNCHANGED <<now, stat, week, star, level, awards, call, faults, calm>>

\* ... then the month's record, new or old; what was reached and paid stays.
\* Its diamondTarget and timeTargetHours are those of the tag.
UpsertRecord(r) ==
  /\ r \in signing
  /\ star' = [star EXCEPT ![r.host] =
       [there |-> TRUE, tag |-> r.tag, diamonds |-> @.diamonds, hours |-> @.hours,
        paid |-> @.paid]]
  /\ signing' = signing \ {r}
  /\ UNCHANGED <<now, stat, week, tagged, level, awards, call, faults, calm>>

MonthOf(h) == [diamonds |-> MapThenSumSet(LAMBDA d : stat[h][d].income, Days),
               hours    |-> MapThenSumSet(LAMBDA d : stat[h][d].hours, Days)]

\* Somebody enters what the superstar reached.
EnterTotals(h) ==
  /\ ByHand /\ star[h].there
  /\ star' = [star EXCEPT ![h] =
       [there |-> @.there, tag |-> @.tag, diamonds |-> MonthOf(h).diamonds,
        hours |-> MonthOf(h).hours, paid |-> @.paid]]
  /\ star' # star
  /\ UNCHANGED <<now, stat, week, tagged, signing, level, awards, call, faults,
                 calm>>

\* The higher tags ask for no hours.
TargetMet(s) ==
  LET tier == StarTiers[s.tag] IN
  s.diamonds >= tier.target /\ (tier.hours = 0 \/ s.hours >= tier.hours)

\* processSuperstarSalaries: the unpaid records are read at once; those whose
\* target is not met are left alone.
BeginSalaries(c) ==
  /\ call[c].at = "idle"
  /\ calm => \A q \in InFlight : Kind(q) # "salary"
  /\ LET due == {h \in Hosts : star[h].there /\ ~star[h].paid /\ TargetMet(star[h])} IN
     call' = [call EXCEPT ![c] =
       IF due = {} THEN [NoCall EXCEPT !.at = "ended"]
       ELSE [at |-> "pay", kind |-> "salary", host |-> Nobody, date |-> 0, day |-> 0,
             income |-> 0, hours |-> 0, due |-> due]]
  /\ UNCHANGED <<now, stat, week, tagged, star, signing, level, awards, faults,
                 calm>>

\* The host's salary and the bonus of the agency's owner.  What the tag is
\* worth does not matter here.
SalaryKinds(h) == {"salary"} \cup IF h \in InAgency THEN {"agency"} ELSE {}
Salary(c, h, kind) ==
  [call |-> c, kind |-> kind, host |-> h, date |-> 0, day |-> 0, amount |-> 0]

\* Mutant: the record is not marked.
PayWithoutMark(c, h) ==
  /\ call[c].at = "pay" /\ h \in call[c].due
  /\ awards' = awards \cup {Salary(c, h, k) : k \in SalaryKinds(h)}
  /\ call' = [call EXCEPT ![c] =
       IF call[c].due = {h} THEN [NoCall EXCEPT !.at = "ended"]
       ELSE [@ EXCEPT !.due = call[c].due \ {h}]]
  /\ UNCHANGED <<now, stat, week, tagged, star, signing, level, faults, calm>>

\* One transaction per record: the salary, the mark, the owner's bonus.
PaySuperstar(c, h) ==
  /\ call[c].at = "pay" /\ h \in call[c].due
  /\ awards' = awards \cup {Salary(c, h, k) : k \in SalaryKinds(h)}
  /\ star' = [star EXCEPT ![h].paid = TRUE]
  /\ call' = [call EXCEPT ![c] =
       IF call[c].due = {h} THEN [NoCall EXCEPT !.at = "ended"]
       ELSE [@ EXCEPT !.due = call[c].due \ {h}]]
  /\ UNCHANGED <<now, stat, week, tagged, signing, level, faults, calm>>

-----------------------------------------------------------------------------
(* The surroundings *)

Tick ==
  /\ now < LastTick /\ now' = now + 1
  /\ UNCHANGED <<stat, week, tagged, star, signing, level, awards, call, faults,
                 calm>>

\* A database call fails or the server dies: the call stops where it is.
Fail(c) ==
  /\ c \in InFlight
  /\ faults < MaxFaults /\ faults' = faults + 1
  /\ Goto(c, "ended")
  /\ UNCHANGED <<now, stat, week, tagged, star, signing, level, awards, calm>>

\* Or a registration does, when the profile is written and the record is not.
FailSigning(r) ==
  /\ r \in signing
  /\ faults < MaxFaults /\ faults' = faults + 1
  /\ signing' = signing \ {r}
  /\ UNCHANGED <<now, stat, week, tagged, star, level, awards, call, calm>>

Next ==
  \/ \E c \in Calls, h \in Hosts :
       \/ RecordGiftIncome(c, h) \/ RecordLiveMinutes(c, h) \/ PaySuperstar(c, h)
       \/ ClaimDailyReward(c, h) \/ ClaimNewHostReward(c, h)
       \/ ClaimOrdinaryHostReward(c, h)
  \/ \E c \in Calls :
       \/ RecordWeekly(c) \/ FindStat(c) \/ CreateStat(c) \/ FindClaim(c)
       \/ AwardDaily(c) \/ AwardNew(c) \/ AwardOrdinary(c) \/ UpdateHostLevel(c)
       \/ BeginSalaries(c) \/ Fail(c)
  \/ \E h \in Hosts, tag \in DOMAIN StarTiers : RegisterSuperstar(h, tag)
  \/ \E r \in signing : UpsertRecord(r) \/ FailSigning(r)
  \/ \E h \in Hosts : EnterTotals(h)
  \/ Tick

Spec == Init /\ [][Next]_vars

-----------------------------------------------------------------------------
(* Properties *)

OfKind(kind, h) == {a \in awards : a.kind = kind /\ a.host = h}
Overlap(a, b) == a # b /\ a.kind = b.kind /\ a.host = b.host

\* A host that makes one claim at a time has each reward of a day once, also
\* when claims fail and are repeated and when midnight falls into one
\* (host-reward.service.ts 211-262, 329-377, 445-484).
OncePerDay ==
  calm => \A a, b \in awards : Overlap(a, b) =>
    /\ a.kind \in {"daily", "new"} => a.day # b.day
    /\ a.kind = "ordinary" => a.date # b.date

\* What was paid is justified by the row of the day it was paid for, whatever
\* is recorded meanwhile (host-reward.service.ts 215-228, 336-341, 438-444).
AwardIsJustified ==
  \A a \in awards : a.kind \in ClaimKinds =>
    LET s == stat[a.host][a.day] IN
    /\ s.hours >= RequiredHours
    /\ a.kind = "daily" =>
         \E i \in DOMAIN Tiers : Tiers[i].bonus = a.amount /\ Tiers[i].target <= s.income

\* The week's row never runs ahead of its days, and is their sum when nothing
\* failed and nothing is under way (host-reward.service.ts 96-186, 911-918).
DaysOf(w) == {d \in Days : w <= d /\ d < w + 7}
IncomeOf(h, w) == SumFunctionOnSet([d \in DaysOf(w) |-> stat[h][d].income], DaysOf(w))
WeekIsSumOfDays ==
  \A h \in Hosts, w \in Weeks :
    /\ week[h][w].income <= IncomeOf(h, w)
    /\ faults = 0 /\ InFlight = {} => week[h][w].income = IncomeOf(h, w)

\* The two rewards for women follow each other for a host that makes one claim
\* at a time: after the first ordinary reward there is no new-host reward any
\* more, although the two windows are checked by two methods
\* (host-reward.service.ts 321-327, 420-426).
NewBeforeOrdinary ==
  [][calm => \A a \in awards' \ awards :
       a.kind = "new" => OfKind("ordinary", a.host) = {}]_vars

\* A salary run that is cut off can be repeated, and a host can be registered
\* anew in between: where runs do not overlap each record is paid once, and its
\* owner's bonus with it (host-reward.service.ts 529-556, 577-676).
StarPaidOnce ==
  calm => \A a, b \in awards : a.kind \in {"salary", "agency"} => ~Overlap(a, b)
=============================================================================
