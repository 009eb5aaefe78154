# Takatak backend: a TLA+ verification project

The repository (`src/`) is a NestJS backend for paid chat: users buy coins,
spend them on messages and gifts, hosts earn diamonds and ask for them to be
paid out, agencies earn a commission on their hosts. State lives in PostgreSQL
(through Prisma), caches and rate counters in Redis, and messages go out over
socket.io. This directory models the parts of it where money, ownership or
uniqueness depend on the order of steps of several requests.

Paths below are relative to `src/src/modules/` unless they start with `src/`.

## 1. Inventory

| component | state it keeps | operations | talks to |
| --- | --- | --- | --- |
| wallet (`wallet/`) | `wallets` rows, `transactions` rows | payment, two conversions, withdrawal deduction and refund, recharge, bonuses | agency (inside its transaction), PostgreSQL locks |
| withdrawal (`withdrawal/`) | `withdrawal_requests` | create, approve, reject | wallet |
| chat (`chat/`) | `messages`, `chats`, counters of the chat, Redis reply cache, dedup marks; rooms and `socket:<user>` keys | send, read; gateway: connect, join, leave, send message, send gift, typing | wallet, gifts, fraud, follow, intimacy, Redis |
| gifts (`gift/`) | `gifts`, `gift_transactions`, catalogue and gift caches, analytics | send, list; admin create, update, delete, bulk update | wallet, chat, Redis |
| agency (`agency/`) | `agencies`, `agencyId` of `host_profiles`, `agency_commission_logs` | create under a parent, join, leave, add and remove host, commission, reversal, ban | wallet rows, users, owners' sockets |
| host rewards (`host/`) | `host_profiles`, `host_daily_stats`, reward and salary rows | gift income, live minutes, four rewards, superstar registration and salaries | wallet, gifts (callback after a gift) |
| intimacy (`intimacy/`, `chat/intimacy.service.ts`) | `intimacies`, `relationships`, score cache | track, decay, invite, accept, reject, expire, reactivate | chat, cron, wallet (reactivation fee) |
| referral (`referral/`) | `referrals`, counters | registration reward, first-chat reward | wallet, fraud |
| authentication (`auth/services/`) | `sessions`, `otps`, `devices`, reward records, Redis counters | OTP, email, Google sign-in, token rotation, revocation, signup bonus | Redis, wallet row at registration |
| fraud (`fraud/`) | `fraud_flags`, IP log, Redis counters | rate limit, device checks, flags | chat, referral |
| follow (`follow/`) | `follows` | follow, unfollow | chat (price of a message) |
| vip, users, settings (`vip/`, `users/`, `admin/`) | columns of `users`, `admin_settings` | upgrade, expire; profile updates; settings | wallet, all |
| redis (`src/src/database/redis.service.ts`) | connection | get, set, del, incr: no-ops when disconnected | all caches |
| upload, health, bootstrap | none | pure I/O and wiring | |

What is hard here, and what makes each component correct:

* **Wallet.** Calls on shared rows run concurrently in interactive
  transactions, some SERIALIZABLE and some READ COMMITTED with explicit row
  locks. Locks are taken sender first, so crossing payments deadlock. The
  idempotency guard reads outside the transaction. Correct: no negative
  balance, no lost update, one effect per key, nothing left by a failure, game
  coins spent before gift coins, an immutable ledger, every request answered.
* **Withdrawal.** Creation and each decision are several database calls that
  are not one transaction. Correct: what waits is locked, each row is settled
  once, and admins who overlap settle it no oftener than there are of them.
* **Chat and gift sending.** A paid send is a payment in one transaction and a
  message stored in later calls, with a reply cache in Redis in front that is
  lost, a day old, full or unreachable at any moment. Correct: one charge per key,
  nothing delivered unpaid, an answered send is stored, the price charged was a real
  one, and a repeat within the day stores no second message.
* **Agency commission.** The walk up the tree of agencies writes several rows
  inside a payment; a reversal undoes what it can. Correct: diamonds, counters
  and levels agree with the log, a reversal is whole, each share stays within
  the rates.
* **Host rewards.** A claim reads the day's row, then pays and marks it in a
  transaction of its own; the clock is read three times on the way. Correct: each
  reward of a day once, nothing paid that the day does not justify, a salary run
  can be repeated.
* **Intimacy and relationships.** Two engines write computed scores into one
  row; a cache keeps an old level; invitations, answers and expiry are reads
  followed by writes by id. Correct: no invitation without the level, an answer
  meets the invitation it was given to, one couple per user.
* **Agency membership.** Each call checks a host's agency and writes it in a later
  call, and then tells an owner. Correct: a host enters an agency from none, owners
  see the hosts they have, nobody hosts for an agency of his own.
* **Sessions.** A rotation finds, deletes and issues in three calls that a retry
  or a logout can overlap. Correct: one token of a chain works, a logout is final.
* **Sign-in.** Three services end in one table of users; attempts, codes and
  bonuses are counted in other calls than they are checked. Correct: guesses
  bounded, a code used once, the bonuses of a device limited.
* **Rate limits.** Counters in Redis are read, raised and given an expiry in three
  calls. Correct: the limit holds up to the requests that overlap, and a full
  counter empties again.
* **Referral.** A walk up the referrers, a row, an award and a mark. Correct: a user
  is paid for once, and referrals do not go round in a small circle.

`PROJECT.json` lists every hazard at its line, with the properties aimed at it.

## 2. Modules

| module | models | proofs |
| --- | --- | --- |
| `Money` | the arithmetic of a wallet call: validation, cost, split of coins, conversion, what changes on which row | `WalletProofs` |
| `Bank` | abstract: a call takes effect in one step, once per key, only if affordable | |
| `Wallet` | `WalletService`: requests, transactions, row locks, snapshots, keys, commission, failure log | `WalletProofs` |
| `Withdrawal` | `WithdrawalService` over atomic wallet calls | `WithdrawalProofs` |
| `ChatSend` | `ChatService.sendMessage` with its price, rate limit, payment, storing, reply cache, and the gateway's `handleSendMessage` | `ChatProofs` |
| `GiftSend` | `GiftService.sendGift`, the gift cache, `GiftAdminService`, and the gateway's `handleSendGift` | `GiftProofs` |
| `AgencyCommission` | `processGiftCommission`, `creditCommissionUpward`, `reverseChatPaymentCommission`, bans | `AgencyProofs` |
| `AgencyMembership` | the other half of `AgencyService` over `AgencyCommission` (EXTENDS): who works for whom, and what owners are told | `AgencyProofs` |
| `HostReward` | `HostRewardService`: daily and weekly figures, the three claims, superstars and the salary run | `HostProofs` |
| `Requests` | what the modules below share: requests at places of their handlers, cut off or calm | |
| `Clients` | over `Requests`: a bounded number of requests of users; `Session`, `Referral` and `Intimacy` are built on it | |
| `Intimacy` | `IntimacyEngineService`, the chat's `IntimacyService`, the cached level, the decay | `RequestProofs` |
| `Relationship` | `RelationshipService` and the feature gate, over `Intimacy` (EXTENDS) | `RequestProofs` |
| `Session` | `TokenService`: issue, rotate, revoke; a server may be lost in between | `RequestProofs` |
| `SignIn` | `OtpService`, `EmailAuthService`, `GoogleAuthService`, the signup bonus and the devices, over `Session` (EXTENDS) | `RequestProofs` |
| `RateLimit` | the counters of codes, sign-ins and messages in Redis, against a clock, over `Requests` | `RequestProofs` |
| `Referral` | `processRegistrationReferral` | `RequestProofs` |
| `SumProofs` | lemmas: what a sum over a finite set of records is and how it changes | itself |

`MC<module>.tla` gives an instance its calls and balances; the `.cfg` files choose
sizes. `MCAgency` instantiates `AgencyMembership`, and `AgencyCommission` with it.

**How code and model correspond.** One action is one database or Redis call
with the code around it up to the next `await`; between two of them any other
request may run. A request's place in its handler is a program counter (`pc` or
`at`). Prisma interactive transactions are modelled in `Wallet` alone, statement
by statement; the other modules call the wallet in one step, which
the theorem `Refinement` justifies. An exception ends a request in a
`failed` state; a lost server ends it in `lost` (wallet) or ends it where it
stands. Only state that a property or a guard distinguishes is kept: texts,
wording, pagination and most notifications are left out.

**The gateway.** A send ends in the gateway, its only caller: `Deliver` shows what
the service returned to the room and acknowledges it. What is between the service's
return and that is a point where a send can be cut off.

**Membership and payments.** A membership call sees a payment's transaction as one
moment, because the transaction reads one profile, as it begins.

**`calm`.** Every module of handlers but `Wallet` and `GiftSend` has a variable
`calm`, chosen in `Init` and never changed. In a calm behaviour clients wait for an answer before they repeat a call, admins take turns, the
nightly jobs run alone and, where a module says so, nothing fails (`Session` and `SignIn` lose
requests in calm behaviours too, and `Relationship` loses calls). A property
that the code only has under that care is stated as `calm => ...`; all others
hold with overlapping calls too. One run checks both kinds.

**PostgreSQL.** `Wallet` states what it assumes of it: a row lock is held to the
end of the transaction; a SERIALIZABLE transaction that touches a row changed
since its snapshot is aborted; one transaction of a deadlock is aborted; an
insert of a unique key waits for an open transaction that inserted it and fails if that
commits; so two credits that make one wallet end with one of them failed. The CHECK
constraints of `src/prisma/manual_migrations/` are not assumed. **Redis** may
lose or refuse any single call, as `redis.service.ts` tolerates.

## 3. Runs

| run | question | result |
| --- | --- | --- |
| `wallet` | twelve kinds of call by two concurrent requests on three rows, one fault: balances, keys, ledger, refinement of `Bank` | holds |
| `wallet_live` | crossing payments under fairness: everybody is answered | holds |
| `withdrawal` | whatever happens, a row is settled at most once per admin at work and once more per cut-off, and not REJECTED early; in calm, locked while pending and settled once | holds |
| `withdrawal_retry` | one rejection, one refund, when the method is cut off and repeated | violated (finding) |
| `chat` | overlapping sends, duplicates, crashes, outages: one charge per key, nothing unpaid, what is shown is stored and everything stored is shown where nothing fails; in calm, one message per key for as long as its reply is kept | holds |
| `gift` | overlapping gift sends against an admin's edits and the caches, on keys that another transaction may have used before: what is shown is complete, what is charged was a price of the gift | holds |
| `agency` | payments, bans, withdrawals, reversals and rollbacks on a tree of three agencies, while a host joins, leaves, is added, is removed or makes a fourth | holds |
| `host_reward` | claims, gifts, live time, superstars who register in two steps, salary runs and midnight overlap | holds |
| `relationship` | invitations, answers, reactivations, both score engines, nightly jobs and the stale cache on one pair | holds |
| `sign_in` | a phone, an email and two Google accounts on one device, with rotations, logouts and lost servers | holds |
| `rate_limit` | codes under two keys, sign-ins under one, messages by the script; time passes, requests are cut off, Redis goes away or loses the script's reply | holds |
| `referral` | four users name each other by two requests, are deleted, are cut off | holds |

Each passing property is paired in `PROJECT.json` with a mutant of the code that
breaks it; the mutated operators stand beside the originals.

**Bounds.** Every race found needs two requests on one row or key; the runs have
two or three, so that a third party (an admin, a duplicate, a cache load) can
come in between. Balances are a few coins, just enough that two requests cannot
both be afforded and that a split of game and gift coins happens. `MaxFaults`,
`MaxBans` and `MaxAborts` bound failures; with one or two of them every single
point of failure of a handler is explored, alone or with its retry. Amounts of
25 and 100 diamonds are the smallest on which the rounding of commission shows.
`HostReward` runs over two dates from the afternoon of the first, with a Sunday
and a Monday, so that midnight and the start of a week can fall into any call;
its window for new hosts is one day long, and one registration of a superstar is on its
way at a time (`MaxSigning`). `Relationship` starts with or without
an expired relationship, so that `MaxAsks` = 3 calls (two at a time) reach every
status. `sign_in` has three tokens, so that a chain is rotated twice, two codes per
phone with two attempts each, and one bonus per device, so that a second user of the
device is one too many (with a lost request it is not: that `BonusPerDevice` allows just
one more is left to the proof); `MaxAsks` = 5 covers two sign-ins, a rotation and a logout
besides. `rate_limit` counts in ticks, with windows of one to three of them; its
limits of 3 and 4 are above what one fault makes two requests lose. `referral` walks
three rows where the code walks ten (`MaxDepth`); with four users a circle just
longer than the walk exists. `agency` lets two membership calls (`MaxAsks`) meet two
gifts. Requests are
interchangeable (symmetry); users, agencies and keys are only permuted where the
instance treats them alike. The runs that end when every request is done turn
the deadlock check off: a finite client population stops. `Wallet` and
`Withdrawal` keep it on, with an explicit step when all have ended, so that a
stuck lock or handler is an error.

**Fairness.** `Wallet!FairSpec` has weak fairness of every request's own steps:
Node runs every ready continuation, PostgreSQL grants a free lock and breaks
deadlocks (`deadlock_timeout`). `RateSpec` of `RateLimit` has weak fairness of the clock, by
which Redis expires keys, and of the steps of every request the server has.
Timeouts, crashes, reconnections and clients are not fair in either.
`FullCounterEmpties` is about behaviours that are not calm: a calm request stops the
clock, which is a device of the model and not a claim about time.

## 4. Proofs

Every safety property of the runs, invariant or action property, is stated by a theorem
for every value of the constants, and so is the refinement of `Bank`. `PROJECT.json`
lists them. The runs came first, and TLC checked most of the inductive invariants named
here on a run's instance before they were proved.

**Wallet** (`WalletProofs`). `NoOverdraft` is not inductive: the committed balance is only
safe because the open transaction that will change it holds the row. `IInv` adds: a row is
locked by an open transaction only (`LockInv`), an open transaction has touched only rows
it locked and an ended one none (`DeltaInv`), what is pending keeps the row's balance
non-negative (`Solvent`), and a request past its insert holds its key alone (`KeyInv`).
`RInv` adds that an admitted call is valid (`ValidInv`) and that pending work is exactly
the base change of the call on the balance locked, plus commission (`WorkInv`); with it
`Commit` maps to `Bank!Post` and every other step to a stutter (`Refinement`).
`MoneyIsExplained` sums the committed entries of a user and keeps the sum equal to the
balance, row by row. The arithmetic under it: spending what is affordable leaves nothing
negative, the split of coins adds up, conversion yields whole units.

**Withdrawal** (`WithdrawalProofs`). `RejectedMeansRefunded` and `SettlementsBounded` hold
whatever happens: `Safe` adds that a decision under way names a row, and that one about to
write REJECTED has paid its refund (`RefundedBefore`); `Settling` counts the decisions that have
read a row as PENDING and were not cut off: they are no more than admins at work at a time,
because none joins them once the row is decided, and the refunds are no more than those of
them that have paid, and the faults. `LockedWhilePending` and `SettledOnce` hold
in calm behaviours: `Careful` adds that at most one decision is under way, on a row that
is PENDING (`OneAtATime`, from the cardinality guard and the finiteness of `Decisions`),
that every attempt's key is its own (`OwnKey`: without it a used key skips the deduction of
another attempt), that the deduction comes before the row (`Progress`), and that refunds
count exactly the rows that are rejected or about to be (`RefundInv`).

**Chat** (`ChatProofs`). Three invariants, one on top of another. `PayInv`: a send past its
payment has its key charged, by one send only, or had nothing to pay. `StoreInv`: what the
reply cache and the room hold is a row of the database. `CalmInv`: while sends wait for each
other and nothing fails, a key's message is in the cache or about to be, unless its reply
has lived its day (`aged`), and a send of that key that is still on its way to a message
finds there is none yet but aged ones.

**Gifts** (`GiftProofs`). What a send has loaded is one of the states of the gift it has
seen since it came, the cached copy among them, and an active one once it has been checked
(`CopyInv`); a payment is behind the send that made it (`LedgerInv`); a send past its
message has one, and one past its record has a `GiftTransaction` that names a transaction
with its key, which no other names (`RecordInv`).

**Agencies** (`AgencyProofs`). `AgencyInv` has two halves. `MoneyInv` is about the books: the
tree has no circle (`TreeInv`, from `TreesAssumption` and because an agency is created
under one that is there and never moved), no log gives more than its rates say, alone or
with the log next to it (`BooksInv`), the open payment has no log yet at the agency it is at
nor above it, and pays below at no more than each agency's rate (`PayInv`), and of the
payment being reversed what is no longer left is reversed (`ReverseInv`). The books as the
open transaction found them satisfy the same, because a rollback brings them back.
`JobInv` is about the membership calls: what each knows at its place (`PlacesInv`) and,
while calls wait for each other, that what it has checked still holds and that the owners'
lists are the profiles but for what the call is about to tell (`CalmInv`). `SumsInv` has
the sums of the logs: a new log adds its share to its agency's sum and nothing to another's.

**Host rewards** (`HostProofs`). `HostInv`: a claim under way has read no more than its row
holds now, because the figures of a day only grow; the marks of a day and of a month are
never taken back; and the claims of one host are apart, so that what a claim has read of
the marks still holds when it pays. `WeekInv`: a week's income, and what the calls under
way have yet to enter in it, is the sum of its days, and no more than it after a fault.

**Requests** (`RequestProofs`) has the services whose models are built on `Requests`, each
with a theorem about its own specification. The models share users, requests and bounds
only, and a leaf cites the assumptions of the service it is about.
* Sessions: `TokenInv` adds to the two properties that a rotation about to issue holds its
  chain alone: no token of it works, it has not been ended, and no other rotation is about
  to issue into it (`HandOver`); the delete by id hands this over from the token to the
  rotation. Of sign-in it needs only that nothing else writes sessions.
* Sign-in: `TryInv` says that the attempts at a code, and the requests that have read its
  counter and not yet raised it, are together fewer than the limit and the number of
  requests: a request begins to try below the limit, and counting moves it from the second
  number to the first. `SoloInv` says for calm behaviours what the one request under way
  has read and not yet written: the code it is trying is open, and every bonus is recorded,
  or about to be, or was paid by a request that was lost (`Forgotten`, of which there are
  no more than faults); so what it has counted is short of the bonuses by those only.
* Referral: `PayInv` adds that a request that has made a row holds its user alone, that the
  row names its referrer, and that what has been paid is what the request's place says.
  `CircleInv` relates the walk up the referrers before and after a row is added. The
  walk is a recursive function, `Climb`; what is proved of it is proved from its equation,
  by induction on a set of numbers.
* Rate limits: `RateInv` says what a counter knows of the requests that were counted below
  the limit: the script's, of those since its window began; a counter of codes or sign-ins, of all
  that came within the window, as long as somebody who raised it also renews its time
  to live.
* Relationships: `ShapeInv` has the types, and which fields a call at its place has filled.
  `EarnInv`: whatever speaks of a level that takes a relationship, a row, a cached copy of its
  level or a call that has read either, speaks of a pair that has had that level. So it
  does not matter how old the copy is. `CalmInv`: calls under way are of different users or
  a nightly job alone, and the invitation an answer is given to is the pending one still.

**Sums and induction.** The library's induction theorems take an operator and cannot be used
here; an induction is written over the set of numbers for which the statement holds
(`SumProofs`, `Climb`). `SumFunctionOnSet` of `Functions` is a CHOOSE: `SumExists` and
`SumUnique` show that it is the sum.

**Assumed.** The `ASSUME`s of the modules, all evaluated by TLC, and what the model assumes
of PostgreSQL. Those that say more than a type: the tiers' minima and rates rise
(`agency-tiers.constant.ts`, and `TiersAssumption` of `HostReward` likewise for targets); an
agency is made under one that is there, so nobody is above himself (`TreesAssumption`); a
level of score 0 is in both tables of levels, which are finite (`LevelsAssumption`); a pair
has two users (`PairsAssumption`); a kind of request shares no counter with another
(`KeysAssumption` of `RateLimit`); hosts have registered by the end of the run
(`NumbersAssumption` of `HostReward`); the set of overlapping requests is finite.

**Only model-checked.** `EveryRequestEnds` and `FullCounterEmpties`: liveness under fairness,
which is out of the prover's reach. `withdrawal_retry`, because what it checks is false.

## 5. What the models showed beyond the runs

One disagreement between the code and its documents is a run of its own
(`withdrawal_retry`, and `findings` in `PROJECT.json`). These were met as well; they
are the reason for a `calm =>`, or follow from the models at once:

* A gift that comes from the cache is a plain object without its methods, so that a
  send fails with a TypeError at `isCurrentlyAvailable` for as long as the copy is
  there (`gift/gift.service.ts` 99, 162): `GetCached` ends in `broken`.
* The superstar target is compared with figures of the month's row that nothing
  updates, so that a run never finds it met unless they are set by hand
  (`host/host-reward.service.ts` 603).
* A reactivated relationship is not checked against the one-couple rule
  (`intimacy/relationship.service.ts` 297).
* A send repeated with its key a day later finds the payment and no reply: it stores a
  second message, paid once (`chat.service.ts` 158-165, 419-424). That is why
  `OneMessagePerKey` speaks of messages whose reply has not lived its day.
* A gift sent with a client key under which any other transaction has completed, a
  recharge, a conversion or another user's gift, counts as paid and is shown for
  nothing: `checkIdempotency` looks at the raw key alone (`wallet.service.ts` 44-61).
  `GiftSend` has such keys (`foreign`); `ShownIsComplete` promises a transaction of the
  key, which need not be a payment of this gift.
* Two overlapping sends of one key both store a message, paid once; the second
  sender of a key gets an error where the guard meets an open transaction, not the
  first one's result (`chat.service.ts`, `wallet.service.ts` 243-249).
* Keys made from a host and a millisecond coincide within one millisecond
  (`withdrawal.service.ts` 60, `chat.service.ts`): one deduction serves two rows.
* An approval and a rejection that overlap both go through: APPROVED and refunded
  (`withdrawal.service.ts` 157-216).
* A server lost between payment and `GiftTransaction` or withdrawal row leaves a
  charge without its record; nothing repairs it.
* `0.12 - 0.08` is less than `0.04` in doubles: a parent at 12% over a child at 8%
  or 4% gets a diamond less on every multiple of 25 (`agency.service.ts` 547).
* An agency that is passed over does not count the gift, so its tier lags behind
  the income below it (`agency.service.ts` 530).
* Two rewards that overlap on one user without a wallet: the second one's
  create fails on the unique user and the reward with it (`wallet.service.ts` 879-886).
* A superstar registration writes the profile and then the record: a server lost in
  between leaves a tag without a record, for which no salary is paid
  (`host/host-reward.service.ts`).
* Two claims of a host that overlap are both paid (`host-reward.service.ts`
  213-262). The seven days of the new-host reward touch eight dates, and on the
  last one the ordinary reward can be claimed too.
* A message writes the chat engine's score, capped at 100, into the row of the
  intimacy engine, whose relationship level starts at 12,000: one message takes a
  pair below every gated feature (`chat/intimacy.service.ts` 89-98).
* The decay deletes a cache key nobody reads (`intimacy/intimacy.service.ts` 359).
* `hostLevel` is written after a reward is paid, from the income read before it: a
  gift in between leaves an old level until the next one (`host-reward.service.ts` 276).
* A join that overlaps `createAgency` makes the owner a host of the new agency; the
  theorem about that is of calls that wait for each other (`agency.service.ts` 74).
* Two joins of a host that overlap both succeed; the later one stays and both owners
  have been told of a new host (`agency/agency.service.ts` 278-303).
* A message or gift that is stored and whose send is cut off before the broadcast is
  shown to nobody until the chat is read anew; a repeat of a gift is refused instead
  (`chat/chat.gateway.ts` 212, `gift/gift.service.ts` 174).
* A disconnect deletes `socket:<user>` although a newer connection has written it;
  events of the intimacy gateway then reach nobody (`chat/chat.gateway.ts` 127,
  `intimacy/intimacy.gateway.ts` 104).
* README.md:52 says refresh tokens are blacklisted in Redis on use. The code deletes
  the session row; `OneLiveToken` shows that this serves.
* A Google sign-in whose email belongs to a user without a verified email always
  fails on the unique email, where the comment says "create separate account"
  (`auth/services/google-auth.service.ts` 118).
* Signing in by code or Google does not look whether the user is deleted; a password
  and a rotation do.
* Overlapping sign-ups of a device give it more bonuses than the limit, and so does every
  server lost between the user's row and `recordReward`, by one
  (`anti-abuse.service.ts` 28).
* A reply of the rate-limit script that is lost refuses the message, although it has been
  counted and others get through without Redis (`fraud.service.ts` 44-57).
* The time to live of the counters for codes and sign-ins is renewed by every request
  that is counted; when as many requests as the limit are cut off between INCR and
  EXPIRE, the counter stays full for good (`otp.service.ts` 254-255). The script of the
  message limit has neither trait.
* A server lost between the referral's row and the award leaves it unpaid, and a retry
  finds the row; circles longer than the walk of ten rows are not found, and two users
  who name each other at the same time make one of two (`referral/referral.service.ts`).
* Written and never called: `processFirstChatReferral`, `cleanupExpiredSessions`,
  `revokeAllSessions`, `checkMultiAccountByDevice`, `detectSelfChat`, `logIpActivity`,
  `upgradeVip`, `expireVipStatuses`; nothing else ends a VIP status in time.
* The limit of best friends is checked for the inviter when an invitation is sent
  and not when it is accepted; two accepted at once escape the couple rule too;
  two reactivations of one relationship are both charged (`relationship.service.ts`).

## 6. Not modelled

Pure I/O, formatting and wiring (upload, health, bootstrap, DTOs, swagger), and
reads that change nothing (dashboards, histories, lists, gift analytics).
`auth/auth.service.ts` is provided by no module. Settings read from `admin_settings`
are constants of a run. Of the gateway, connections, rooms, the presence key and
typing are left out: they decide who is reached, and no document promises who is. The
phone's provider row, `isBlocked` and the IP rows decide nothing. VIP is a discount that
`ChatSend` takes as an input; its writers have no caller. `PROJECT.json` says for each
component what is missing.

## 7. Plan

The operations where order matters are modelled, and their safety is proved. What is left:

1. The rest of the chain of abstraction: that `Withdrawal` implements a specification of
   a payout that is locked, decided and settled in one step each, and that a gift send
   implements one that is charged, recorded and shown.
2. Properties for the hazards in `PROJECT.json` that have none yet: the lost update
   between the two score engines, a second couple after a reactivation, `hostLevel`.
3. Presence of sockets as a module of its own, once something depends on it.
