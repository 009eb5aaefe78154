------------------------------ MODULE GiftSend ------------------------------
(***************************************************************************)
(* GiftService.sendGift (src/src/modules/gift/gift.service.ts) for one user *)
(* and one gift, while admins change the gift (gift-admin.service.ts).  The *)
(* gift is read through a Redis cache, the client's key is looked up in     *)
(* Redis, the wallet is charged, and then the message, the GiftTransaction  *)
(* row and the key in Redis are written one after the other.                *)
(*                                                                         *)
(* The wallet payment is a single step, as in ChatSend.  The key goes to    *)
(* the wallet as the client wrote it, so a purchase, a conversion or the    *)
(* gift of another user may have used it.                                   *)
(***************************************************************************)
EXTENDS Integers, FiniteSets

CONSTANTS
  Sends,        \* calls of sendGift
  Updates,      \* calls of the admin service
  Keys,         \* the idempotency keys of the sends
  None,
  Prices,       \* coin costs the gift takes
  Coins,        \* the user's coins at the start
  MaxFaults     \* bound on crashes, failures, outages and early expiries

ASSUME NamesAssumption == None \notin Sends /\ Sends \cap Keys = {}
ASSUME NumbersAssumption ==
  /\ Prices \subseteq Nat \ {0} /\ Coins \in Nat
  /\ MaxFaults \in Nat

VARIABLES
  key,         \* the client's key of each send
  foreign,     \* keys of other completed transactions: not a gift of this user
  at,          \* where each send is
  gift,        \* the gifts row: its price and whether it is active
  cached,      \* Redis gift:<id>, at most one copy
  copy,        \* what each send knows of the gift, at most one copy
  updateAt,    \* where each admin call is
  remembered,  \* Redis gift:idempotency:<key>
  coins,
  charged,     \* sends whose payment was booked
  messages,    \* sends whose Message row exists
  records,     \* [send, payer]: GiftTransaction rows and the transaction they
               \* name, a payment of a send or the foreign one of a key
  analytics,   \* the analytics upsert of each send: none, due or counted
  seen,        \* what the gift was since a send began
  redisUp,
  faults

vars == <<key, foreign, at, gift, cached, copy, updateAt, remembered, coins,
          charged, messages, records, analytics, seen, redisUp, faults>>

Gift == [price: Prices, active: BOOLEAN]
Ends == {"done", "refused", "broken", "failed"}
InFlight == {s \in Sends : at[s] \notin {"idle"} \cup Ends}
Goto(s, l) == at' = [at EXCEPT ![s] = l]

Init ==
  /\ key \in [Sends -> Keys]
  /\ foreign = {}
  /\ at = [s \in Sends |-> "idle"]
  /\ gift \in Gift
  /\ cached = {}
  /\ copy = [s \in Sends |-> {}]
  /\ updateAt = [u \in Updates |-> "idle"]
  /\ remembered = {}
  /\ coins = Coins
  /\ charged = {} /\ messages = {} /\ records = {}
  /\ analytics = [s \in Sends |-> "none"]
  /\ seen = [s \in Sends |-> {}]
  /\ redisUp = TRUE
  /\ faults = 0

-----------------------------------------------------------------------------
(* sendGift *)

\* Mutant: the cached copy is as good as the one from the database.
GetCachedWhole(s) ==
  /\ at[s] = "idle"
  /\ seen' = [seen EXCEPT ![s] = {gift}]
  /\ copy' = [copy EXCEPT ![s] = IF redisUp THEN cached ELSE {}]
  /\ Goto(s, IF copy'[s] = {} THEN "load" ELSE "check")
  /\ UNCHANGED <<key, foreign, gift, cached, updateAt, remembered, coins,
                 charged, messages, records, analytics, redisUp, faults>>

\* getGiftById reads the cache first.  JSON.parse gives back the fields of the
\* copy without its methods: an inactive gift is refused by its field, an
\* active one by the missing isCurrentlyAvailable.
GetCached(s) ==
  /\ at[s] = "idle"
  /\ seen' = [seen EXCEPT ![s] = {gift}]
  /\ \/ /\ redisUp /\ \E c \in cached : Goto(s, IF c.active THEN "broken" ELSE "refused")
        /\ UNCHANGED copy
     \/ /\ ~redisUp \/ cached = {}
        /\ Goto(s, "load") /\ UNCHANGED copy
  /\ UNCHANGED <<key, foreign, gift, cached, updateAt, remembered, coins,
                 charged, messages, records, analytics, redisUp, faults>>

Load(s) ==
  /\ at[s] = "load"
  /\ copy' = [copy EXCEPT ![s] = {gift}]
  /\ Goto(s, "store")
  /\ UNCHANGED <<key, foreign, gift, cached, updateAt, remembered, coins,
                 charged, messages, records, analytics, seen, redisUp, faults>>

Store(s) ==
  /\ at[s] = "store"
  /\ cached' = IF redisUp THEN copy[s] ELSE cached
  /\ Goto(s, "check")
  /\ UNCHANGED <<key, foreign, gift, copy, updateAt, remembered, coins,
                 charged, messages, records, analytics, seen, redisUp, faults>>

\* Availability, then the key in Redis.
Check(s) ==
  /\ at[s] = "check"
  /\ Goto(s, IF (\E c \in copy[s] : ~c.active) \/ (redisUp /\ key[s] \in remembered)
             THEN "refused" ELSE "guard")
  /\ UNCHANGED <<key, foreign, gift, cached, copy, updateAt, remembered, coins,
                 charged, messages, records, analytics, seen, redisUp, faults>>

\* checkIdempotency: the completed transaction of the key, whatever its kind
\* and whoever made it.
Payer(s) == {q \in charged : key[q] = key[s]} \cup ({key[s]} \cap foreign)

Guard(s) ==
  /\ at[s] = "guard"
  /\ Goto(s, IF Payer(s) = {} THEN "pay" ELSE "message")
  /\ UNCHANGED <<key, foreign, gift, cached, copy, updateAt, remembered, coins,
                 charged, messages, records, analytics, seen, redisUp, faults>>

Price(s) == (CHOOSE c \in copy[s] : TRUE).price

\* Mutant: the payment's key is not unique.
PayTwice(s) ==
  /\ at[s] = "pay" /\ coins >= Price(s)
  /\ coins' = coins - Price(s)
  /\ charged' = charged \cup {s}
  /\ Goto(s, "message")
  /\ UNCHANGED <<key, foreign, gift, cached, copy, updateAt, remembered,
                 messages, records, analytics, seen, redisUp, faults>>

Pay(s) ==
  /\ at[s] = "pay" /\ Payer(s) = {} /\ coins >= Price(s)
  /\ coins' = coins - Price(s)
  /\ charged' = charged \cup {s}
  /\ Goto(s, "message")
  /\ UNCHANGED <<key, foreign, gift, cached, copy, updateAt, remembered,
                 messages, records, analytics, seen, redisUp, faults>>

PayRefused(s) ==
  /\ at[s] = "pay" /\ (Payer(s) # {} \/ coins < Price(s))
  /\ Goto(s, "failed")
  /\ UNCHANGED <<key, foreign, gift, cached, copy, updateAt, remembered, coins,
                 charged, messages, records, analytics, seen, redisUp, faults>>

CreateMessage(s) ==
  /\ at[s] = "message"
  /\ messages' = messages \cup {s}
  /\ Goto(s, "record")
  /\ UNCHANGED <<key, foreign, gift, cached, copy, updateAt, remembered, coins,
                 charged, records, analytics, seen, redisUp, faults>>

\* Mutant: a GiftTransaction that cannot be made does not matter.
RecordLeniently(s) ==
  /\ at[s] = "record"
  /\ records' = records \cup
       {[send |-> s, payer |-> q] :
          q \in {q \in Payer(s) : \A r \in records : r.payer # q}}
  /\ analytics' = [analytics EXCEPT ![s] = "due"]
  /\ Goto(s, "remember")
  /\ UNCHANGED <<key, foreign, gift, cached, copy, updateAt, remembered, coins,
                 charged, messages, seen, redisUp, faults>>

\* giftTransaction.create: transactionId is unique, a second row is an error.
\* The analytics are updated from here on, and nobody waits for them.
Record(s) ==
  /\ at[s] = "record"
  /\ \E q \in Payer(s) :
       IF \E r \in records : r.payer = q
       THEN Goto(s, "failed") /\ UNCHANGED <<records, analytics>>
       ELSE /\ records' = records \cup {[send |-> s, payer |-> q]}
            /\ analytics' = [analytics EXCEPT ![s] = "due"]
            /\ Goto(s, "remember")
  /\ UNCHANGED <<key, foreign, gift, cached, copy, updateAt, remembered, coins,
                 charged, messages, seen, redisUp, faults>>

\* updateGiftAnalytics; an error of it is only logged.
UpdateGiftAnalytics(s) ==
  /\ analytics[s] = "due"
  /\ \E x \in {"counted", "none"} : analytics' = [analytics EXCEPT ![s] = x]
  /\ UNCHANGED <<key, foreign, at, gift, cached, copy, updateAt, remembered,
                 coins, charged, messages, records, seen, redisUp, faults>>

Remember(s) ==
  /\ at[s] = "remember"
  /\ remembered' = IF redisUp THEN remembered \cup {key[s]} ELSE remembered
  /\ Goto(s, "deliver")
  /\ UNCHANGED <<key, foreign, gift, cached, copy, updateAt, coins, charged,
                 messages, records, analytics, seen, redisUp, faults>>

\* handleSendGift, the only caller: the gift is shown to the room and to its
\* receiver, and acknowledged to the sender.
Deliver(s) ==
  /\ at[s] = "deliver"
  /\ Goto(s, "done")
  /\ UNCHANGED <<key, foreign, gift, cached, copy, updateAt, remembered, coins,
                 charged, messages, records, analytics, seen, redisUp, faults>>

-----------------------------------------------------------------------------
(* Admins *)

\* The row becomes g; every send on its way sees it happen.
WriteGift(u, g, next) ==
  /\ updateAt[u] = "idle" /\ g # gift
  /\ gift' = g
  /\ seen' = [s \in Sends |-> IF s \in InFlight THEN seen[s] \cup {g} ELSE seen[s]]
  /\ updateAt' = [updateAt EXCEPT ![u] = next]
  /\ UNCHANGED <<key, foreign, at, cached, copy, remembered, coins, charged,
                 messages, records, analytics, redisUp, faults>>

UpdateGift(u) == \E g \in Gift : WriteGift(u, g, "invalidate")
DeleteGift(u) == WriteGift(u, [gift EXCEPT !.active = FALSE], "invalidate")

\* Only the catalogues are dropped from the cache.
BulkUpdateGifts(u) == \E g \in Gift : WriteGift(u, g, "done")

Invalidate(u) ==
  /\ updateAt[u] = "invalidate"
  /\ cached' = IF redisUp THEN {} ELSE cached
  /\ updateAt' = [updateAt EXCEPT ![u] = "done"]
  /\ UNCHANGED <<key, foreign, at, gift, copy, remembered, coins, charged,
                 messages, records, analytics, seen, redisUp, faults>>

-----------------------------------------------------------------------------
(* The surroundings *)

\* Another call of the wallet completes a transaction under the key; a gift of
\* another user then makes its own GiftTransaction.
Elsewhere(k) ==
  /\ k \notin foreign /\ \A q \in charged : key[q] # k
  /\ foreign' = foreign \cup {k}
  /\ UNCHANGED <<key, at, gift, cached, copy, updateAt, remembered, coins,
                 charged, messages, records, analytics, seen, redisUp, faults>>

RecordElsewhere(k) ==
  /\ k \in foreign /\ \A r \in records : r.payer # k
  /\ records' = records \cup {[send |-> None, payer |-> k]}
  /\ UNCHANGED <<key, foreign, at, gift, cached, copy, updateAt, remembered,
                 coins, charged, messages, analytics, seen, redisUp, faults>>

Fail(s) ==
  /\ s \in InFlight
  /\ faults < MaxFaults /\ faults' = faults + 1
  /\ Goto(s, "failed")
  /\ UNCHANGED <<key, foreign, gift, cached, copy, updateAt, remembered, coins,
                 charged, messages, records, analytics, seen, redisUp>>

RedisDown ==
  /\ redisUp /\ faults < MaxFaults
  /\ redisUp' = FALSE /\ faults' = faults + 1
  /\ UNCHANGED <<key, foreign, at, gift, cached, copy, updateAt, remembered,
                 coins, charged, messages, records, analytics, seen>>

RedisBack ==
  /\ ~redisUp /\ redisUp' = TRUE
  /\ UNCHANGED <<key, foreign, at, gift, cached, copy, updateAt, remembered,
                 coins, charged, messages, records, analytics, seen, faults>>

\* Five minutes have passed.
CopyExpires ==
  /\ cached # {} /\ cached' = {}
  /\ UNCHANGED <<key, foreign, at, gift, copy, updateAt, remembered, coins,
                 charged, messages, records, analytics, seen, redisUp, faults>>

KeyExpires ==
  /\ remembered # {} /\ remembered' = {}
  /\ faults < MaxFaults /\ faults' = faults + 1
  /\ UNCHANGED <<key, foreign, at, gift, cached, copy, updateAt, coins,
                 charged, messages, records, analytics, seen, redisUp>>

SendStep(s) == \/ GetCached(s) \/ Load(s) \/ Store(s) \/ Check(s) \/ Guard(s)
               \/ Pay(s) \/ PayRefused(s) \/ CreateMessage(s) \/ Record(s)
               \/ Remember(s) \/ Deliver(s) \/ UpdateGiftAnalytics(s)

Next == \/ \E s \in Sends : SendStep(s) \/ Fail(s)
        \/ \E u \in Updates : \/ UpdateGift(u) \/ DeleteGift(u) \/ BulkUpdateGifts(u)
                            \/ Invalidate(u)
        \/ RedisDown \/ RedisBack \/ CopyExpires \/ KeyExpires
        \/ \E k \in Keys : Elsewhere(k) \/ RecordElsewhere(k)

Spec == Init /\ [][Next]_vars

-----------------------------------------------------------------------------
(* Properties *)

\* A key is charged once, wherever Redis is and however sends overlap
\* (gift.service.ts 173-209; GIFT_SYSTEM_README.md 574).
ChargedOnce == \A s, q \in charged : key[s] = key[q] => s = q

\* What was charged is what the gift cost, while it was active, at some moment
\* since the send began: neither the cache nor a concurrent or bulk change of
\* the gift charges an older price (gift.service.ts 92-125, 158-171;
\* gift-admin.service.ts 269-284).
ChargedPriceWasCurrent ==
  \A s \in charged : [price |-> Price(s), active |-> TRUE] \in seen[s]

\* A gift that was shown and acknowledged is complete: its message and its
\* GiftTransaction exist, which names a completed transaction of its key, and
\* no transaction stands for two gifts (gift.service.ts 203-253, chat.gateway.ts
\* 320-386).
ShownIsComplete ==
  /\ \A s \in Sends : at[s] = "done" =>
       s \in messages /\ \E r \in records : r.send = s /\ r.payer \in Payer(s)
  /\ \A r, q \in records : r.payer = q.payer => r = q
=============================================================================
