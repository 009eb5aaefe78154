----------------------------- MODULE ChatProofs -----------------------------
(***************************************************************************)
(* For any number of sends, keys and faults: a key is charged once, nothing *)
(* unpaid is stored, and what is shown and answered is stored.  A client    *)
(* that waits for its answers gets one message per key while the reply is   *)
(* kept.                                                                   *)
(*                                                                         *)
(* Three inductive invariants, one on top of another: what has been paid    *)
(* for (PayInv), what is stored, cached and shown (StoreInv), and what a    *)
(* client that waits can rely on (CalmInv).                                 *)
(***************************************************************************)
EXTENDS ChatSend, TLAPS

Places == {"idle", "check", "price", "guard", "pay", "intimacy", "dedup", "mark",
           "create", "cache", "deliver", "done", "failed"}

\* Where a send is before its payment, and from its payment to its message.
BeforePayment == {"idle", "check", "price", "guard", "pay"}
BeforeMessage == {"intimacy", "dedup", "mark", "create"}

TypeInv ==
  /\ ask \in [Sends -> [from: Senders, key: Keys \cup {NoKey}]]
  /\ at \in [Sends -> Places]
  /\ free \subseteq Sends /\ charged \subseteq Sends /\ messages \subseteq Sends
  /\ payKey \in [Sends -> Keys \cup Sends \cup {None}]
  /\ reply \in [Sends -> Sends \cup {None}]
  /\ cached \in [Ids -> Sends \cup {None}]

\* The wallet holds one payment per key: of a send that has passed the payment.
LedgerInv ==
  /\ \A s \in charged : at[s] \notin BeforePayment
  /\ \A s, q \in charged : From(s) = From(q) /\ payKey[s] = payKey[q] => s = q

\* A send about to pay or that has paid uses the client's key, if there is one.
KeyInv ==
  \A s \in Sends :
    (at[s] \in {"guard", "pay"} \/ s \in charged) /\ Key(s) # NoKey => payKey[s] = Key(s)

\* A send past its payment is free or its key is paid for, and only a send past
\* its payment has a message.
CoveredInv ==
  /\ \A s \in Sends : at[s] \in BeforeMessage \cup {"cache"} => s \in free \/ Paid(s)
  /\ \A s \in messages : at[s] \in {"cache", "deliver", "done", "failed"}
  /\ \A s \in Sends : at[s] = "cache" => s \in messages

PayInv == TypeInv /\ LedgerInv /\ KeyInv /\ CoveredInv /\ NothingUnpaid

\* What Redis remembers for a key is a stored message of that key.
CacheInv ==
  \A i \in Ids : cached[i] # None => cached[i] \in messages /\ Id(cached[i]) = i

\* A send has its answer when it comes to be delivered.
ReplyInv ==
  \A s \in Sends :
    /\ at[s] = "deliver" => reply[s] # None
    /\ reply[s] # None => reply[s] \in messages /\ (reply[s] = s \/ SameId(s, reply[s]))

\* Where nothing has failed, a message not yet shown is on its way.
OnTheWay ==
  faults = 0 => \A s \in messages :
    s \in shown \/ at[s] = "cache" \/ (at[s] = "deliver" /\ reply[s] = s)

StoreInv == PayInv /\ CacheInv /\ ReplyInv /\ shown \subseteq messages /\ faults \in Nat /\ OnTheWay

\* A client that waits has one send in flight.  A message whose reply has not
\* lived its day is the one in the cache, or about to be; a send that goes on
\* has none.
CalmInv ==
  calm =>
    /\ faults = 0 /\ redisUp
    /\ \A s, q \in InFlight : From(s) = From(q) => s = q
    /\ aged \subseteq messages /\ (\A s \in aged : at[s] # "cache")
    /\ \A i \in Ids : cached[i] \notin aged
    /\ \A s \in messages \ aged : Key(s) # NoKey =>
         cached[Id(s)] = IF at[s] = "cache" THEN None ELSE s
    /\ \A s \in InFlight : at[s] \notin {"cache", "deliver"} =>
         \A q \in messages \ aged : ~SameId(s, q)

-----------------------------------------------------------------------------
(* Payments *)

LEMMA InitPay ==
  ASSUME Init
  PROVE  PayInv
<1>1. TypeInv
  BY DEF Init, TypeInv, Places, Ids
<1>2. LedgerInv /\ KeyInv /\ CoveredInv /\ NothingUnpaid
  BY DEF Init, LedgerInv, KeyInv, CoveredInv, NothingUnpaid, BeforeMessage
<1> QED BY <1>1, <1>2 DEF PayInv

\* A step that books no payment and prices no send, and moves one send on.
LEMMA MovePay ==
  ASSUME PayInv, NEW s \in Sends, NEW l \in Places, Goto(s, l),
         UNCHANGED <<ask, free, payKey, charged, messages>>,
         TypeInv',
         l \in BeforePayment => at[s] \in BeforePayment,
         l \in {"guard", "pay"} => at[s] \in {"guard", "pay"},
         l \in BeforeMessage => s \in free \/ Paid(s), l # "cache",
         at[s] \in {"cache", "deliver", "done", "failed"} =>
           l \in {"cache", "deliver", "done", "failed"}
  PROVE  PayInv'
<1>1. /\ \A q \in Sends : at'[q] = IF q = s THEN l ELSE at[q]
      /\ charged \subseteq Sends /\ messages \subseteq Sends
  BY DEF PayInv, TypeInv, Goto
<1>2. \A q \in Sends : (Paid(q)' <=> Paid(q)) /\ Key(q)' = Key(q) /\ From(q)' = From(q)
  BY DEF Paid, From, Key
<1>3. LedgerInv'
  BY <1>1, <1>2 DEF PayInv, LedgerInv
<1>4. KeyInv'
  BY <1>1, <1>2 DEF PayInv, KeyInv
<1>5. CoveredInv' /\ NothingUnpaid'
  BY <1>1, <1>2 DEF PayInv, CoveredInv, NothingUnpaid
<1> QED BY <1>3, <1>4, <1>5 DEF PayInv

\* The price is settled: the send is free, or will pay under its key.
LEMMA PricePay ==
  ASSUME PayInv, NEW s \in Sends, Price(s)
  PROVE  PayInv'
<1>1. TypeInv'
  BY DEF PayInv, TypeInv, Price, Goto, Milliseconds, InFlight, AfterPayment, Places, Key
<1>2. s \notin charged /\ s \notin messages /\ at[s] = "price"
  BY DEF PayInv, LedgerInv, CoveredInv, Price, BeforePayment
<1>3. /\ \A q \in Sends : q # s => at'[q] = at[q] /\ payKey'[q] = payKey[q] /\ (q \in free' <=> q \in free)
      /\ charged' = charged /\ messages' = messages /\ ask' = ask
      /\ charged \subseteq Sends /\ messages \subseteq Sends
  BY DEF PayInv, TypeInv, Price, Goto
<1>4. \A q \in Sends : q # s => (Paid(q)' <=> Paid(q))
  BY <1>2, <1>3 DEF Paid, From
<1>5. \/ at'[s] = "guard" /\ (Key(s) # NoKey => payKey'[s] = Key(s))
      \/ at'[s] \in {"intimacy", "dedup"} /\ s \in free'
  BY DEF PayInv, TypeInv, Price, Goto, AfterPayment
<1>6. LedgerInv'
  BY <1>2, <1>3 DEF PayInv, LedgerInv, From
<1>7. KeyInv'
  BY <1>2, <1>3, <1>5 DEF PayInv, KeyInv, Key
<1>8. CoveredInv' /\ NothingUnpaid'
  BY <1>2, <1>3, <1>4, <1>5 DEF PayInv, CoveredInv, NothingUnpaid, BeforeMessage
<1> QED BY <1>1, <1>6, <1>7, <1>8 DEF PayInv

\* The wallet books a payment only under a key it has not booked.
LEMMA PayPay ==
  ASSUME PayInv, NEW s \in Sends, Pay(s)
  PROVE  PayInv'
<1>1. TypeInv'
  BY DEF PayInv, TypeInv, Pay, Goto, AfterPayment, Places
<1>2. s \notin messages /\ at[s] = "pay" /\ ~Paid(s)
  BY DEF PayInv, CoveredInv, Pay
<1>3. /\ \A q \in Sends : at'[q] = IF q = s THEN AfterPayment(s) ELSE at[q]
      /\ charged' = charged \cup {s} /\ UNCHANGED <<payKey, free, messages, ask>>
      /\ charged \subseteq Sends /\ messages \subseteq Sends
      /\ AfterPayment(s) \in {"intimacy", "dedup"}
  BY DEF PayInv, TypeInv, Pay, Goto, AfterPayment
<1>4. \A q \in Sends : (Paid(q) => Paid(q)') /\ (q = s => Paid(q)')
  BY <1>3 DEF Paid, From
<1>5. LedgerInv'
  BY <1>2, <1>3 DEF PayInv, LedgerInv, Paid, From, BeforePayment
<1>6. KeyInv'
  BY <1>2, <1>3 DEF PayInv, KeyInv, Key
<1>7. CoveredInv' /\ NothingUnpaid'
  BY <1>2, <1>3, <1>4 DEF PayInv, CoveredInv, NothingUnpaid, BeforeMessage
<1> QED BY <1>1, <1>5, <1>6, <1>7 DEF PayInv

LEMMA CreatePay ==
  ASSUME PayInv, NEW s \in Sends, Create(s)
  PROVE  PayInv'
<1>1. TypeInv'
  BY DEF PayInv, TypeInv, Create, Goto, Places
<1>2. /\ \A q \in Sends : at'[q] = IF q = s THEN "cache" ELSE at[q]
      /\ messages' = messages \cup {s} /\ UNCHANGED <<payKey, free, charged, ask>>
      /\ charged \subseteq Sends /\ messages \subseteq Sends /\ at[s] = "create"
  BY DEF PayInv, TypeInv, Create, Goto
<1>3. \A q \in Sends : Paid(q)' <=> Paid(q)
  BY <1>2 DEF Paid, From
<1>4. s \in free \/ Paid(s)
  BY <1>2 DEF PayInv, CoveredInv, BeforeMessage
<1>5. LedgerInv' /\ KeyInv'
  BY <1>2 DEF PayInv, LedgerInv, KeyInv, From, Key, BeforePayment
<1>6. CoveredInv' /\ NothingUnpaid'
  BY <1>2, <1>3, <1>4 DEF PayInv, CoveredInv, NothingUnpaid
<1> QED BY <1>1, <1>5, <1>6 DEF PayInv

\* A step that leaves alone what has been paid for and where the sends are.
LEMMA ElsewherePay ==
  ASSUME PayInv, UNCHANGED <<ask, at, free, payKey, charged, messages, reply>>,
         cached' \in [Ids -> Sends \cup {None}]
  PROVE  PayInv'
BY DEF PayInv, TypeInv, LedgerInv, KeyInv, CoveredInv, NothingUnpaid, Paid, From, Key

LEMMA StepPay ==
  ASSUME PayInv, [Next]_vars, NamesAssumption
  PROVE  PayInv'
<1>0. TypeInv
  BY DEF PayInv
<1>1. ASSUME NEW s \in Sends, Lookup(s)
      PROVE  PayInv'
  <2>1. TypeInv'
    BY <1>1 DEF PayInv, TypeInv, Lookup, Goto, Places, Ids, Id, From, Key
  <2>2. PICK l \in {"deliver", "check"} : Goto(s, l)
    BY <1>1 DEF Lookup
  <2> QED BY <1>1, <2>1, <2>2, MovePay DEF Lookup, BeforePayment, BeforeMessage, Places
<1>2. ASSUME NEW s \in Sends, Check(s)
      PROVE  PayInv'
  <2>1. TypeInv'
    BY <1>2 DEF PayInv, TypeInv, Check, Goto, Places
  <2>2. PICK l \in {"failed", "price"} : Goto(s, l)
    BY <1>2 DEF Check
  <2> QED BY <1>2, <2>1, <2>2, MovePay DEF Check, BeforePayment, BeforeMessage, Places
<1>3. ASSUME NEW s \in Sends, Price(s)
      PROVE  PayInv'
  BY <1>3, PricePay
<1>4. ASSUME NEW s \in Sends, Guard(s)
      PROVE  PayInv'
  <2>1. TypeInv'
    BY <1>4 DEF PayInv, TypeInv, Guard, Goto, Places, AfterPayment
  <2>2. PICK l \in {"intimacy", "dedup", "pay"} :
          Goto(s, l) /\ (l # "pay" => Paid(s))
    BY <1>4 DEF Guard, AfterPayment
  <2> QED BY <1>4, <2>1, <2>2, MovePay DEF Guard, BeforePayment, BeforeMessage, Places
<1>5. ASSUME NEW s \in Sends, Pay(s)
      PROVE  PayInv'
  BY <1>5, PayPay
<1>6. ASSUME NEW s \in Sends, PayRefused(s) \/ Fail(s)
      PROVE  PayInv'
  <2>1. TypeInv'
    BY <1>6 DEF PayInv, TypeInv, PayRefused, Fail, Goto, Places
  <2> QED BY <1>6, <2>1, MovePay DEF PayRefused, Fail, BeforePayment, BeforeMessage, Places
<1>7. ASSUME NEW s \in Sends, RaiseIntimacy(s) \/ Dedup(s) \/ Mark(s)
      PROVE  PayInv'
  <2>1. TypeInv'
    BY <1>7 DEF PayInv, TypeInv, RaiseIntimacy, Dedup, Mark, Goto, Places
  <2>2. PICK l \in {"dedup", "failed", "mark", "create"} : Goto(s, l)
    BY <1>7 DEF RaiseIntimacy, Dedup, Mark
  <2>3. at[s] \in BeforeMessage
    BY <1>7 DEF RaiseIntimacy, Dedup, Mark, BeforeMessage
  <2>4. s \in free \/ Paid(s)
    BY <2>3 DEF PayInv, CoveredInv
  <2>5. UNCHANGED <<ask, free, payKey, charged, messages>>
    BY <1>7 DEF RaiseIntimacy, Dedup, Mark
  <2> QED BY <2>1, <2>2, <2>3, <2>4, <2>5, MovePay DEF BeforePayment, BeforeMessage, Places
<1>8. ASSUME NEW s \in Sends, Create(s)
      PROVE  PayInv'
  BY <1>8, CreatePay
<1>9. ASSUME NEW s \in Sends, Answer(s) \/ Deliver(s)
      PROVE  PayInv'
  <2>1. /\ cached' \in [Ids -> Sends \cup {None}]
        /\ reply' \in [Sends -> Sends \cup {None}]
        /\ at' \in [Sends -> Places]
    <3>1. CASE Answer(s)
      <4>1. cached' = cached \/ cached' = [cached EXCEPT ![Id(s)] = s]
        BY <3>1 DEF Answer
      <4>2. cached' \in [Ids -> Sends \cup {None}]
        BY <1>0, <4>1 DEF TypeInv
      <4> QED BY <1>0, <3>1, <4>2 DEF TypeInv, Answer, Goto, Places
    <3>2. CASE Deliver(s)
      BY <1>0, <3>2 DEF TypeInv, Deliver, Goto, Places
    <3> QED BY <1>9, <3>1, <3>2
  <2>0. TypeInv'
    BY <1>0, <1>9, <2>1 DEF TypeInv, Answer, Deliver
  <2>2. PICK l \in {"deliver", "done"} : Goto(s, l)
    BY <1>9 DEF Answer, Deliver
  <2>3. UNCHANGED <<ask, free, payKey, charged, messages>>
    BY <1>9 DEF Answer, Deliver
  <2> QED BY <2>0, <2>2, <2>3, MovePay DEF BeforePayment, BeforeMessage, Places
<1>10. ASSUME RedisDown \/ RedisBack \/ FollowChanges \/ (\E u \in Senders : WindowEnds(u))
       PROVE  PayInv'
  <2>1. cached' \in [Ids -> Sends \cup {None}]
    BY <1>0, <1>10 DEF TypeInv, RedisDown, RedisBack, FollowChanges, WindowEnds
  <2>2. UNCHANGED <<ask, at, free, payKey, charged, messages, reply>>
    BY <1>10 DEF RedisDown, RedisBack, FollowChanges, WindowEnds
  <2> QED BY <2>1, <2>2, ElsewherePay
<1>11. ASSUME NEW i \in Ids, ReplyExpires(i)
       PROVE  PayInv'
  <2>1. cached' \in [Ids -> Sends \cup {None}]
    BY <1>0, <1>11 DEF TypeInv, ReplyExpires
  <2>2. UNCHANGED <<ask, at, free, payKey, charged, messages, reply>>
    BY <1>11 DEF ReplyExpires
  <2> QED BY <2>1, <2>2, ElsewherePay
<1>12. ASSUME UNCHANGED vars
       PROVE  PayInv'
  BY <1>0, <1>12, ElsewherePay DEF vars, TypeInv
<1> QED
  BY <1>1, <1>2, <1>3, <1>4, <1>5, <1>6, <1>7, <1>8, <1>9, <1>10, <1>11, <1>12
     DEF Next, SendStep

\* What is charged, and under which key, is always as PayInv says (chat.service.ts
\* 314-347).
THEOREM PayAlways == Spec => []PayInv
<1>1. Init => PayInv
  BY InitPay
<1>2. PayInv /\ [Next]_vars => PayInv'
  BY StepPay, NamesAssumption
<1> QED BY <1>1, <1>2, PTL DEF Spec

\* However often a client repeats a send, and whatever fails meanwhile, its key
\* is charged once (processChatPayment and the payment under the key).
THEOREM ChargedOnceAlways == Spec => []ChargedOnce
<1>1. PayInv => ChargedOnce
  BY DEF PayInv, TypeInv, LedgerInv, KeyInv, ChargedOnce, SameId, Id, Key, From
<1> QED BY <1>1, PayAlways, PTL

\* No order of steps stores a message that is neither free nor paid for.
THEOREM NothingUnpaidAlways == Spec => []NothingUnpaid
<1>1. PayInv => NothingUnpaid
  BY DEF PayInv
<1> QED BY <1>1, PayAlways, PTL
-----------------------------------------------------------------------------
(* Messages, the cache and the room *)

LEMMA InitStore ==
  ASSUME Init
  PROVE  StoreInv
<1>1. CacheInv /\ ReplyInv /\ OnTheWay
  BY DEF Init, CacheInv, ReplyInv, OnTheWay
<1> QED BY <1>1, InitPay DEF Init, StoreInv

\* A send that has not reached its message yet moves on.
Quiet(s) ==
  /\ at[s] \in (BeforePayment \ {"idle"}) \cup BeforeMessage
  /\ \E l \in Places \ {"cache", "deliver"} : Goto(s, l)
  /\ UNCHANGED <<ask, messages, reply, cached, aged, shown, redisUp, faults, calm>>

LEMMA QuietSteps ==
  ASSUME TypeInv, NEW s \in Sends,
         \/ Check(s) \/ Price(s) \/ Guard(s) \/ Pay(s) \/ PayRefused(s)
         \/ RaiseIntimacy(s) \/ Dedup(s) \/ Mark(s)
  PROVE  Quiet(s)
<1>1. CASE Check(s) \/ PayRefused(s) \/ RaiseIntimacy(s) \/ Dedup(s) \/ Mark(s)
  <2>1. PICK l \in {"failed", "price", "dedup", "mark", "create"} : Goto(s, l)
    BY <1>1 DEF Check, PayRefused, RaiseIntimacy, Dedup, Mark
  <2>2. at[s] \in (BeforePayment \ {"idle"}) \cup BeforeMessage
    BY <1>1 DEF Check, PayRefused, RaiseIntimacy, Dedup, Mark, BeforePayment, BeforeMessage
  <2>3. UNCHANGED <<ask, messages, reply, cached, aged, shown, redisUp, faults, calm>>
    BY <1>1 DEF Check, PayRefused, RaiseIntimacy, Dedup, Mark
  <2> QED BY <2>1, <2>2, <2>3 DEF Quiet, Places
<1>2. CASE Price(s) \/ Guard(s) \/ Pay(s)
  <2>1. PICK l \in {"intimacy", "dedup", "guard", "pay"} : Goto(s, l)
    BY <1>2 DEF Price, Guard, Pay, AfterPayment
  <2>2. at[s] \in BeforePayment \ {"idle"}
    BY <1>2 DEF Price, Guard, Pay, BeforePayment
  <2>3. UNCHANGED <<ask, messages, reply, cached, aged, shown, redisUp, faults, calm>>
    BY <1>2 DEF Price, Guard, Pay
  <2> QED BY <2>1, <2>2, <2>3 DEF Quiet, Places
<1> QED BY <1>1, <1>2

LEMMA QuietStore ==
  ASSUME StoreInv, PayInv', NEW s \in Sends, Quiet(s)
  PROVE  StoreInv'
<1>1. /\ \A q \in Sends : q # s => at'[q] = at[q]
      /\ at'[s] \notin {"cache", "deliver"}
      /\ UNCHANGED <<ask, messages, reply, cached, shown, faults>>
      /\ messages \subseteq Sends /\ s \notin messages
  BY DEF StoreInv, PayInv, TypeInv, CoveredInv, Quiet, Goto, BeforePayment, BeforeMessage
<1>2. CacheInv'
  BY <1>1 DEF StoreInv, CacheInv, Id, From, Key
<1>3. ReplyInv'
  BY <1>1 DEF StoreInv, ReplyInv, SameId, Id, From, Key
<1>4. OnTheWay'
  BY <1>1 DEF StoreInv, OnTheWay
<1> QED BY <1>1, <1>2, <1>3, <1>4 DEF StoreInv

\* The reply of a key comes from the cache.
LEMMA LookupStore ==
  ASSUME StoreInv, PayInv', NEW s \in Sends, Lookup(s), NamesAssumption
  PROVE  StoreInv'
<1> DEFINE hit == Key(s) # NoKey /\ redisUp /\ cached[Id(s)] # None
<1>1. /\ \A q \in Sends : q # s => at'[q] = at[q] /\ reply'[q] = reply[q]
      /\ at'[s] = (IF hit THEN "deliver" ELSE "check")
      /\ reply'[s] = (IF hit THEN cached[Id(s)] ELSE None)
      /\ UNCHANGED <<ask, messages, cached, shown, faults>>
      /\ messages \subseteq Sends /\ s \notin messages
  BY DEF StoreInv, PayInv, TypeInv, CoveredInv, Lookup, Goto
<1>2. hit => Id(s) \in Ids /\ cached[Id(s)] \in messages /\ SameId(s, cached[Id(s)])
  <2>1. ask[s] \in [from: Senders, key: Keys \cup {NoKey}]
    BY DEF StoreInv, PayInv, TypeInv
  <2>2. Key(s) # NoKey => Id(s) \in Ids
    BY <2>1 DEF Id, Ids, From, Key
  <2> QED BY <2>2 DEF StoreInv, CacheInv, SameId
<1>3. CacheInv'
  BY <1>1 DEF StoreInv, CacheInv, Id, From, Key
<1>4. ReplyInv'
  <2>1. \A q, r \in Sends : SameId(q, r)' <=> SameId(q, r)
    BY <1>1 DEF SameId, Id, From, Key
  <2>2. ASSUME NEW q \in Sends, q # s
        PROVE  /\ at'[q] = "deliver" => reply'[q] # None
               /\ reply'[q] # None => reply'[q] \in messages' /\ (reply'[q] = q \/ SameId(q, reply[q])')
    BY <1>1, <2>1, <2>2 DEF StoreInv, ReplyInv
  <2>3. hit => reply'[s] \in messages' /\ SameId(s, reply[s])'
    BY <1>1, <1>2, <2>1
  <2> HIDE DEF hit
  <2>4. at'[s] = "deliver" => hit
    BY <1>1
  <2>5. reply'[s] # None => hit
    BY <1>1
  <2>6. hit => reply'[s] # None
    BY <1>1, <2>3, NamesAssumption
  <2> QED BY <2>2, <2>3, <2>4, <2>5, <2>6 DEF ReplyInv
<1>5. OnTheWay'
  BY <1>1 DEF StoreInv, OnTheWay
<1> QED BY <1>1, <1>3, <1>4, <1>5 DEF StoreInv

LEMMA CreateStore ==
  ASSUME StoreInv, PayInv', NEW s \in Sends, Create(s)
  PROVE  StoreInv'
<1>1. /\ \A q \in Sends : at'[q] = IF q = s THEN "cache" ELSE at[q]
      /\ messages' = messages \cup {s}
      /\ UNCHANGED <<ask, reply, cached, shown, faults>>
      /\ messages \subseteq Sends
  BY DEF StoreInv, PayInv, TypeInv, Create, Goto
<1>2. CacheInv'
  BY <1>1 DEF StoreInv, CacheInv, Id, From, Key
<1>3. ReplyInv'
  BY <1>1 DEF StoreInv, ReplyInv, SameId, Id, From, Key
<1>4. OnTheWay'
  BY <1>1 DEF StoreInv, OnTheWay, Create
<1> QED BY <1>1, <1>2, <1>3, <1>4 DEF StoreInv

LEMMA AnswerStore ==
  ASSUME StoreInv, PayInv', NEW s \in Sends, Answer(s), NamesAssumption
  PROVE  StoreInv'
<1>1. /\ \A q \in Sends : at'[q] = IF q = s THEN "deliver" ELSE at[q]
      /\ \A q \in Sends : reply'[q] = IF q = s THEN s ELSE reply[q]
      /\ \A i \in Ids : cached'[i] = cached[i] \/ (cached'[i] = s /\ Id(s) = i)
      /\ UNCHANGED <<ask, messages, shown, faults>>
      /\ messages \subseteq Sends
  <2>1. cached' = cached \/ cached' = [cached EXCEPT ![Id(s)] = s]
    BY DEF Answer
  <2>2. \A i \in Ids : cached'[i] = cached[i] \/ (cached'[i] = s /\ Id(s) = i)
    BY <2>1 DEF StoreInv, PayInv, TypeInv
  <2> QED BY <2>2 DEF StoreInv, PayInv, TypeInv, Answer, Goto
<1>2. s \in messages
  <2>1. at[s] = "cache"
    BY DEF Answer
  <2> QED BY <2>1 DEF StoreInv, PayInv, CoveredInv
<1>3. CacheInv'
  BY <1>1, <1>2 DEF StoreInv, CacheInv, Id, From, Key
<1>4. ReplyInv'
  BY <1>1, <1>2, NamesAssumption DEF StoreInv, ReplyInv, SameId, Id, From, Key
<1>5. OnTheWay'
  BY <1>1 DEF StoreInv, OnTheWay, Answer
<1> QED BY <1>1, <1>3, <1>4, <1>5 DEF StoreInv

LEMMA DeliverStore ==
  ASSUME StoreInv, PayInv', NEW s \in Sends, Deliver(s)
  PROVE  StoreInv'
<1>1. /\ \A q \in Sends : at'[q] = IF q = s THEN "done" ELSE at[q]
      /\ shown' = shown \cup {reply[s]}
      /\ UNCHANGED <<ask, messages, reply, cached, faults>>
      /\ messages \subseteq Sends /\ reply[s] \in messages
  BY DEF StoreInv, PayInv, TypeInv, ReplyInv, Deliver, Goto
<1>2. CacheInv'
  BY <1>1 DEF StoreInv, CacheInv, Id, From, Key
<1>3. ReplyInv'
  BY <1>1 DEF StoreInv, ReplyInv, SameId, Id, From, Key
<1>4. OnTheWay'
  BY <1>1 DEF StoreInv, OnTheWay, Deliver
<1> QED BY <1>1, <1>2, <1>3, <1>4 DEF StoreInv

\* A fault: what was on its way may be lost.
LEMMA FaultStore ==
  ASSUME StoreInv, PayInv', UNCHANGED <<ask, messages, reply, shown>>,
         faults' = faults + 1,
         \A q \in Sends : at'[q] \in {at[q], "failed"},
         \A i \in Ids : cached'[i] \in {cached[i], None}
  PROVE  StoreInv'
<1>1. CacheInv' /\ ReplyInv'
  BY DEF StoreInv, CacheInv, ReplyInv, SameId, Id, From, Key
<1>2. faults' \in Nat /\ OnTheWay'
  BY DEF StoreInv, OnTheWay
<1> QED BY <1>1, <1>2 DEF StoreInv

\* A reply may go from the cache.
LEMMA UnchangedStore ==
  ASSUME StoreInv, PayInv', UNCHANGED <<ask, at, messages, reply, shown, faults>>,
         \A i \in Ids : cached'[i] \in {cached[i], None}
  PROVE  StoreInv'
BY DEF StoreInv, CacheInv, ReplyInv, OnTheWay, SameId, Id, From, Key

LEMMA StepStore ==
  ASSUME StoreInv, [Next]_vars, NamesAssumption
  PROVE  StoreInv'
<1>1. PayInv' /\ TypeInv
  BY StepPay DEF StoreInv, PayInv
<1>2. ASSUME NEW s \in Sends, SendStep(s)
      PROVE  StoreInv'
  BY <1>1, <1>2, QuietSteps, QuietStore, LookupStore, CreateStore, AnswerStore,
     DeliverStore DEF SendStep
<1>3. ASSUME NEW s \in Sends, Fail(s)
      PROVE  StoreInv'
  <2>1. /\ \A q \in Sends : at'[q] \in {at[q], "failed"}
        /\ UNCHANGED <<ask, messages, reply, shown, cached>> /\ faults' = faults + 1
    BY <1>1, <1>3 DEF Fail, Goto, TypeInv
  <2> QED BY <1>1, <2>1, FaultStore
<1>4. ASSUME RedisDown
      PROVE  StoreInv'
  <2>1. /\ UNCHANGED <<ask, messages, reply, shown, at>> /\ faults' = faults + 1
        /\ \A i \in Ids : cached'[i] \in {cached[i], None}
    BY <1>4 DEF RedisDown
  <2> QED BY <1>1, <2>1, FaultStore
<1>5. ASSUME RedisBack \/ FollowChanges \/ (\E u \in Senders : WindowEnds(u)) \/ UNCHANGED vars
      PROVE  StoreInv'
  <2>1. UNCHANGED <<ask, at, messages, reply, cached, shown, faults>>
    BY <1>5 DEF RedisBack, FollowChanges, WindowEnds, vars
  <2> QED BY <1>1, <2>1, UnchangedStore
<1>6. ASSUME NEW j \in Ids, ReplyExpires(j)
      PROVE  StoreInv'
  <2>1. UNCHANGED <<ask, at, messages, reply, shown, faults>>
    BY <1>6 DEF ReplyExpires
  <2>2. \A i \in Ids : cached'[i] \in {cached[i], None}
    BY <1>1, <1>6 DEF ReplyExpires, TypeInv
  <2> QED BY <1>1, <2>1, <2>2, UnchangedStore
<1> QED BY <1>2, <1>3, <1>4, <1>5, <1>6 DEF Next

\* What is stored, cached and shown is always as StoreInv says (chat.service.ts
\* 358-424).
THEOREM StoreAlways == Spec => []StoreInv
<1>1. Init => StoreInv
  BY InitStore
<1>2. StoreInv /\ [Next]_vars => StoreInv'
  BY StepStore, NamesAssumption
<1> QED BY <1>1, <1>2, PTL DEF Spec

\* What a sender is answered and the room is shown, from the cache or not, is a
\* stored message of that sender and key; where nothing has failed, everything
\* stored has been shown once the sends are over.
THEOREM ShownIsStoredAlways == Spec => []ShownIsStored
<1>1. StoreInv => ShownIsStored
  <2> SUFFICES ASSUME StoreInv
               PROVE  ShownIsStored
    OBVIOUS
  <2>1. faults = 0 /\ InFlight = {} => messages \subseteq shown
    BY DEF StoreInv, PayInv, TypeInv, OnTheWay, InFlight
  <2> QED BY <2>1 DEF StoreInv, ReplyInv, ShownIsStored
<1> QED BY <1>1, StoreAlways, PTL
-----------------------------------------------------------------------------
(* A client that waits *)

\* A step of one send that leaves the messages and the cache alone.
LEMMA MoveCalm ==
  ASSUME StoreInv, CalmInv, NEW s \in Sends, NEW l \in Places \ {"cache"}, Goto(s, l),
         UNCHANGED <<ask, messages, cached, aged, redisUp, faults, calm>>,
         at[s] # "cache",
         s \in InFlight \/ l \notin {"idle", "done", "failed"} =>
           (calm => \A q \in InFlight : From(q) = From(s) => q = s),
         calm /\ l \notin {"idle", "done", "failed", "deliver"} =>
           \A q \in messages \ aged : ~SameId(s, q)
  PROVE  CalmInv'
<1> SUFFICES ASSUME calm'
             PROVE  CalmInv'
  BY DEF CalmInv
<1>1. /\ calm /\ faults' = 0 /\ redisUp'
      /\ \A q \in Sends : at'[q] = IF q = s THEN l ELSE at[q]
      /\ messages \subseteq Sends /\ aged \subseteq messages
  BY DEF StoreInv, PayInv, TypeInv, CalmInv, Goto
<1>2. \A q, r \in Sends : (SameId(q, r)' <=> SameId(q, r)) /\ Id(q)' = Id(q) /\ From(q)' = From(q)
                          /\ Key(q)' = Key(q)
  BY DEF SameId, Id, From, Key
<1>3. \A q \in Sends : q # s => (q \in InFlight' <=> q \in InFlight)
  BY <1>1 DEF InFlight
<1>4. \A q, r \in InFlight' : From(q)' = From(r)' => q = r
  <2>1. \A q, r \in InFlight : From(q) = From(r) => q = r
    BY <1>1 DEF CalmInv
  <2>2. s \in InFlight' => \A q \in InFlight : From(q) = From(s) => q = s
    BY <1>1 DEF InFlight
  <2>3. InFlight' \subseteq Sends
    BY DEF InFlight
  <2> QED BY <1>2, <1>3, <2>1, <2>2, <2>3
<1>5. \A q \in messages' \ aged' : Key(q)' # NoKey =>
        cached'[Id(q)'] = IF at'[q] = "cache" THEN None ELSE q
  <2>1. \A q \in messages \ aged : Key(q) # NoKey =>
          cached[Id(q)] = IF at[q] = "cache" THEN None ELSE q
    BY <1>1 DEF CalmInv
  <2> QED BY <1>1, <1>2, <2>1
<1>6. \A q \in InFlight' : at'[q] \notin {"cache", "deliver"} =>
        \A r \in messages' \ aged' : ~SameId(q, r)'
  <2>1. \A q \in InFlight : at[q] \notin {"cache", "deliver"} =>
        \A r \in messages \ aged : ~SameId(q, r)
    BY <1>1 DEF CalmInv
  <2>2. InFlight' \subseteq Sends
    BY DEF InFlight
  <2>3. s \in InFlight' => at'[s] \notin {"idle", "done", "failed"}
    BY DEF InFlight
  <2> QED BY <1>1, <1>2, <1>3, <2>1, <2>2, <2>3
<1>7. /\ aged' \subseteq messages' /\ (\A q \in aged' : at'[q] # "cache")
      /\ \A i \in Ids : cached'[i] \notin aged'
  BY <1>1 DEF CalmInv
<1> QED BY <1>1, <1>4, <1>5, <1>6, <1>7 DEF CalmInv

\* A client that waits starts a send when its last one is over, so a message of
\* the key whose reply is kept is in the cache and the send finds it.
LEMMA LookupCalm ==
  ASSUME StoreInv, CalmInv, NEW s \in Sends, Lookup(s), NamesAssumption
  PROVE  CalmInv'
<1>1. calm => \A q \in InFlight : From(q) # From(s)
  BY DEF Lookup
<1>2. PICK l \in {"deliver", "check"} :
        /\ Goto(s, l)
        /\ l = "check" => ~(Key(s) # NoKey /\ redisUp /\ cached[Id(s)] # None)
  BY DEF Lookup
<1>3. ASSUME calm, l = "check", NEW q \in messages \ aged, SameId(s, q)
      PROVE  FALSE
  <2>1. q \in Sends /\ Key(q) # NoKey /\ From(q) = From(s) /\ Id(q) = Id(s)
    BY <1>3 DEF StoreInv, PayInv, TypeInv, SameId, Id
  <2>2. at[q] = "cache" => q \in InFlight
    BY <2>1 DEF InFlight
  <2>3. cached[Id(s)] = q /\ redisUp
    BY <1>1, <1>3, <2>1, <2>2 DEF CalmInv
  <2> QED BY <1>2, <1>3, <2>1, <2>3, NamesAssumption DEF SameId
<1>4. UNCHANGED <<ask, messages, redisUp, faults, calm, cached, aged>> /\ at[s] = "idle"
  BY DEF Lookup
<1>5. calm /\ l = "check" => \A q \in messages \ aged : ~SameId(s, q)
  BY <1>3
<1>6. l \in Places \ {"cache"} /\ at[s] # "cache" /\ s \notin InFlight
  BY <1>4 DEF Places, InFlight
<1> QED BY <1>1, <1>2, <1>4, <1>5, <1>6, MoveCalm

LEMMA QuietCalm ==
  ASSUME StoreInv, CalmInv, NEW s \in Sends, Quiet(s)
  PROVE  CalmInv'
<1>1. PICK l \in Places \ {"cache", "deliver"} : Goto(s, l)
  BY DEF Quiet
<1>2. /\ UNCHANGED <<ask, messages, redisUp, faults, calm, cached, aged>>
      /\ s \in InFlight /\ at[s] \notin {"cache", "deliver"}
  BY DEF Quiet, BeforePayment, BeforeMessage, InFlight
<1> QED BY <1>1, <1>2, MoveCalm DEF CalmInv

\* The send found no kept reply, so its message is the only one of its key.
LEMMA CreateCalm ==
  ASSUME StoreInv, CalmInv, NEW s \in Sends, Create(s)
  PROVE  CalmInv'
<1> SUFFICES ASSUME calm'
             PROVE  CalmInv'
  BY DEF CalmInv
<1>1. /\ calm /\ faults' = 0 /\ redisUp' /\ at[s] = "create"
      /\ \A q \in Sends : at'[q] = IF q = s THEN "cache" ELSE at[q]
      /\ messages \subseteq Sends /\ messages' = messages \cup {s}
      /\ aged \subseteq messages /\ s \notin messages
      /\ UNCHANGED <<ask, cached, aged>>
  BY DEF StoreInv, PayInv, TypeInv, CoveredInv, CalmInv, Goto, Create
<1>2. \A q, r \in Sends : /\ SameId(q, r)' <=> SameId(q, r)
                          /\ SameId(q, r) => SameId(r, q) /\ From(q) = From(r)
                          /\ Id(q)' = Id(q) /\ From(q)' = From(q) /\ Key(q)' = Key(q)
  BY <1>1 DEF SameId, Id, From, Key
<1>3. InFlight' = InFlight /\ s \in InFlight /\ InFlight \subseteq Sends
  BY <1>1 DEF InFlight
<1>4. \A q \in messages \ aged : ~SameId(s, q)
  BY <1>1, <1>3 DEF CalmInv
<1>5. \A q, r \in InFlight : From(q) = From(r) => q = r
  BY <1>1 DEF CalmInv
<1>6. Key(s) # NoKey => cached[Id(s)] = None
  <2> SUFFICES ASSUME Key(s) # NoKey, cached[Id(s)] # None
               PROVE  FALSE
    OBVIOUS
  <2>1. ask[s] \in [from: Senders, key: Keys \cup {NoKey}]
    BY DEF StoreInv, PayInv, TypeInv
  <2>2. Id(s) \in Ids
    BY <2>1 DEF Id, Ids, From, Key
  <2>3. cached[Id(s)] \in messages \ aged /\ Id(cached[Id(s)]) = Id(s)
    BY <1>1, <2>2 DEF StoreInv, CacheInv, CalmInv
  <2> QED BY <1>4, <2>3 DEF SameId
<1>7. \A q \in messages' \ aged' : Key(q)' # NoKey =>
        cached'[Id(q)'] = IF at'[q] = "cache" THEN None ELSE q
  <2>1. \A q \in messages \ aged : Key(q) # NoKey =>
          cached[Id(q)] = IF at[q] = "cache" THEN None ELSE q
    BY <1>1 DEF CalmInv
  <2> QED BY <1>1, <1>2, <1>6, <2>1
<1>8. \A q \in InFlight' : at'[q] \notin {"cache", "deliver"} =>
        \A r \in messages' \ aged' : ~SameId(q, r)'
  <2>1. \A q \in InFlight : at[q] \notin {"cache", "deliver"} =>
          \A r \in messages \ aged : ~SameId(q, r)
    BY <1>1 DEF CalmInv
  <2>2. \A q \in InFlight : q # s => ~SameId(q, s)
    BY <1>2, <1>3, <1>5
  <2> QED BY <1>1, <1>2, <1>3, <2>1, <2>2
<1>9. \A q, r \in InFlight' : From(q)' = From(r)' => q = r
  BY <1>2, <1>3, <1>5
<1>10. /\ aged' \subseteq messages' /\ (\A q \in aged' : at'[q] # "cache")
       /\ \A i \in Ids : cached'[i] \notin aged'
  BY <1>1 DEF CalmInv
<1> QED BY <1>1, <1>7, <1>8, <1>9, <1>10 DEF CalmInv

\* The answer is cached before it is given; where nothing fails Redis is there.
LEMMA AnswerCalm ==
  ASSUME StoreInv, CalmInv, NEW s \in Sends, Answer(s), NamesAssumption
  PROVE  CalmInv'
<1> SUFFICES ASSUME calm'
             PROVE  CalmInv'
  BY DEF CalmInv
<1>1. /\ calm /\ faults' = 0 /\ redisUp' /\ at[s] = "cache"
      /\ \A q \in Sends : at'[q] = IF q = s THEN "deliver" ELSE at[q]
      /\ messages \subseteq Sends /\ s \in messages
      /\ aged \subseteq messages /\ s \notin aged
      /\ UNCHANGED <<ask, messages, aged>>
  BY DEF StoreInv, PayInv, TypeInv, CoveredInv, CalmInv, Goto, Answer
<1>2. \A q, r \in Sends : /\ SameId(q, r)' <=> SameId(q, r)
                          /\ Id(q)' = Id(q) /\ From(q)' = From(q) /\ Key(q)' = Key(q)
  BY <1>1 DEF SameId, Id, From, Key
<1>3. InFlight' = InFlight /\ s \in InFlight /\ InFlight \subseteq Sends
  BY <1>1 DEF InFlight
<1>4. \A q, r \in InFlight : From(q) = From(r) => q = r
  BY <1>1 DEF CalmInv
<1>5. \A q \in Sends : Key(q) # NoKey => Id(q) \in Ids
  <2> SUFFICES ASSUME NEW q \in Sends, Key(q) # NoKey
               PROVE  Id(q) \in Ids
    OBVIOUS
  <2>1. ask[q] \in [from: Senders, key: Keys \cup {NoKey}]
    BY DEF StoreInv, PayInv, TypeInv
  <2> QED BY <2>1 DEF Id, Ids, From, Key
<1>6. \A i \in Ids : cached'[i] = IF Key(s) # NoKey /\ i = Id(s) THEN s ELSE cached[i]
  <2>1. cached' = IF Key(s) # NoKey THEN [cached EXCEPT ![Id(s)] = s] ELSE cached
    BY <1>1 DEF Answer, CalmInv
  <2>2. cached \in [Ids -> Sends \cup {None}]
    BY DEF StoreInv, PayInv, TypeInv
  <2> QED BY <1>5, <2>1, <2>2
<1>7. \A q \in messages' \ aged' : Key(q)' # NoKey =>
        cached'[Id(q)'] = IF at'[q] = "cache" THEN None ELSE q
  <2> SUFFICES ASSUME NEW q \in messages \ aged, Key(q) # NoKey
               PROVE  cached'[Id(q)] = IF at'[q] = "cache" THEN None ELSE q
    BY <1>1, <1>2
  <2>1. cached[Id(q)] = IF at[q] = "cache" THEN None ELSE q
    BY <1>1 DEF CalmInv
  <2>2. Id(q) \in Ids
    BY <1>1, <1>5
  <2>3. CASE q = s
    BY <1>1, <1>6, <2>2, <2>3
  <2>4. CASE q # s /\ Id(q) = Id(s)
    <3>1. From(q) = From(s) /\ Key(q) = Key(s)
      BY <2>4 DEF Id
    <3>2. at[q] # "cache"
      BY <1>1, <1>3, <1>4, <2>4, <3>1 DEF InFlight
    <3>3. cached[Id(s)] = None
      BY <1>1, <3>1 DEF CalmInv
    <3>4. q # None
      BY <1>1, NamesAssumption
    <3> QED BY <2>1, <2>4, <3>2, <3>3, <3>4
  <2>5. CASE Id(q) # Id(s)
    BY <1>1, <1>6, <2>1, <2>2, <2>5
  <2> QED BY <2>3, <2>4, <2>5
<1>8. \A q \in InFlight' : at'[q] \notin {"cache", "deliver"} =>
        \A r \in messages' \ aged' : ~SameId(q, r)'
  <2>1. \A q \in InFlight : at[q] \notin {"cache", "deliver"} =>
          \A r \in messages \ aged : ~SameId(q, r)
    BY <1>1 DEF CalmInv
  <2> QED BY <1>1, <1>2, <1>3, <2>1
<1>9. \A q, r \in InFlight' : From(q)' = From(r)' => q = r
  BY <1>2, <1>3, <1>4
<1>10. /\ aged' \subseteq messages' /\ (\A q \in aged' : at'[q] # "cache")
       /\ \A i \in Ids : cached'[i] \notin aged'
  BY <1>1, <1>6 DEF CalmInv
<1> QED BY <1>1, <1>7, <1>8, <1>9, <1>10 DEF CalmInv

LEMMA DeliverCalm ==
  ASSUME StoreInv, CalmInv, NEW s \in Sends, Deliver(s)
  PROVE  CalmInv'
<1>1. /\ Goto(s, "done") /\ s \in InFlight /\ at[s] = "deliver"
      /\ UNCHANGED <<ask, messages, cached, aged, redisUp, faults, calm>>
  BY DEF Deliver, InFlight
<1> QED BY <1>1, MoveCalm DEF CalmInv, Places

\* A reply that has lived its day takes its message along.
LEMMA ExpireCalm ==
  ASSUME StoreInv, CalmInv, NEW j \in Ids, ReplyExpires(j), NamesAssumption
  PROVE  CalmInv'
<1> SUFFICES ASSUME calm'
             PROVE  CalmInv'
  BY DEF CalmInv
<1>1. /\ calm /\ faults' = 0 /\ redisUp'
      /\ UNCHANGED <<ask, at, messages>> /\ messages \subseteq Sends
      /\ aged \subseteq messages /\ aged' = aged \cup {cached[j]}
      /\ \A i \in Ids : cached'[i] = IF i = j THEN None ELSE cached[i]
  BY DEF StoreInv, PayInv, TypeInv, CalmInv, ReplyExpires
<1>2. \A q, r \in Sends : /\ SameId(q, r)' <=> SameId(q, r)
                          /\ Id(q)' = Id(q) /\ From(q)' = From(q) /\ Key(q)' = Key(q)
  BY <1>1 DEF SameId, Id, From, Key
<1>3. InFlight' = InFlight /\ InFlight \subseteq Sends
  BY <1>1 DEF InFlight
<1>4. /\ cached[j] \in messages \ aged /\ Id(cached[j]) = j /\ cached[j] # None
  BY DEF ReplyExpires, StoreInv, CacheInv, CalmInv
<1>5. at[cached[j]] # "cache"
  <2>1. Key(cached[j]) # NoKey
    BY <1>4, NamesAssumption DEF Ids, Id
  <2> QED BY <1>1, <1>4, <2>1 DEF CalmInv
<1>6. \A i \in Ids : cached'[i] \notin aged'
  <2> SUFFICES ASSUME NEW i \in Ids
               PROVE  cached'[i] \notin aged'
    OBVIOUS
  <2>1. aged' \subseteq Sends
    BY <1>1, <1>4
  <2>2. CASE i = j \/ cached[i] = None
    BY <1>1, <2>1, <2>2, NamesAssumption
  <2>3. CASE i # j /\ cached[i] # None
    <3>1. Id(cached[i]) = i
      BY <2>3 DEF StoreInv, CacheInv
    <3>2. cached[i] \notin aged /\ cached[i] # cached[j]
      BY <1>1, <1>4, <2>3, <3>1 DEF CalmInv
    <3> QED BY <1>1, <2>3, <3>2
  <2> QED BY <2>2, <2>3
<1>7. \A q \in messages' \ aged' : Key(q)' # NoKey =>
        cached'[Id(q)'] = IF at'[q] = "cache" THEN None ELSE q
  <2> SUFFICES ASSUME NEW q \in messages \ aged, q # cached[j], Key(q) # NoKey
               PROVE  cached'[Id(q)] = IF at[q] = "cache" THEN None ELSE q
    BY <1>1, <1>2
  <2>1. cached[Id(q)] = IF at[q] = "cache" THEN None ELSE q
    BY <1>1 DEF CalmInv
  <2>2. ask[q] \in [from: Senders, key: Keys \cup {NoKey}]
    BY <1>1 DEF StoreInv, PayInv, TypeInv
  <2>3. Id(q) \in Ids
    BY <2>2 DEF Id, Ids, From, Key
  <2> QED BY <1>1, <2>1, <2>3
<1>8. \A q \in InFlight' : at'[q] \notin {"cache", "deliver"} =>
        \A r \in messages' \ aged' : ~SameId(q, r)'
  <2>1. \A q \in InFlight : at[q] \notin {"cache", "deliver"} =>
          \A r \in messages \ aged : ~SameId(q, r)
    BY <1>1 DEF CalmInv
  <2> QED BY <1>1, <1>2, <1>3, <2>1
<1>9. \A q, r \in InFlight' : From(q)' = From(r)' => q = r
  <2>1. \A q, r \in InFlight : From(q) = From(r) => q = r
    BY <1>1 DEF CalmInv
  <2> QED BY <1>2, <1>3, <2>1
<1>10. aged' \subseteq messages' /\ (\A q \in aged' : at'[q] # "cache")
  BY <1>1, <1>4, <1>5 DEF CalmInv
<1> QED BY <1>1, <1>6, <1>7, <1>8, <1>9, <1>10 DEF CalmInv

LEMMA StepCalm ==
  ASSUME StoreInv, CalmInv, [Next]_vars, NamesAssumption
  PROVE  CalmInv'
<1>1. TypeInv
  BY DEF StoreInv, PayInv
<1>2. ASSUME NEW s \in Sends, SendStep(s)
      PROVE  CalmInv'
  BY <1>1, <1>2, QuietSteps, QuietCalm, LookupCalm, CreateCalm, AnswerCalm, DeliverCalm
     DEF SendStep
<1>3. ASSUME (\E s \in Sends : Fail(s)) \/ RedisDown
      PROVE  CalmInv'
  BY <1>3 DEF Fail, RedisDown, CalmInv
<1>4. ASSUME RedisBack \/ FollowChanges \/ (\E u \in Senders : WindowEnds(u)) \/ UNCHANGED vars
      PROVE  CalmInv'
  <2>1. /\ UNCHANGED <<ask, at, messages, cached, aged, calm, faults>>
        /\ redisUp => redisUp'
    BY <1>4 DEF RedisBack, FollowChanges, WindowEnds, vars
  <2> QED BY <2>1 DEF CalmInv, InFlight, SameId, Id, From, Key
<1>5. ASSUME NEW i \in Ids, ReplyExpires(i)
      PROVE  CalmInv'
  BY <1>5, ExpireCalm
<1> QED BY <1>2, <1>3, <1>4, <1>5 DEF Next

\* A client that waits for each answer, with nothing failing, finds the answer of
\* a key in Redis for its day, or its message is on the way there
\* (chat.service.ts 149-165, 419-424).
THEOREM CalmAlways == Spec => []CalmInv
<1>1. Init => CalmInv
  <2> SUFFICES ASSUME Init
               PROVE  CalmInv
    OBVIOUS
  <2>1. InFlight = {} /\ messages = {} /\ aged = {}
    BY DEF Init, InFlight
  <2> QED BY <2>1 DEF Init, CalmInv
<1>2. StoreInv /\ CalmInv /\ [Next]_vars => CalmInv'
  BY StepCalm, NamesAssumption
<1> QED BY <1>1, <1>2, StoreAlways, PTL DEF Spec

\* A client that waits for each answer stores a second message of a key only
\* when the reply with the first has lived its day: until then the reply is in
\* Redis before the client hears of it (chat.service.ts 158-165, 419-424).
THEOREM OneMessagePerKeyAlways == Spec => []OneMessagePerKey
<1>1. StoreInv /\ CalmInv => OneMessagePerKey
  <2> SUFFICES ASSUME StoreInv, CalmInv, calm,
                      NEW s \in messages \ aged, NEW q \in messages \ aged, SameId(s, q)
               PROVE  s = q
    BY DEF OneMessagePerKey
  <2>1. s \in Sends /\ q \in Sends
    BY DEF StoreInv, PayInv, TypeInv
  <2>2. Key(s) # NoKey /\ Key(q) # NoKey /\ Id(s) = Id(q) /\ From(s) = From(q)
    BY DEF SameId, Id
  <2>3. s # None /\ q # None
    BY <2>1, NamesAssumption
  <2>4. /\ cached[Id(s)] = IF at[s] = "cache" THEN None ELSE s
        /\ cached[Id(q)] = IF at[q] = "cache" THEN None ELSE q
    BY <2>2 DEF CalmInv
  <2>5. CASE at[s] = "cache" /\ at[q] = "cache"
    <3>1. s \in InFlight /\ q \in InFlight
      BY <2>1, <2>5 DEF InFlight
    <3> QED BY <2>2, <3>1 DEF CalmInv
  <2>6. CASE ~(at[s] = "cache" /\ at[q] = "cache")
    BY <2>2, <2>3, <2>4, <2>6
  <2> QED BY <2>5, <2>6
<1> QED BY <1>1, StoreAlways, CalmAlways, PTL
=============================================================================
