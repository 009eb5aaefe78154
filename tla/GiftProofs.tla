----------------------------- MODULE GiftProofs -----------------------------
(***************************************************************************)
(* For any number of sends, keys, prices, admin calls and faults: a key is  *)
(* charged once, at a price the gift had while it was sent, and a gift that *)
(* is shown is complete.                                                    *)
(*                                                                         *)
(* A send charges from the copy it loaded (CopyInv), and it comes to be     *)
(* shown only by way of its message and its GiftTransaction (RecordInv).    *)
(***************************************************************************)
EXTENDS GiftSend, TLAPS

Places == {"idle", "load", "store", "check", "guard", "pay", "message", "record",
           "remember", "deliver"} \cup Ends

BeforePayment == {"idle", "load", "store", "check", "guard", "pay"}

TypeInv ==
  /\ key \in [Sends -> Keys]
  /\ at \in [Sends -> Places]
  /\ gift \in Gift
  /\ copy \in [Sends -> SUBSET Gift]
  /\ charged \subseteq Sends /\ messages \subseteq Sends
  /\ foreign \subseteq Keys
  /\ records \subseteq [send: Sends \cup {None}, payer: Sends \cup Keys]
  /\ seen \in [Sends -> SUBSET Gift]

\* Sends that have loaded the gift, and those that found it active.
Loaded == {s \in Sends : at[s] \notin {"idle", "load"} \cup Ends} \cup charged
Cleared == {s \in Loaded : at[s] \notin {"store", "check"}}

\* What the gift is now has been seen by every send on its way; what a send has
\* loaded is something it has seen.
CopyInv ==
  /\ \A s \in InFlight : gift \in seen[s]
  /\ \A s \in Loaded : \E g \in Gift :
       /\ copy[s] = {g} /\ g \in seen[s]
       /\ s \in Cleared => g.active

\* A payment is behind the send that made it.
LedgerInv ==
  /\ \A s \in charged : at[s] \notin BeforePayment
  /\ ChargedOnce

\* A GiftTransaction exists for each send past it, and one for each transaction.
RecordInv ==
  /\ \A s \in Sends : at[s] \in {"record", "remember", "deliver", "done"} => s \in messages
  /\ \A s \in Sends : at[s] \in {"remember", "deliver", "done"} =>
       \E r \in records : r.send = s /\ r.payer \in Payer(s)
  /\ \A r, q \in records : r.payer = q.payer => r = q

GiftInv == TypeInv /\ CopyInv /\ LedgerInv /\ RecordInv

-----------------------------------------------------------------------------
LEMMA InitGift ==
  ASSUME Init
  PROVE  GiftInv
<1>1. TypeInv
  BY DEF Init, TypeInv, Places, Gift
<1>2. InFlight = {} /\ Loaded = {}
  BY DEF Init, InFlight, Loaded
<1>3. CopyInv /\ LedgerInv /\ RecordInv
  BY <1>2 DEF Init, CopyInv, LedgerInv, RecordInv, ChargedOnce
<1> QED BY <1>1, <1>3 DEF GiftInv

\* One send moves on and what it knows of the gift stays.
LEMMA MoveCopy ==
  ASSUME GiftInv, NEW s \in Sends, NEW l \in Places, Goto(s, l),
         UNCHANGED <<gift, copy, seen>>,
         charged' = charged \/ (charged' = charged \cup {s} /\ l \notin Ends),
         at[s] \in {"idle"} \cup Ends => l \in Ends,
         s \in charged' \/ l \notin {"idle", "load"} \cup Ends => s \in Loaded,
         s \in Loaded \ Cleared /\ l \notin {"store", "check"} =>
           l \in Ends \/ \A g \in copy[s] : g.active
  PROVE  CopyInv'
<1>1. /\ \A q \in Sends : at'[q] = IF q = s THEN l ELSE at[q]
      /\ charged \subseteq Sends
  BY DEF GiftInv, TypeInv, Goto
<1>2. \A q \in Sends : q \in InFlight' => q \in InFlight
  BY <1>1 DEF InFlight
<1>3. \A q \in InFlight' : gift' \in seen'[q]
  BY <1>2 DEF GiftInv, CopyInv, InFlight
<1>4. s \notin charged \/ at[s] \notin BeforePayment
  BY DEF GiftInv, LedgerInv
<1>5. \A q \in Loaded' : q \in Loaded /\ (q # s => (q \in Cleared' <=> q \in Cleared))
  BY <1>1 DEF Loaded, Cleared
<1>6. s \in Loaded' /\ s \in Cleared' => s \in Cleared \/ \A g \in copy[s] : g.active
  BY <1>1, <1>4 DEF Loaded, Cleared, BeforePayment, Ends
<1> QED BY <1>3, <1>5, <1>6 DEF GiftInv, CopyInv
\* A step that leaves the sends where they are, and what they know.
LEMMA ElsewhereGift ==
  ASSUME GiftInv, UNCHANGED <<key, foreign, at, gift, copy, charged, messages, records, seen>>
  PROVE  GiftInv'
BY DEF GiftInv, TypeInv, CopyInv, LedgerInv, RecordInv, Loaded, Cleared, InFlight,
   ChargedOnce, Payer

\* A send moves on without paying or making a row.
LEMMA MoveRecord ==
  ASSUME GiftInv, NEW s \in Sends, NEW l \in Places, Goto(s, l),
         UNCHANGED <<key, foreign, charged, messages, records>>,
         at[s] \in BeforePayment \/ l \notin BeforePayment,
         l \in {"record", "remember", "deliver", "done"} =>
           at[s] \in {"remember", "deliver"} \/ (l = "record" /\ s \in messages)
  PROVE  LedgerInv' /\ RecordInv'
<1>1. /\ \A q \in Sends : at'[q] = IF q = s THEN l ELSE at[q]
      /\ charged \subseteq Sends
  BY DEF GiftInv, TypeInv, Goto
<1>2. LedgerInv'
  BY <1>1 DEF GiftInv, LedgerInv, ChargedOnce
<1>3. \A q \in Sends : Payer(q)' = Payer(q)
  BY DEF Payer
<1>4. RecordInv'
  BY <1>1, <1>3 DEF GiftInv, RecordInv
<1> QED BY <1>2, <1>4

LEMMA GetCachedGift ==
  ASSUME GiftInv, NEW s \in Sends, GetCached(s)
  PROVE  GiftInv'
<1>1. PICK l \in {"broken", "refused", "load"} : Goto(s, l)
  BY DEF GetCached
<1>2. /\ UNCHANGED <<key, foreign, gift, copy, charged, messages, records>> /\ at[s] = "idle"
      /\ seen' = [seen EXCEPT ![s] = {gift}]
  BY DEF GetCached
<1>3. TypeInv'
  BY <1>1, <1>2 DEF GiftInv, TypeInv, Goto, Places, Ends
<1>4. /\ \A q \in Sends : at'[q] = IF q = s THEN l ELSE at[q]
      /\ \A q \in Sends : seen'[q] = IF q = s THEN {gift} ELSE seen[q]
      /\ charged \subseteq Sends /\ s \notin charged
  BY <1>1, <1>2 DEF GiftInv, TypeInv, Goto, LedgerInv, BeforePayment
<1>5. s \notin Loaded' /\ \A q \in Sends : q # s =>
        (q \in Loaded' <=> q \in Loaded) /\ (q \in Cleared' <=> q \in Cleared)
  BY <1>1, <1>2, <1>4 DEF Loaded, Cleared, Ends
<1>6. Loaded' \subseteq Sends
  BY <1>2, <1>4 DEF Loaded
<1>7. CopyInv'
  BY <1>2, <1>4, <1>5, <1>6 DEF GiftInv, CopyInv, InFlight
<1>8. LedgerInv' /\ RecordInv'
  BY <1>1, <1>2, MoveRecord DEF BeforePayment, Places, Ends
<1> QED BY <1>3, <1>7, <1>8 DEF GiftInv

\* The row the database has is the one the send goes on with.
LEMMA LoadGift ==
  ASSUME GiftInv, NEW s \in Sends, Load(s)
  PROVE  GiftInv'
<1>1. /\ UNCHANGED <<key, foreign, gift, seen, charged, messages, records>> /\ at[s] = "load"
      /\ copy' = [copy EXCEPT ![s] = {gift}] /\ Goto(s, "store")
  BY DEF Load
<1>2. TypeInv'
  BY <1>1 DEF GiftInv, TypeInv, Goto, Places
<1>3. /\ \A q \in Sends : at'[q] = IF q = s THEN "store" ELSE at[q]
      /\ \A q \in Sends : copy'[q] = IF q = s THEN {gift} ELSE copy[q]
      /\ charged \subseteq Sends /\ s \notin charged /\ gift \in Gift
  BY <1>1 DEF GiftInv, TypeInv, Goto, LedgerInv, BeforePayment
<1>4. s \notin Cleared' /\ \A q \in Sends : q # s =>
        (q \in Loaded' <=> q \in Loaded) /\ (q \in Cleared' <=> q \in Cleared)
  BY <1>1, <1>3 DEF Loaded, Cleared
<1>5. Loaded' \subseteq Sends /\ s \in InFlight
  BY <1>1, <1>3 DEF Loaded, InFlight, Ends
<1>6. \A q \in InFlight' : gift' \in seen'[q]
  BY <1>1, <1>3, <1>5 DEF GiftInv, CopyInv, InFlight
<1>7. CopyInv'
  BY <1>1, <1>3, <1>4, <1>5, <1>6 DEF GiftInv, CopyInv
<1>8. LedgerInv' /\ RecordInv'
  BY <1>1, MoveRecord DEF BeforePayment, Places
<1> QED BY <1>2, <1>7, <1>8 DEF GiftInv

\* Steps that only move a send on.
LEMMA MoveGift ==
  ASSUME GiftInv, NEW s \in Sends,
         \/ Store(s) \/ Check(s) \/ Guard(s) \/ PayRefused(s) \/ Remember(s)
         \/ Deliver(s) \/ Fail(s)
  PROVE  GiftInv'
<1>1. UNCHANGED <<key, foreign, gift, copy, charged, messages, records, seen>>
  BY DEF Store, Check, Guard, PayRefused, Remember, Deliver, Fail
<1>2. PICK l \in Places :
        /\ Goto(s, l)
        /\ \/ at[s] = "store" /\ l = "check"
           \/ at[s] = "check" /\ l \in {"refused", "guard"} /\ (l = "guard" => \A g \in copy[s] : g.active)
           \/ at[s] = "guard" /\ l \in {"pay", "message"}
           \/ at[s] = "remember" /\ l = "deliver"
           \/ at[s] = "deliver" /\ l = "done"
           \/ s \in InFlight /\ l = "failed"
  <2>1. CASE Store(s)
    BY <2>1 DEF Store, Places
  <2>2. CASE Check(s)
    <3>1. \A g \in copy[s] : g.active \in BOOLEAN
      BY DEF GiftInv, TypeInv, Gift
    <3> QED BY <2>2, <3>1 DEF Check, Places, Ends
  <2>3. CASE Guard(s)
    BY <2>3 DEF Guard, Places
  <2>4. CASE PayRefused(s) \/ Fail(s)
    BY <2>4 DEF PayRefused, Fail, Places, Ends, InFlight
  <2>5. CASE Remember(s) \/ Deliver(s)
    BY <2>5 DEF Remember, Deliver, Places, Ends
  <2> QED BY <2>1, <2>2, <2>3, <2>4, <2>5
<1>3. TypeInv'
  BY <1>1, <1>2 DEF GiftInv, TypeInv, Goto
<1>4. at[s] \notin {"idle", "load"} \cup Ends /\ l \notin {"failed", "refused", "done"} => s \in Loaded
  BY DEF Loaded
<1>5. /\ at[s] \in {"idle"} \cup Ends => l \in Ends
      /\ s \in charged' \/ l \notin {"idle", "load"} \cup Ends => s \in Loaded
      /\ s \in Loaded \ Cleared /\ l \notin {"store", "check"} =>
           l \in Ends \/ \A g \in copy[s] : g.active
  BY <1>1, <1>2, <1>4 DEF Loaded, Cleared, Ends, InFlight
<1>6. CopyInv'
  BY <1>1, <1>2, <1>5, MoveCopy
<1>7. LedgerInv' /\ RecordInv'
  BY <1>1, <1>2, MoveRecord DEF BeforePayment, InFlight, Ends
<1> QED BY <1>3, <1>6, <1>7 DEF GiftInv

LEMMA PayGift ==
  ASSUME GiftInv, NEW s \in Sends, Pay(s)
  PROVE  GiftInv'
<1>1. /\ UNCHANGED <<key, foreign, gift, copy, messages, records, seen>> /\ at[s] = "pay"
      /\ Goto(s, "message") /\ charged' = charged \cup {s} /\ Payer(s) = {}
  BY DEF Pay
<1>2. TypeInv'
  BY <1>1 DEF GiftInv, TypeInv, Goto, Places
<1>3. CopyInv'
  BY <1>1, MoveCopy DEF Loaded, Cleared, Ends, Places
<1>4. \A q \in Sends : at'[q] = IF q = s THEN "message" ELSE at[q]
  BY <1>1 DEF GiftInv, TypeInv, Goto
<1>5. LedgerInv'
  BY <1>1, <1>4 DEF GiftInv, TypeInv, LedgerInv, ChargedOnce, Payer, BeforePayment
<1>6. \A q \in Sends : Payer(q) \subseteq Payer(q)'
  BY <1>1 DEF Payer
<1>7. RecordInv'
  BY <1>1, <1>4, <1>6 DEF GiftInv, RecordInv
<1> QED BY <1>2, <1>3, <1>5, <1>7 DEF GiftInv

LEMMA CreateMessageGift ==
  ASSUME GiftInv, NEW s \in Sends, CreateMessage(s)
  PROVE  GiftInv'
<1>1. /\ UNCHANGED <<key, foreign, gift, copy, charged, records, seen>> /\ at[s] = "message"
      /\ Goto(s, "record") /\ messages' = messages \cup {s}
  BY DEF CreateMessage
<1>2. TypeInv'
  BY <1>1 DEF GiftInv, TypeInv, Goto, Places
<1>3. CopyInv'
  BY <1>1, MoveCopy DEF Loaded, Cleared, Ends, Places
<1>4. \A q \in Sends : at'[q] = IF q = s THEN "record" ELSE at[q]
  BY <1>1 DEF GiftInv, TypeInv, Goto
<1>5. LedgerInv'
  BY <1>1, <1>4 DEF GiftInv, TypeInv, LedgerInv, ChargedOnce, BeforePayment
<1>6. \A q \in Sends : Payer(q)' = Payer(q)
  BY <1>1 DEF Payer
<1>7. RecordInv'
  BY <1>1, <1>4, <1>6 DEF GiftInv, RecordInv
<1> QED BY <1>2, <1>3, <1>5, <1>7 DEF GiftInv

\* The row names the transaction of the send's key; a second row for it is refused.
LEMMA RecordGift ==
  ASSUME GiftInv, NEW s \in Sends, Record(s)
  PROVE  GiftInv'
<1>1. UNCHANGED <<key, foreign, gift, copy, charged, messages, seen>> /\ at[s] = "record"
  BY DEF Record
<1>2. PICK q \in Payer(s) :
        IF \E r \in records : r.payer = q
        THEN Goto(s, "failed") /\ UNCHANGED records
        ELSE records' = records \cup {[send |-> s, payer |-> q]} /\ Goto(s, "remember")
  BY DEF Record
<1>3. q \in Sends \cup Keys /\ s \in messages
  BY <1>1 DEF Payer, GiftInv, TypeInv, RecordInv
<1>same. \A p \in Sends : Payer(p)' = Payer(p)
  BY <1>1 DEF Payer
<1>4. PICK l \in {"failed", "remember"} : Goto(s, l)
  BY <1>2
<1>5. TypeInv'
  BY <1>1, <1>2, <1>3, <1>4 DEF GiftInv, TypeInv, Goto, Places, Ends
<1>6. CopyInv'
  BY <1>1, <1>4, MoveCopy DEF Loaded, Cleared, Ends, Places
<1>7. \A p \in Sends : at'[p] = IF p = s THEN l ELSE at[p]
  BY <1>4 DEF GiftInv, TypeInv, Goto
<1>8. LedgerInv'
  BY <1>1, <1>4, <1>7 DEF GiftInv, TypeInv, LedgerInv, ChargedOnce, BeforePayment
<1>9. RecordInv'
  <2>1. CASE \E r \in records : r.payer = q
    <3>1. records' = records /\ at'[s] = "failed"
      BY <1>2, <2>1 DEF GiftInv, TypeInv, Goto
    <3> QED BY <1>same, <1>1, <1>7, <3>1 DEF GiftInv, RecordInv
  <2>2. CASE \A r \in records : r.payer # q
    <3> DEFINE row == [send |-> s, payer |-> q]
    <3>1. records' = records \cup {row} /\ row.send = s /\ row.payer = q
      BY <1>2, <2>2
    <3> HIDE DEF row
    <3> QED BY <1>same, <1>1, <1>2, <1>3, <1>7, <2>2, <3>1 DEF GiftInv, RecordInv
  <2> QED BY <2>1, <2>2
<1> QED BY <1>5, <1>6, <1>8, <1>9 DEF GiftInv

\* An admin changes the row; every send on its way sees it.
LEMMA WriteGiftKeeps ==
  ASSUME GiftInv, NEW u \in Updates, NEW g \in Gift, NEW next, WriteGift(u, g, next)
  PROVE  GiftInv'
<1>1. /\ UNCHANGED <<key, foreign, at, copy, charged, messages, records>>
      /\ gift' = g
      /\ seen' = [s \in Sends |-> IF s \in InFlight THEN seen[s] \cup {g} ELSE seen[s]]
  BY DEF WriteGift
<1>2. TypeInv'
  BY <1>1 DEF GiftInv, TypeInv
<1>3. Loaded' = Loaded /\ Cleared' = Cleared /\ InFlight' = InFlight /\ Loaded \subseteq Sends
  BY <1>1 DEF Loaded, Cleared, InFlight, GiftInv, TypeInv
<1>4. CopyInv'
  BY <1>1, <1>3 DEF GiftInv, CopyInv, InFlight
<1>5. LedgerInv' /\ RecordInv'
  BY <1>1 DEF GiftInv, LedgerInv, RecordInv, ChargedOnce, Payer
<1> QED BY <1>2, <1>4, <1>5 DEF GiftInv

\* A transaction completed elsewhere takes no payment away, and its row is the
\* only one that names it.
LEMMA ElsewhereKeeps ==
  ASSUME GiftInv, NEW k \in Keys, Elsewhere(k) \/ RecordElsewhere(k)
  PROVE  GiftInv'
<1> DEFINE row == [send |-> None, payer |-> k]
<1>1. /\ UNCHANGED <<key, at, gift, copy, charged, messages, seen>>
      /\ foreign \subseteq foreign' /\ foreign' \subseteq foreign \cup {k}
      /\ records' = records \/ (records' = records \cup {row} /\ \A r \in records : r.payer # k)
  BY DEF Elsewhere, RecordElsewhere
<1>2. row \in [send: Sends \cup {None}, payer: Sends \cup Keys] /\ row.payer = k
  OBVIOUS
<1> HIDE DEF row
<1>3. TypeInv'
  BY <1>1, <1>2 DEF GiftInv, TypeInv
<1>4. CopyInv' /\ LedgerInv'
  BY <1>1 DEF GiftInv, CopyInv, LedgerInv, ChargedOnce, Loaded, Cleared, InFlight
<1>5. \A q \in Sends : Payer(q) \subseteq Payer(q)'
  BY <1>1 DEF Payer
<1>6. RecordInv'
  BY <1>1, <1>2, <1>5 DEF GiftInv, RecordInv
<1> QED BY <1>3, <1>4, <1>6 DEF GiftInv

LEMMA StepGift ==
  ASSUME GiftInv, [Next]_vars
  PROVE  GiftInv'
<1>1. ASSUME NEW s \in Sends, SendStep(s) \/ Fail(s)
      PROVE  GiftInv'
  <2>1. CASE UpdateGiftAnalytics(s)
    BY <2>1, ElsewhereGift DEF UpdateGiftAnalytics
  <2> QED BY <1>1, <2>1, GetCachedGift, LoadGift, MoveGift, PayGift, CreateMessageGift,
             RecordGift DEF SendStep
<1>2. ASSUME NEW u \in Updates, UpdateGift(u) \/ DeleteGift(u) \/ BulkUpdateGifts(u)
      PROVE  GiftInv'
  <2>1. [gift EXCEPT !.active = FALSE] \in Gift
    BY DEF GiftInv, TypeInv, Gift
  <2> QED BY <1>2, <2>1, WriteGiftKeeps DEF UpdateGift, DeleteGift, BulkUpdateGifts
<1>3. ASSUME \/ \E u \in Updates : Invalidate(u)
             \/ RedisDown \/ RedisBack \/ CopyExpires \/ KeyExpires \/ UNCHANGED vars
      PROVE  GiftInv'
  BY <1>3, ElsewhereGift DEF Invalidate, RedisDown, RedisBack, CopyExpires, KeyExpires, vars
<1>4. ASSUME NEW k \in Keys, Elsewhere(k) \/ RecordElsewhere(k)
      PROVE  GiftInv'
  BY <1>4, ElsewhereKeeps
<1> QED BY <1>1, <1>2, <1>3, <1>4 DEF Next

\* Payments, keys, messages and records are always as GiftInv says (gift.service.ts
\* 149-253).
THEOREM GiftAlways == Spec => []GiftInv
<1>1. Init => GiftInv
  BY InitGift
<1>2. GiftInv /\ [Next]_vars => GiftInv'
  BY StepGift
<1> QED BY <1>1, <1>2, PTL DEF Spec

\* A key is charged once, wherever Redis is and however sends overlap.
THEOREM ChargedOnceAlways == Spec => []ChargedOnce
<1>1. GiftInv => ChargedOnce
  BY DEF GiftInv, LedgerInv
<1> QED BY <1>1, GiftAlways, PTL

\* What was charged is what the gift cost, while it was active, at some moment
\* since the send began, whatever admins and the cache did meanwhile.
THEOREM ChargedPriceWasCurrentAlways == Spec => []ChargedPriceWasCurrent
<1>1. GiftInv => ChargedPriceWasCurrent
  <2> SUFFICES ASSUME GiftInv, NEW s \in charged
               PROVE  [price |-> Price(s), active |-> TRUE] \in seen[s]
    BY DEF ChargedPriceWasCurrent
  <2>1. s \in Cleared /\ s \in Loaded
    BY DEF GiftInv, TypeInv, LedgerInv, Loaded, Cleared, BeforePayment
  <2>2. PICK g \in Gift : copy[s] = {g} /\ g \in seen[s] /\ g.active
    BY <2>1 DEF GiftInv, CopyInv
  <2>3. Price(s) = g.price
    BY <2>2 DEF Price
  <2>4. [price |-> g.price, active |-> TRUE] = g
    BY <2>2 DEF Gift
  <2> QED BY <2>2, <2>3, <2>4
<1> QED BY <1>1, GiftAlways, PTL

\* A gift that was shown and acknowledged has its message and a GiftTransaction
\* of its own, which names a completed transaction of its key.
THEOREM ShownIsCompleteAlways == Spec => []ShownIsComplete
<1>1. GiftInv => ShownIsComplete
  BY DEF GiftInv, RecordInv, ShownIsComplete
<1> QED BY <1>1, GiftAlways, PTL
=============================================================================
