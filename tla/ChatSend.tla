------------------------------ MODULE ChatSend ------------------------------
(***************************************************************************)
(* ChatService.sendMessage (src/src/modules/chat/chat.service.ts) in one    *)
(* chat: look the client's key up in Redis, check the sender, price the     *)
(* message, pay for it in the wallet, store it, cache the reply; then        *)
(* handleSendMessage (chat.gateway.ts), the only caller, shows it to the    *)
(* chat's room and acknowledges it.  Redis and PostgreSQL are written one   *)
(* after the other, Redis may be away, and a client that hears nothing      *)
(* sends again with the same key.                                           *)
(*                                                                         *)
(* The wallet payment is a single step: WalletProofs proves that it         *)
(* takes effect in one step or not at all, once per key.                    *)
(***************************************************************************)
EXTENDS Integers, FiniteSets

CONSTANTS
  Sends,        \* calls of sendMessage
  Senders,      \* the two participants
  Hosts,        \* the participants whose role is HOST
  SameDevice,   \* do the two participants share a device fingerprint
  Keys, NoKey,  \* client idempotency keys, and none
  None,         \* no send
  Cost,         \* what a charged message costs, after the VIP discount
  Coins,        \* subset of [Senders -> Nat]: coins at the start
  RateLimit,    \* messages per minute
  MaxFaults     \* bound on crashes, failures and Redis outages

ASSUME SendersAssumption == Hosts \subseteq Senders /\ SameDevice \in BOOLEAN
ASSUME NamesAssumption == NoKey \notin Keys /\ None \notin Sends
ASSUME NumbersAssumption ==
  /\ Cost \in Nat \ {0} /\ Coins \subseteq [Senders -> Nat]
  /\ RateLimit \in Nat \ {0} /\ MaxFaults \in Nat

VARIABLES
  ask,       \* who sends, and with which key
  at,        \* where each send is
  flagged,   \* sends that left a FraudFlag row
  raised,    \* sends that updated the pair's Intimacy row
  free,      \* sends priced at nothing
  payKey,    \* the payment's key: a client key, or a millisecond
  ms,        \* the millisecond of the dedup guard
  coins,     \* wallet coins of the senders
  charged,   \* sends whose payment was booked
  messages,  \* sends whose Message row exists
  reply,     \* the message a send was answered with
  shown,     \* messages broadcast to the room
  cached,    \* Redis chat-msg:<sender>:<chat>:<key>
  aged,      \* messages whose cached reply has lived its day (86400 s)
  marks,     \* Redis msg:<sender>:<chat>:<ms>
  rate,      \* Redis rate:msg:<sender>
  mutual,    \* do the participants follow each other
  redisUp,
  faults,
  calm       \* the client waits for an answer before it sends again and
             \* nothing fails; never changes

vars == <<ask, flagged, raised, at, free, payKey, ms, coins, charged, messages,
          reply, cached, aged, marks, rate, mutual, redisUp, faults, shown, calm>>

Ids == Senders \X Keys
From(s) == ask[s].from
Key(s)  == ask[s].key
Id(s)   == <<From(s), Key(s)>>

InFlight == {s \in Sends : at[s] \notin {"idle", "done", "failed"}}
Goto(s, l) == at' = [at EXCEPT ![s] = l]

\* Date.now(), named by the first send that read it; only sends that overlap
\* can read the same.
Milliseconds(s, read) ==
  {s} \cup {read[q] : q \in {q \in InFlight : From(q) = From(s) /\ read[q] \in Sends}}

Init ==
  /\ ask \in [Sends -> [from: Senders, key: Keys \cup {NoKey}]]
  /\ at = [s \in Sends |-> "idle"]
  /\ flagged = {} /\ raised = {}
  /\ free = {}
  /\ payKey = [s \in Sends |-> None]
  /\ ms = [s \in Sends |-> None]
  /\ coins \in Coins
  /\ charged = {}
  /\ messages = {}
  /\ reply = [s \in Sends |-> None]
  /\ shown = {}
  /\ cached = [i \in Ids |-> None]
  /\ aged = {}
  /\ marks = {}
  /\ rate = [u \in Senders |-> 0]
  /\ mutual \in BOOLEAN
  /\ redisUp = TRUE
  /\ faults = 0
  /\ calm \in BOOLEAN

-----------------------------------------------------------------------------
(* sendMessage *)

\* The early lookup: a cached reply is returned as it is.
Lookup(s) ==
  /\ at[s] = "idle"
  /\ calm => \A q \in InFlight : From(q) # From(s)
  /\ LET hit == Key(s) # NoKey /\ redisUp /\ cached[Id(s)] # None IN
     /\ reply' = [reply EXCEPT ![s] = IF hit THEN cached[Id(s)] ELSE None]
     /\ Goto(s, IF hit THEN "deliver" ELSE "check")
  /\ UNCHANGED <<ask, flagged, raised, free, payKey, ms, coins, charged,
                 messages, cached, aged, marks, rate, mutual, redisUp, faults, shown, calm>>

\* checkMessageRateLimit: INCR, and one minute from the first message on.
Counted(u) == [rate EXCEPT ![u] = @ + 1]
RateExceeded(u) == redisUp /\ Counted(u)[u] > RateLimit

\* Shared devices are refused; then the message is counted against the rate
\* limit, unless Redis is away.  Either refusal leaves a FraudFlag row.
Check(s) ==
  LET refused == SameDevice \/ RateExceeded(From(s)) IN
  /\ at[s] = "check"
  /\ rate' = IF redisUp /\ ~SameDevice THEN Counted(From(s)) ELSE rate
  /\ flagged' = IF refused THEN flagged \cup {s} ELSE flagged
  /\ Goto(s, IF refused THEN "failed" ELSE "price")
  /\ UNCHANGED <<ask, raised, free, payKey, ms, coins, charged, messages,
                 reply, cached, aged, marks, mutual, redisUp, faults, shown, calm>>

\* Messages of a user to a host change the pair's intimacy.
ToHost(s) == From(s) \notin Hosts /\ (Senders \ {From(s)}) \cap Hosts # {}
AfterPayment(s) == IF ToHost(s) THEN "intimacy" ELSE "dedup"

\* Mutant: the payment key always carries the time.
PriceByTime(s) ==
  /\ at[s] = "price"
  /\ \E k \in Milliseconds(s, payKey) : payKey' = [payKey EXCEPT ![s] = k]
  /\ Goto(s, "guard")
  /\ UNCHANGED <<ask, flagged, raised, free, ms, coins, charged, messages,
                 reply, cached, aged, marks, rate, mutual, redisUp, faults, shown, calm>>

\* Hosts write for nothing, and so do users who follow a host that follows
\* them.  Anybody else pays, under a key made of the client's or the time.
Price(s) ==
  LET nothing == From(s) \in Hosts \/ (ToHost(s) /\ mutual)
  IN
  /\ at[s] = "price"
  /\ free' = IF nothing THEN free \cup {s} ELSE free
  /\ \/ nothing /\ UNCHANGED payKey
     \/ /\ ~nothing
        /\ \E k \in IF Key(s) = NoKey THEN Milliseconds(s, payKey) ELSE {Key(s)} :
             payKey' = [payKey EXCEPT ![s] = k]
  /\ Goto(s, IF nothing THEN AfterPayment(s) ELSE "guard")
  /\ UNCHANGED <<ask, flagged, raised, ms, coins, charged, messages, reply,
                 cached, aged, marks, rate, mutual, redisUp, faults, shown, calm>>

Paid(s) == \E q \in charged : From(q) = From(s) /\ payKey[q] = payKey[s]

\* processChatPayment: a payment already booked under the key is returned.
Guard(s) ==
  /\ at[s] = "guard"
  /\ Goto(s, IF Paid(s) THEN AfterPayment(s) ELSE "pay")
  /\ UNCHANGED <<ask, flagged, raised, free, payKey, ms, coins, charged,
                 messages, reply, cached, aged, marks, rate, mutual, redisUp, faults,
                 shown, calm>>

Pay(s) ==
  /\ at[s] = "pay" /\ ~Paid(s) /\ coins[From(s)] >= Cost
  /\ coins' = [coins EXCEPT ![From(s)] = @ - Cost]
  /\ charged' = charged \cup {s}
  /\ Goto(s, AfterPayment(s))
  /\ UNCHANGED <<ask, flagged, raised, free, payKey, ms, messages, reply,
                 cached, aged, marks, rate, mutual, redisUp, faults, shown, calm>>

\* Mutant: the error of the payment is swallowed.
PayRefusedGoesOn(s) ==
  /\ at[s] = "pay" /\ (Paid(s) \/ coins[From(s)] < Cost)
  /\ Goto(s, AfterPayment(s))
  /\ UNCHANGED <<ask, flagged, raised, free, payKey, ms, coins, charged,
                 messages, reply, cached, aged, marks, rate, mutual, redisUp, faults,
                 shown, calm>>

\* Too few coins, or the key was booked since the guard looked.
PayRefused(s) ==
  /\ at[s] = "pay" /\ (Paid(s) \/ coins[From(s)] < Cost)
  /\ Goto(s, "failed")
  /\ UNCHANGED <<ask, flagged, raised, free, payKey, ms, coins, charged,
                 messages, reply, cached, aged, marks, rate, mutual, redisUp, faults,
                 shown, calm>>

\* onMessageSent; an error of it is swallowed.
RaiseIntimacy(s) ==
  /\ at[s] = "intimacy"
  /\ raised' \in {raised, raised \cup {s}}
  /\ Goto(s, "dedup")
  /\ UNCHANGED <<ask, flagged, free, payKey, ms, coins, charged, messages,
                 reply, cached, aged, marks, rate, mutual, redisUp, faults, shown, calm>>

-----------------------------------------------------------------------------
(* persistAndPublish *)

\* The dedup guard: read the mark of this millisecond, then set it.
Dedup(s) ==
  /\ at[s] = "dedup"
  /\ \E t \in Milliseconds(s, ms) :
       /\ ms' = [ms EXCEPT ![s] = t]
       /\ Goto(s, IF redisUp /\ t \in marks THEN "failed" ELSE "mark")
  /\ UNCHANGED <<ask, flagged, raised, free, payKey, coins, charged, messages,
                 reply, cached, aged, marks, rate, mutual, redisUp, faults, shown, calm>>

\* Mutant: the reply is cached before its message is stored.
MarkAndCache(s) ==
  /\ at[s] = "mark"
  /\ marks' = IF redisUp THEN marks \cup {ms[s]} ELSE marks
  /\ cached' = IF Key(s) # NoKey /\ redisUp THEN [cached EXCEPT ![Id(s)] = s] ELSE cached
  /\ Goto(s, "create")
  /\ UNCHANGED <<ask, flagged, raised, free, payKey, ms, coins, charged,
                 messages, reply, aged, rate, mutual, redisUp, faults, shown, calm>>

Mark(s) ==
  /\ at[s] = "mark"
  /\ marks' = IF redisUp THEN marks \cup {ms[s]} ELSE marks
  /\ Goto(s, "create")
  /\ UNCHANGED <<ask, flagged, raised, free, payKey, ms, coins, charged,
                 messages, reply, cached, aged, rate, mutual, redisUp, faults, shown, calm>>

Create(s) ==
  /\ at[s] = "create"
  /\ messages' = messages \cup {s}
  /\ Goto(s, "cache")
  /\ UNCHANGED <<ask, flagged, raised, free, payKey, ms, coins, charged, reply,
                 cached, aged, marks, rate, mutual, redisUp, faults, shown, calm>>

\* Mutant: the reply is not cached.
AnswerOnly(s) ==
  /\ at[s] = "cache"
  /\ reply' = [reply EXCEPT ![s] = s]
  /\ Goto(s, "deliver")
  /\ UNCHANGED <<ask, flagged, raised, free, payKey, ms, coins, charged,
                 messages, cached, aged, marks, rate, mutual, redisUp, faults, shown, calm>>

Answer(s) ==
  /\ at[s] = "cache"
  /\ cached' = IF Key(s) # NoKey /\ redisUp THEN [cached EXCEPT ![Id(s)] = s] ELSE cached
  /\ reply' = [reply EXCEPT ![s] = s]
  /\ Goto(s, "deliver")
  /\ UNCHANGED <<ask, flagged, raised, free, payKey, ms, coins, charged,
                 messages, aged, marks, rate, mutual, redisUp, faults, shown, calm>>

\* handleSendMessage: newMessage to the room, messageAck to the sender.
Deliver(s) ==
  /\ at[s] = "deliver"
  /\ shown' = shown \cup {reply[s]}
  /\ Goto(s, "done")
  /\ UNCHANGED <<ask, flagged, raised, free, payKey, ms, coins, charged, messages,
                 reply, cached, aged, marks, rate, mutual, redisUp, faults, calm>>

-----------------------------------------------------------------------------
(* The surroundings *)

\* The server dies or a database call fails: the send stops where it is.
Fail(s) ==
  /\ s \in InFlight
  /\ ~calm /\ faults < MaxFaults /\ faults' = faults + 1
  /\ Goto(s, "failed")
  /\ UNCHANGED <<ask, flagged, raised, free, payKey, ms, coins, charged,
                 messages, reply, cached, aged, marks, rate, mutual, redisUp, shown, calm>>

\* Redis goes away, with or without its data, and comes back.
RedisDown ==
  /\ redisUp /\ ~calm /\ faults < MaxFaults
  /\ redisUp' = FALSE /\ faults' = faults + 1
  /\ \/ UNCHANGED <<cached, marks, rate>>
     \/ /\ cached' = [i \in Ids |-> None] /\ marks' = {}
        /\ rate' = [u \in Senders |-> 0]
  /\ UNCHANGED <<ask, flagged, raised, at, free, payKey, ms, coins, charged,
                 messages, reply, aged, mutual, shown, calm>>

RedisBack ==
  /\ ~redisUp /\ redisUp' = TRUE
  /\ UNCHANGED <<ask, flagged, raised, at, free, payKey, ms, coins, charged,
                 messages, reply, cached, aged, marks, rate, mutual, faults, shown, calm>>

\* A day has passed since the reply was cached, whatever else goes on.
ReplyExpires(i) ==
  /\ cached[i] # None
  /\ cached' = [cached EXCEPT ![i] = None]
  /\ aged' = aged \cup {cached[i]}
  /\ UNCHANGED <<ask, flagged, raised, at, free, payKey, ms, coins, charged,
                 messages, reply, marks, rate, mutual, redisUp, faults, shown, calm>>

\* A minute has passed since the first message counted.
WindowEnds(u) ==
  /\ rate[u] > 0 /\ rate' = [rate EXCEPT ![u] = 0]
  /\ UNCHANGED <<ask, flagged, raised, at, free, payKey, ms, coins, charged,
                 messages, reply, cached, aged, marks, mutual, redisUp, faults,
                 shown, calm>>

\* FollowService: somebody follows or unfollows.
FollowChanges ==
  /\ InFlight # {} /\ mutual' = ~mutual
  /\ UNCHANGED <<ask, flagged, raised, at, free, payKey, ms, coins, charged,
                 messages, reply, cached, aged, marks, rate, redisUp, faults, shown, calm>>

SendStep(s) == \/ Lookup(s) \/ Check(s) \/ Price(s) \/ Guard(s) \/ Pay(s)
               \/ PayRefused(s) \/ RaiseIntimacy(s) \/ Dedup(s) \/ Mark(s)
               \/ Create(s) \/ Answer(s) \/ Deliver(s)

Next == \/ \E s \in Sends : SendStep(s) \/ Fail(s)
        \/ RedisDown \/ RedisBack \/ FollowChanges
        \/ \E u \in Senders : WindowEnds(u)
        \/ \E i \in Ids : ReplyExpires(i)

Spec == Init /\ [][Next]_vars

-----------------------------------------------------------------------------
(* Properties *)

SameId(s, q) == Key(s) # NoKey /\ Id(s) = Id(q)

\* However often and however concurrently a client repeats a send, whatever
\* fails and wherever Redis is, its key is charged once (chat.service.ts
\* 314-325; WALLET_FIX_README.md 341 says so).
ChargedOnce == \A s, q \in charged : SameId(s, q) => s = q

\* A stored message that is not free was paid for under its key: no order of
\* steps stores it first (chat.service.ts 318-347).
NothingUnpaid ==
  \A s \in messages : s \in free \/ Paid(s)

\* What the sender is answered and the other participant is shown, from the
\* cache or not, is a stored message of that sender and key; and where nothing
\* has failed everything stored has been shown when the sends are over
\* (chat.service.ts 158-165, 383-424; chat.gateway.ts 205-240).
ShownIsStored ==
  /\ \A s \in Sends : reply[s] # None =>
       reply[s] \in messages /\ (reply[s] = s \/ SameId(s, reply[s]))
  /\ shown \subseteq messages
  /\ faults = 0 /\ InFlight = {} => shown = messages

\* A client that waits for each answer gets one message per key for as long
\* as the reply of the key is kept: a second message of a key is stored only
\* when the reply with the first one has lived its day (chat.service.ts
\* 158-165, 419-424).
OneMessagePerKey == calm =>
  \A s, q \in messages \ aged : SameId(s, q) => s = q
=============================================================================
