------------------------------ MODULE RateLimit ------------------------------
(***************************************************************************)
(* The limits counted in Redis.  enforceRateLimit (OtpService, and the same *)
(* in EmailAuthService) reads a counter, refuses at the limit, else raises  *)
(* the counter and renews its time to live, in three calls; sending a code  *)
(* does so for one key after the other.  checkMessageRateLimit              *)
(* (FraudService) counts and sets the time to live in one script.           *)
(*                                                                         *)
(* Time is counted in ticks.  Counters stay in Redis while the server has   *)
(* no connection to it: its calls then do nothing (redis.service.ts).       *)
(***************************************************************************)
EXTENDS Requests, Sequences, FiniteSets, Functions

CONSTANTS
  Keys,        \* counters
  Scripted,    \* those counted by the script
  Routes,      \* the keys a kind of request is counted under, in order
  Limit, Window

ASSUME KeysAssumption ==
  /\ Scripted \subseteq Keys
  /\ Limit \in [Keys -> Nat \ {0}] /\ Window \in [Keys -> Nat \ {0}]
  /\ \A r \in Routes : r \in Seq(Keys) /\ r # <<>>
  /\ \A r, s \in Routes : r # s => Range(r) \cap Range(s) = {}
  /\ IsFiniteSet(Calls)

Forever == -1

VARIABLES
  route,      \* the kind of request that comes: kinds share no counter
  count,      \* the counters in Redis, 0 for a key that is not there
  ttl,        \* ticks they have left, Forever for a key without an expiry
  redisUp,    \* the server is connected to Redis
  recent      \* requests counted below the limit, in each tick of the window

rateVars == <<route, count, ttl, redisUp, call, recent, faults, calm>>

\* A request has still to pass the keys that are left.  A calm one takes no time.
NoRequest == [at |-> "idle", left |-> <<>>]
Key(c) == Head(call[c].left)
Leave(c) == call' = [call EXCEPT ![c] = NoRequest]

Place(keys) == IF Head(keys) \in Scripted THEN "script" ELSE "get"

\* The key is passed: on to the next one, or through.
Pass(c) ==
  LET left == Tail(call[c].left)
  IN IF left = <<>> THEN Leave(c)
     ELSE call' = [call EXCEPT ![c] = [at |-> Place(left), left |-> left]]

Admit(k) == recent' = [recent EXCEPT ![k] = [recent[k] EXCEPT ![1] = @ + 1]]

RateInit ==
  /\ route \in Routes
  /\ count = [k \in Keys |-> 0]
  /\ ttl = [k \in Keys |-> 0]
  /\ redisUp = TRUE
  /\ call = [c \in Calls |-> NoRequest]
  /\ recent = [k \in Keys |-> [i \in 1..Window[k] |-> 0]]
  /\ faults = 0 /\ calm \in BOOLEAN

-----------------------------------------------------------------------------

Request(c) ==
  /\ At(c, "idle")
  /\ call' = [call EXCEPT ![c] = [at |-> Place(route), left |-> route]]
  /\ UNCHANGED <<route, count, ttl, redisUp, recent, faults, calm>>

\* Without Redis there is no limit.
Skip(c) ==
  /\ At(c, "get") \/ At(c, "script")
  /\ ~redisUp
  /\ Pass(c)
  /\ UNCHANGED <<route, count, ttl, redisUp, recent, faults, calm>>

Get(c) ==
  /\ At(c, "get") /\ redisUp
  /\ IF count[Key(c)] >= Limit[Key(c)] THEN Leave(c) ELSE Goto(c, "increment")
  /\ UNCHANGED <<route, count, ttl, redisUp, recent, faults, calm>>

\* The connection is lost during the GET, which then finds nothing.
GetLost(c) ==
  /\ At(c, "get") /\ ~redisUp
  /\ Goto(c, "increment")
  /\ UNCHANGED <<route, count, ttl, redisUp, recent, faults, calm>>

\* INCR keeps the time to live of a key, and makes a new one without.
Increment(c) ==
  LET k == Key(c)
  IN /\ At(c, "increment")
     /\ IF redisUp
        THEN /\ count' = [count EXCEPT ![k] = @ + 1]
             /\ ttl' = IF count[k] = 0 THEN [ttl EXCEPT ![k] = Forever] ELSE ttl
             /\ Admit(k)
        ELSE UNCHANGED <<count, ttl, recent>>
     /\ Goto(c, "expire")
     /\ UNCHANGED <<route, redisUp, faults, calm>>

\* Mutant: only a new counter is given a time to live.
ExpireIfNew(c) ==
  /\ At(c, "expire")
  /\ ttl' = IF redisUp /\ count[Key(c)] = 1
            THEN [ttl EXCEPT ![Key(c)] = Window[Key(c)]] ELSE ttl
  /\ Pass(c)
  /\ UNCHANGED <<route, count, redisUp, recent, faults, calm>>

Expire(c) ==
  /\ At(c, "expire")
  /\ ttl' = IF redisUp /\ count[Key(c)] > 0
            THEN [ttl EXCEPT ![Key(c)] = Window[Key(c)]] ELSE ttl
  /\ Pass(c)
  /\ UNCHANGED <<route, count, redisUp, recent, faults, calm>>

\* Mutant: the script renews the time to live every time.
RenewedTtl(k) == Window[k]
ScriptTtl(k) == IF count[k] = 0 THEN Window[k] ELSE ttl[k]

Fault == ~calm /\ faults < MaxFaults /\ faults' = faults + 1

\* INCR, EXPIRE if new, and the comparison.  Counts above Limit + 1 are one.  When
\* the reply is lost the message is counted and refused: nothing catches that.
Script(c) ==
  LET k == Key(c)
      over == count[k] >= Limit[k]
  IN /\ At(c, "script") /\ redisUp
     /\ count' = [count EXCEPT ![k] = IF over THEN Limit[k] + 1 ELSE @ + 1]
     /\ ttl' = [ttl EXCEPT ![k] = ScriptTtl(k)]
     /\ IF over THEN UNCHANGED recent ELSE Admit(k)
     /\ \/ (IF over THEN Leave(c) ELSE Pass(c)) /\ UNCHANGED faults
        \/ Leave(c) /\ Fault
     /\ UNCHANGED <<route, redisUp, calm>>

-----------------------------------------------------------------------------

Left(k) == IF ttl[k] > 0 THEN ttl[k] - 1 ELSE ttl[k]

Tick ==
  /\ calm => Quiet
  /\ ttl' = [k \in Keys |-> Left(k)]
  /\ count' = [k \in Keys |-> IF ttl[k] = 1 THEN 0 ELSE count[k]]
  /\ recent' = [k \in Keys |->
       [i \in 1..Window[k] |-> IF i = 1 THEN 0 ELSE recent[k][i - 1]]]
  /\ UNCHANGED <<route, redisUp, call, faults, calm>>

\* The server that runs the request is lost.
CutOff(c) ==
  /\ ~At(c, "idle") /\ Fault
  /\ Leave(c)
  /\ UNCHANGED <<route, count, ttl, redisUp, recent, calm>>

Disconnect ==
  /\ redisUp /\ Fault /\ redisUp' = FALSE
  /\ UNCHANGED <<route, count, ttl, call, recent, calm>>

Reconnect ==
  /\ ~redisUp /\ redisUp' = TRUE
  /\ UNCHANGED <<route, count, ttl, call, recent, faults, calm>>

Step(c) == \/ Skip(c) \/ Get(c) \/ GetLost(c) \/ Increment(c) \/ Expire(c)
           \/ Script(c)

RateNext ==
  \/ \E c \in Calls : Request(c) \/ Step(c) \/ CutOff(c)
  \/ Tick \/ Disconnect \/ Reconnect

\* Redis counts the time, and Node goes on with every request it has.
Fairness == WF_rateVars(Tick) /\ \A c \in Calls : WF_rateVars(Step(c))

RateSpec == RateInit /\ [][RateNext]_rateVars /\ Fairness

-----------------------------------------------------------------------------
(* Properties *)

Admitted(k) == SumFunction(recent[k])

\* In no stretch of a window are more requests let through than the limit, plus
\* one for every other request that read the counter with it; the script, whose
\* windows do not slide, lets twice the limit through where two of them meet
\* (otp.service.ts 243-257, fraud.service.ts 46-57).
NeverFarOver ==
  calm => \A k \in Keys :
    Admitted(k) <= IF k \in Scripted THEN 2 * Limit[k]
                  ELSE Limit[k] + Cardinality(Calls) - 1

\* A message is refused for the limit only to a sender who has sent that many
\* within the last window, whatever is lost on the way: those let through, and
\* those that were counted and refused because the reply was lost
\* (fraud.service.ts 46-64).
RefusedAtLimit ==
  \A k \in Scripted : count[k] >= Limit[k] => Admitted(k) >= Limit[k]

\* A full counter empties again, also when a request is cut off or Redis goes
\* away between INCR and EXPIRE: another request that is counted makes up for
\* it (otp.service.ts 254-255), as long as fewer are cut off in a row than the
\* limit; the script leaves no gap (fraud.service.ts 43-57).  Where calm requests
\* stop the clock nothing is said.
FullCounterEmpties ==
  ~calm => \A k \in Keys : (count[k] >= Limit[k]) ~> (count[k] < Limit[k])
=============================================================================
