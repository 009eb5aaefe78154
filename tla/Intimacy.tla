------------------------------ MODULE Intimacy ------------------------------
(***************************************************************************)
(* The row two users share and the two engines that keep its score:         *)
(* IntimacyEngineService (src/src/modules/intimacy/intimacy.service.ts),    *)
(* called by POST /intimacy/track and the nightly decay, and IntimacyService *)
(* (src/src/modules/chat/intimacy.service.ts), called for every message.    *)
(* Both read the row, compute, and write what they computed in a later      *)
(* call.  A copy of the row's level is cached in Redis for five minutes.    *)
(*                                                                         *)
(* Relationship extends this module and holds the next-state relation.      *)
(* Left out: the daily cap and the factors of an interaction's points (any   *)
(* of Points may be earned), the log, an interaction that earns nothing.     *)
(***************************************************************************)
EXTENDS Clients, FiniteSetsExt, Functions

CONSTANTS
  Pairs,          \* the pairs of users of the instance
  EngineLevels,   \* LEVEL_THRESHOLDS of the intimacy engine: set of
                  \* [level, score], level 0 included
  ChatLevels,     \* the thresholds of the chat's engine, from level 1
  ChatCap,        \* the chat's highest score
  Points,         \* what an interaction may earn
  MessagePoints,  \* what a message may earn, by the age of the last interaction
  Decay,          \* DECAY_POINTS_PER_DAY
  FirstScores,    \* scores the pairs have at first
  MaxScore        \* bound on the engine's score

ASSUME PairsAssumption ==
  \A p \in Pairs : \E u, v \in Users : u # v /\ p = {u, v}
ASSUME LevelsAssumption ==
  /\ EngineLevels \subseteq [level: Nat, score: Nat]
  /\ ChatLevels \subseteq [level: Nat, score: Nat]
  /\ [level |-> 0, score |-> 0] \in EngineLevels
  /\ [level |-> 1, score |-> 0] \in ChatLevels
  /\ IsFiniteSet(EngineLevels) /\ IsFiniteSet(ChatLevels)
ASSUME ScoresAssumption ==
  /\ {ChatCap, Decay, MaxScore} \subseteq Nat
  /\ Points \subseteq Nat \ {0} /\ FirstScores \subseteq 0..MaxScore
  /\ DOMAIN MessagePoints = {"never", "today", "days", "week"}
  /\ \A a \in DOMAIN MessagePoints : MessagePoints[a] \subseteq Int

VARIABLES
  row,     \* the Intimacy row of each pair
  cache    \* the level in intimacy:<A>:<B>, NotCached if there is none

intimacyVars == <<row, cache, call, asks, faults, calm>>

Types == {"NONE", "FRIEND", "COUPLE"}
Ages  == {"never", "today", "days", "week"}
NotCached == -1

NoRow == [there |-> FALSE, score |-> 0, level |-> 0, type |-> "NONE", age |-> "never"]
NoInvite == [status |-> "NONE", type |-> "NONE", inviter |-> Nobody, invitee |-> Nobody]
RowWith(level) ==
  [there |-> TRUE, score |-> 0, level |-> level, type |-> "NONE", age |-> "never"]

\* A call of user u, or with Nobody of the nightly jobs, that has read nothing.
Asked(u, p, op, type, at) ==
  [at |-> at, op |-> op, user |-> u, pair |-> p, type |-> type,
   read |-> [q \in Pairs |-> NoRow], invite |-> NoInvite, todo |-> {}]
NoCall == Asked(Nobody, {}, "none", "NONE", "idle")

-----------------------------------------------------------------------------
(* Scores and levels *)

LevelIn(table, score) == Max({t.level : t \in {s \in table : s.score <= score}})

EngineLevel(score) == LevelIn(EngineLevels, score)
ChatLevel(score)   == LevelIn(ChatLevels, score)
Levels == {t.level : t \in EngineLevels \cup ChatLevels}

-----------------------------------------------------------------------------
(* Calls *)

InFlight == {c \in Calls : ~At(c, "idle")}
Jobs == {"decay", "expire"}

\* User u asks for something with c.  In calm behaviours u waits for an answer
\* before asking again, and nobody asks during the nightly jobs.
UserAsks(c, u) ==
  /\ At(c, "idle") /\ asks < MaxAsks /\ asks' = asks + 1
  /\ calm => \A q \in InFlight : call[q].user # u /\ call[q].op \notin Jobs

Done(c) == call' = [call EXCEPT ![c] = NoCall]

\* The call goes on if a check lets it.
GoIf(c, ok, l) == IF ok THEN Goto(c, l) ELSE Done(c)

\* The call goes on at l, with row r as it has read it.
GoOnWithRow(c, r, l) ==
  call' = [call EXCEPT ![c].at = l, ![c].read[call[c].pair] = r]

\* Redis may be out of reach; then nothing is cached or deleted.
RedisFails == faults < MaxFaults /\ faults' = faults + 1 /\ UNCHANGED cache

-----------------------------------------------------------------------------
(* trackInteraction and onMessageSent *)

\* What the engines look at.
Counted(p) == [there |-> row[p].there, score |-> row[p].score, level |-> 0,
               type |-> "NONE", age |-> row[p].age]

\* "track" is an interaction, "message" a message.
Interact(c, u, p, op) ==
  /\ UserAsks(c, u) /\ u \in p
  /\ call' = [call EXCEPT ![c] =
       [Asked(u, p, op, "NONE", IF row[p].there THEN "score" ELSE "create")
        EXCEPT !.read[p] = Counted(p)]]
  /\ UNCHANGED <<row, cache, faults, calm>>

TrackInteraction(c, u, p) == Interact(c, u, p, "track")
OnMessageSent(c, u, p)    == Interact(c, u, p, "message")

\* A row made meanwhile is an error: the pair is unique.
CreateRow(c) ==
  LET p == call[c].pair
  IN /\ At(c, "create")
     /\ IF row[p].there THEN Done(c) /\ UNCHANGED row
        ELSE /\ row' = [row EXCEPT ![p] = RowWith(IF call[c].op = "message" THEN 1 ELSE 0)]
             /\ GoOnWithRow(c, RowWith(0), "score")
     /\ UNCHANGED <<cache, asks, faults, calm>>

\* What was computed from the row as read replaces score and level.
Store(c, score, level) ==
  row' = [row EXCEPT ![call[c].pair].score = score, ![call[c].pair].level = level,
                     ![call[c].pair].age = "today"]

ScoreInteraction(c) ==
  /\ Is(c, "score", {"track"})
  /\ \E xp \in Points :
       LET score == call[c].read[call[c].pair].score + xp IN
       score <= MaxScore /\ Store(c, score, EngineLevel(score))
  /\ Goto(c, "uncache")
  /\ UNCHANGED <<cache, asks, faults, calm>>

\* The chat's engine has its own cap and levels and leaves the cache alone.
ScoreMessage(c) ==
  LET seen == call[c].read[call[c].pair] IN
  /\ Is(c, "score", {"message"})
  /\ \E points \in MessagePoints[seen.age] :
       LET score == Max({0, Min({ChatCap, seen.score + points})}) IN
       Store(c, score, ChatLevel(score))
  /\ Done(c)
  /\ UNCHANGED <<cache, asks, faults, calm>>

\* The copy is dropped, at the end of a call or before a job's next row.
Uncache(c) ==
  LET left == call[c].todo \ {call[c].pair} IN
  /\ At(c, "uncache")
  /\ \/ cache' = [cache EXCEPT ![call[c].pair] = NotCached] /\ UNCHANGED faults
     \/ RedisFails
  /\ IF left = {} THEN Done(c)
     ELSE call' = [call EXCEPT ![c].at = "expire", ![c].todo = left]
  /\ UNCHANGED <<row, asks, calm>>

-----------------------------------------------------------------------------
(* getIntimacy *)

\* A call that begins with getIntimacy: alone ("look"), before an invitation
\* of a type, before a reactivation.  A GET that fails finds nothing.
Look(c, u, p, op, type) ==
  /\ UserAsks(c, u) /\ u \in p
  /\ \/ /\ cache[p] # NotCached
        /\ call' = [call EXCEPT ![c] =
             [Asked(u, p, op, type, "known") EXCEPT !.read[p] = RowWith(cache[p])]]
        /\ UNCHANGED <<cache, faults>>
     \/ /\ call' = [call EXCEPT ![c] = Asked(u, p, op, type, "find")]
        /\ IF cache[p] = NotCached THEN UNCHANGED <<cache, faults>> ELSE RedisFails
  /\ UNCHANGED <<row, calm>>

\* Without a row nothing is cached and nothing is allowed.
FindRow(c) ==
  LET p == call[c].pair IN
  /\ At(c, "find")
  /\ IF row[p].there THEN GoOnWithRow(c, RowWith(row[p].level), "fill") ELSE Done(c)
  /\ UNCHANGED <<row, cache, asks, faults, calm>>

FillCache(c) ==
  /\ At(c, "fill")
  /\ \/ /\ cache' = [cache EXCEPT ![call[c].pair] = call[c].read[call[c].pair].level]
        /\ UNCHANGED faults
     \/ RedisFails
  /\ GoIf(c, call[c].op # "look", "known")
  /\ UNCHANGED <<row, asks, calm>>

\* The level the call goes by.
LevelSeen(c) == call[c].read[call[c].pair].level

-----------------------------------------------------------------------------
(* The nightly decay *)

\* What the decay looks at.
Scored(p) == [there |-> TRUE, score |-> row[p].score, level |-> 0,
              type |-> "NONE", age |-> "never"]

\* A job reads all its rows first.
BeginJob(c, op, at, due) ==
  /\ At(c, "idle") /\ due # {} /\ Ask
  /\ call' = [call EXCEPT ![c] =
       [at |-> at, op |-> op, user |-> Nobody, pair |-> {}, type |-> "NONE",
        read |-> [p \in Pairs |-> IF op = "decay" /\ p \in due THEN Scored(p) ELSE NoRow],
        invite |-> NoInvite, todo |-> due]]
  /\ UNCHANGED <<row, cache, faults, calm>>

ApplyDecay(c) ==
  BeginJob(c, "decay", "decay",
    {p \in Pairs : row[p].there /\ row[p].score > 0 /\ row[p].age # "today"})

\* The key it deletes is none of the cache's, so the copy stays.
DecayRow(c) ==
  /\ At(c, "decay")
  /\ \E p \in call[c].todo :
       LET score == Max({0, call[c].read[p].score - Decay})
           left  == call[c].todo \ {p}
       IN /\ row' = [row EXCEPT ![p].score = score, ![p].level = EngineLevel(score)]
          /\ IF left = {} THEN Done(c)
             ELSE call' = [call EXCEPT ![c].todo = left, ![c].read[p] = NoRow]
  /\ UNCHANGED <<cache, asks, faults, calm>>

-----------------------------------------------------------------------------
(* The surroundings *)

\* Time passes without an interaction: a day, then a week.
GrowOld(p) ==
  /\ row[p].age \in {"today", "days"}
  /\ row' = [row EXCEPT ![p].age = IF row[p].age = "today" THEN "days" ELSE "week"]
  /\ UNCHANGED <<cache, call, asks, faults, calm>>

CacheExpires(p) ==
  /\ cache[p] # NotCached
  /\ cache' = [cache EXCEPT ![p] = NotCached]
  /\ UNCHANGED <<row, call, asks, faults, calm>>

\* A database call fails or the server dies: the call stops where it is.
Fail(c) ==
  /\ c \in InFlight /\ faults < MaxFaults
  /\ faults' = faults + 1
  /\ Done(c)
  /\ UNCHANGED <<row, cache, asks, calm>>

\* A pair's score is what interactions earned; its last one may be long ago.
IntimacyInit ==
  /\ \E scores \in [Pairs -> FirstScores] : row = [p \in Pairs |->
       [there |-> scores[p] > 0, score |-> scores[p], level |-> EngineLevel(scores[p]),
        type |-> "NONE", age |-> IF scores[p] > 0 THEN "today" ELSE "never"]]
  /\ cache = [p \in Pairs |-> NotCached]
  /\ call = [c \in Calls |-> NoCall]
  /\ asks = 0 /\ faults = 0 /\ calm \in BOOLEAN

IntimacyNext ==
  \/ \E c \in Calls, p \in Pairs : \E u \in p :
       TrackInteraction(c, u, p) \/ OnMessageSent(c, u, p) \/ Look(c, u, p, "look", "NONE")
  \/ \E c \in Calls :
       \/ CreateRow(c) \/ ScoreInteraction(c) \/ ScoreMessage(c) \/ Uncache(c)
       \/ FindRow(c) \/ FillCache(c) \/ ApplyDecay(c) \/ DecayRow(c) \/ Fail(c)
  \/ \E p \in Pairs : GrowOld(p) \/ CacheExpires(p)
=============================================================================
