---------------------------- MODULE Relationship ----------------------------
(***************************************************************************)
(* RelationshipService (src/src/modules/intimacy/relationship.service.ts):  *)
(* couples and best friends.  A pair of a high enough level may have one    *)
(* Relationship row; it is invited, accepted or rejected, expires when the  *)
(* two have been silent for a week, and can be bought back.  Every method   *)
(* checks in some calls and writes in later ones; only the payment of a     *)
(* reactivation and what it buys are one transaction.                       *)
(*                                                                         *)
(* The wallet is one number: how a price is split over its two kinds of     *)
(* coins is left out.                                                       *)
(***************************************************************************)
EXTENDS Intimacy

CONSTANTS
  RequiredLevel,  \* FEATURE_LEVEL_MAP.relationship
  MaxCouples,     \* MAX_COUPLE_RELATIONSHIPS
  MaxFriends,     \* MAX_BEST_FRIEND_RELATIONSHIPS
  CostPerLevel,   \* REACTIVATION_COST_PER_LEVEL
  OpeningCoins,   \* what each user has at first
  Prices          \* what is bought elsewhere

ASSUME RelationshipAssumption ==
  /\ {RequiredLevel, MaxCouples, MaxFriends, CostPerLevel} \subseteq Nat
  /\ RequiredLevel > 0
  /\ OpeningCoins \in [Users -> Nat] /\ Prices \subseteq Nat \ {0}

VARIABLES
  rel,      \* the Relationship row of each pair
  coins,    \* each user's coins
  earned    \* the pairs that have had the level for a relationship

relationVars == <<row, cache, call, asks, faults, calm, rel, coins, earned>>

Statuses == {"NONE", "PENDING", "ACTIVE", "REJECTED", "EXPIRED"}

Active(u, type) ==
  Cardinality({p \in Pairs : rel[p].status = "ACTIVE" /\ rel[p].type = type
                             /\ u \in {rel[p].inviter, rel[p].invitee}})

Pair(c) == call[c].pair
OtherOf(u, p) == CHOOSE v \in p : v # u
TheOther(c) == OtherOf(call[c].user, Pair(c))

\* The call goes on with the relationship as it has just read it, or ends.
GoOnWith(c, r, l) == call' = [call EXCEPT ![c].invite = r, ![c].at = l]

-----------------------------------------------------------------------------
(* sendInvite *)

SendInvite(c, u, p) ==
  /\ \E t \in {"COUPLE", "FRIEND"} : Look(c, u, p, "send", t)
  /\ UNCHANGED <<rel, coins>>

\* Mutant: the level is not looked at.
AllowedAlways(c) == TRUE
Allowed(c) == LevelSeen(c) >= RequiredLevel

\* Mutant: a pending invitation is replaced.
OpenActive(r) == r.status = "ACTIVE"
Open(r) == r.status \in {"ACTIVE", "PENDING"}

FindRelation(c) ==
  LET r == rel[Pair(c)] IN
  /\ Is(c, "known", {"send"})
  /\ IF Allowed(c) /\ ~Open(r)
     THEN GoOnWith(c, r, IF call[c].type = "COUPLE" THEN "inviter" ELSE "friends")
     ELSE Done(c)
  /\ UNCHANGED <<row, cache, asks, faults, calm, rel, coins>>

\* validateCoupleConstraint of the inviter, then of the invitee, when a couple's
\* invitation is sent and when it is accepted.
ValidateCouple(c) ==
  LET inviter == IF call[c].op = "send" THEN call[c].user ELSE call[c].invite.inviter
      invitee == OtherOf(inviter, Pair(c))
  IN /\ \/ At(c, "inviter") /\ GoIf(c, Active(inviter, "COUPLE") < MaxCouples, "invitee")
        \/ At(c, "invitee") /\ GoIf(c, Active(invitee, "COUPLE") < MaxCouples, "write")
     /\ UNCHANGED <<row, cache, asks, faults, calm, rel, coins>>

\* validateFriendConstraint: of the inviter, when the invitation is sent.
ValidateFriends(c) ==
  /\ At(c, "friends") /\ GoIf(c, Active(call[c].user, "FRIEND") < MaxFriends, "write")
  /\ UNCHANGED <<row, cache, asks, faults, calm, rel, coins>>

\* A row that was there is written over as it is now; one that was not is made,
\* unless somebody else has made it: then the call ends in an error.
WriteInvite(c) ==
  /\ Is(c, "write", {"send"})
  /\ IF call[c].invite.status = "NONE" /\ rel[Pair(c)].status # "NONE" THEN UNCHANGED rel
     ELSE rel' = [rel EXCEPT ![Pair(c)] =
            [status |-> "PENDING", type |-> call[c].type,
             inviter |-> call[c].user, invitee |-> TheOther(c)]]
  /\ Done(c)
  /\ UNCHANGED <<row, cache, asks, faults, calm, coins>>

-----------------------------------------------------------------------------
(* acceptInvite and rejectInvite *)

\* The invitee answers a pending invitation; anything else is an error.
Answer(c, u, p, op) ==
  /\ UserAsks(c, u)
  /\ rel[p].status = "PENDING" /\ rel[p].invitee = u
  /\ call' = [call EXCEPT ![c] =
       [Asked(u, p, op, "NONE",
              IF op = "accept" /\ rel[p].type = "COUPLE" THEN "inviter" ELSE "write")
        EXCEPT !.invite = rel[p]]]
  /\ UNCHANGED <<row, cache, faults, calm, rel, coins>>

AcceptInvite(c, u, p) == Answer(c, u, p, "accept")
RejectInvite(c, u, p) == Answer(c, u, p, "reject")

SetStatus(c, s) == rel' = [rel EXCEPT ![Pair(c)].status = s]

WriteRejection(c) ==
  /\ Is(c, "write", {"reject"})
  /\ SetStatus(c, "REJECTED")
  /\ Done(c)
  /\ UNCHANGED <<row, cache, asks, faults, calm, coins>>

WriteAcceptance(c) ==
  /\ Is(c, "write", {"accept"})
  /\ SetStatus(c, "ACTIVE")
  /\ Goto(c, "type")
  /\ UNCHANGED <<row, cache, asks, faults, calm, coins>>

\* The type the intimacy shows, after an acceptance or an expiry; the cached
\* copy is dropped next.
WriteType(c) ==
  /\ At(c, "type")
  /\ row' = [row EXCEPT ![Pair(c)].type =
       IF call[c].op = "accept" THEN call[c].invite.type ELSE "NONE"]
  /\ Goto(c, "uncache")
  /\ UNCHANGED <<cache, asks, faults, calm, rel, coins>>

-----------------------------------------------------------------------------
(* expireStaleRelationships *)

ExpireStale(c) ==
  /\ BeginJob(c, "expire", "expire",
       {p \in Pairs : rel[p].status = "ACTIVE" /\ row[p].age = "week"})
  /\ UNCHANGED <<rel, coins>>

WriteExpiry(c) ==
  /\ At(c, "expire")
  /\ \E p \in call[c].todo :
       /\ rel' = [rel EXCEPT ![p].status = "EXPIRED"]
       /\ call' = [call EXCEPT ![c].at = "type", ![c].pair = p]
  /\ UNCHANGED <<row, cache, asks, faults, calm, coins>>

-----------------------------------------------------------------------------
(* reactivateRelationship *)

Reactivate(c, u, p) == Look(c, u, p, "reactivate", "NONE") /\ UNCHANGED <<rel, coins>>

FindExpired(c) ==
  LET r == rel[Pair(c)] IN
  /\ Is(c, "known", {"reactivate"})
  /\ IF r.status = "EXPIRED" THEN GoOnWith(c, r, "coins") ELSE Done(c)
  /\ UNCHANGED <<row, cache, asks, faults, calm, rel, coins>>

Cost(c) == Max({1, LevelSeen(c)}) * CostPerLevel

Affords(c) == coins[call[c].user] >= Cost(c)

CheckCoins(c) ==
  /\ At(c, "coins") /\ GoIf(c, Affords(c), "pay")
  /\ UNCHANGED <<row, cache, asks, faults, calm, rel, coins>>

\* One transaction; the other couples of the two are not counted.
Pay(c) ==
  /\ At(c, "pay")
  /\ coins' = [coins EXCEPT ![call[c].user] = @ - Cost(c)]
  /\ SetStatus(c, "ACTIVE")
  /\ row' = [row EXCEPT ![Pair(c)].type = call[c].invite.type]
  /\ Goto(c, "uncache")
  /\ UNCHANGED <<cache, asks, faults, calm>>

\* The user spends coins elsewhere.
SpendElsewhere(u) ==
  /\ calm => \A c \in InFlight : call[c].user # u
  /\ \E n \in Prices : coins[u] >= n /\ coins' = [coins EXCEPT ![u] = @ - n]
  /\ UNCHANGED <<row, cache, call, asks, faults, calm, rel>>

-----------------------------------------------------------------------------
HighEnough(p) == row[p].level >= RequiredLevel

\* Some of the pairs have had a relationship and lost it.
RelationInit ==
  /\ IntimacyInit
  /\ \E r \in [Pairs -> {NoInvite} \cup [status: {"EXPIRED"}, type: {"COUPLE"},
                                        inviter: Users, invitee: Users]] :
       /\ \A p \in Pairs : r[p] # NoInvite =>
            row[p].there /\ p = {r[p].inviter, r[p].invitee}
       /\ rel = r
       /\ earned = {p \in Pairs : HighEnough(p) \/ r[p] # NoInvite}
  /\ coins = OpeningCoins

RelationStep ==
  \/ IntimacyNext /\ UNCHANGED <<rel, coins>>
  \/ \E c \in Calls, p \in Pairs : \E u \in p :
       SendInvite(c, u, p) \/ AcceptInvite(c, u, p) \/ RejectInvite(c, u, p)
       \/ Reactivate(c, u, p)
  \/ \E c \in Calls :
       \/ FindRelation(c) \/ ValidateCouple(c) \/ ValidateFriends(c) \/ WriteInvite(c)
       \/ WriteRejection(c) \/ WriteAcceptance(c) \/ WriteType(c)
       \/ ExpireStale(c) \/ WriteExpiry(c) \/ FindExpired(c) \/ CheckCoins(c) \/ Pay(c)
  \/ \E u \in Users : SpendElsewhere(u)

RelationNext == RelationStep /\ earned' = earned \cup {p \in Pairs : HighEnough(p)'}

RelationSpec == RelationInit /\ [][RelationNext]_relationVars

-----------------------------------------------------------------------------
(* Properties *)

Answering(c) == call[c].op \in {"accept", "reject"} /\ call[c].at \in {"inviter", "invitee", "write"}

\* An answer is given to the invitation the invitee has seen: between reading
\* it and writing the answer by the row's id nobody can have turned it into an
\* invitation of another type or direction, although both of the two may send
\* one and every send writes over what it found earlier (relationship.service.ts
\* 85-95, 112-147, 169-188).
AnswerMeetsInvite ==
  calm => \A c \in Calls : Answering(c) => rel[Pair(c)] = call[c].invite

\* No invitation without the level: whatever the score has fallen to since, and
\* however old the cached level was, the pair once had the level it takes
\* (relationship.service.ts 44-48, intimacy.service.ts 52-72).
InviteWasEarned == \A p \in Pairs : rel[p].status # "NONE" => p \in earned
=============================================================================
