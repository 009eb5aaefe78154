------------------------------ MODULE Referral ------------------------------
(***************************************************************************)
(* Who brought whom (processRegistrationReferral in                         *)
(* src/src/modules/referral/referral.service.ts): a user names a referrer,  *)
(* the chain above the referrer is walked row by row to refuse a circle,    *)
(* the row is made, the referrer paid, and the row marked.  Each is a       *)
(* database call of its own; referrals are unique by the referred user.     *)
(*                                                                         *)
(* The controller passes no device, so the device check is not reached;     *)
(* processFirstChatReferral has no caller.                                  *)
(***************************************************************************)
EXTENDS Clients, Sequences, FiniteSets

CONSTANT MaxDepth   \* maxDepth, the rows the walk reads at most

ASSUME ReferralAssumption == MaxDepth \in Nat \ {0}

VARIABLES
  referrer,   \* Referral rows: the referrer of each user
  given,      \* users whose row has registrationRewardGiven
  paid,       \* REFERRAL_REWARD transactions for each user, by who was paid
  gone        \* deleted users

referralVars == <<referrer, given, paid, gone, call, asks, faults, calm>>

\* A request's user, the referrer, and the walk.
Unused == [at |-> "idle", user |-> Nobody, by |-> Nobody, current |-> Nobody,
           visited |-> {}, depth |-> 0]
Finish(c) == call' = [call EXCEPT ![c] = Unused]

ReferralInit ==
  /\ referrer = [u \in Users |-> Nobody]
  /\ given = {} /\ gone = {}
  /\ paid = [u \in Users |-> <<>>]
  /\ call = [c \in Calls |-> Unused]
  /\ asks = 0 /\ faults = 0 /\ calm \in BOOLEAN

-----------------------------------------------------------------------------

\* The referrer is looked up; nobody refers himself.
FindReferrer(c, u, r) ==
  /\ At(c, "idle") /\ Ask
  /\ IF r \in gone \/ r = u THEN UNCHANGED call
     ELSE call' = [call EXCEPT ![c] =
            [at |-> "existing", user |-> u, by |-> r, current |-> r,
             visited |-> {u}, depth |-> 0]]
  /\ UNCHANGED <<referrer, given, paid, gone, faults, calm>>

FindExisting(c) ==
  /\ At(c, "existing")
  /\ IF referrer[call[c].user] # Nobody THEN Finish(c) ELSE Goto(c, "walk")
  /\ UNCHANGED <<referrer, given, paid, gone, asks, faults, calm>>

\* Mutant: the walk forgets whom it began for.
SeenOthers(w) == w.current \in w.visited \ {w.user}
Seen(w) == w.current \in w.visited

\* One step up.  What the last step finds is not looked at.
Walk(c) ==
  LET w == call[c]
  IN /\ At(c, "walk")
     /\ w.current # Nobody /\ w.depth < MaxDepth
     /\ IF Seen(w) THEN Finish(c)
        ELSE call' = [call EXCEPT ![c].visited = @ \cup {w.current}, ![c].depth = @ + 1,
                                  ![c].current = referrer[w.current]]
     /\ UNCHANGED <<referrer, given, paid, gone, asks, faults, calm>>

\* Mutant: an upsert, which does not mind that the row is there.
Upsert(c) ==
  LET w == call[c]
  IN /\ At(c, "walk") /\ (w.current = Nobody \/ w.depth = MaxDepth)
     /\ referrer' = [referrer EXCEPT ![w.user] = w.by]
     /\ Goto(c, "award")
     /\ UNCHANGED <<given, paid, gone, asks, faults, calm>>

\* The insert fails when the user has a row by now.
CreateReferral(c) ==
  LET w == call[c]
  IN /\ At(c, "walk") /\ (w.current = Nobody \/ w.depth = MaxDepth)
     /\ IF referrer[w.user] # Nobody THEN UNCHANGED referrer /\ Finish(c)
        ELSE referrer' = [referrer EXCEPT ![w.user] = w.by] /\ Goto(c, "award")
     /\ UNCHANGED <<given, paid, gone, asks, faults, calm>>

\* awardReferralBonus, a transaction of the wallet.
AwardReferralBonus(c) ==
  /\ At(c, "award")
  /\ paid' = [paid EXCEPT ![call[c].user] = Append(@, call[c].by)]
  /\ Goto(c, "mark")
  /\ UNCHANGED <<referrer, given, gone, asks, faults, calm>>

MarkRewarded(c) ==
  /\ At(c, "mark")
  /\ given' = given \cup {call[c].user}
  /\ Finish(c)
  /\ UNCHANGED <<referrer, paid, gone, asks, faults, calm>>

\* UsersService.softDelete: the rows stay.
DeleteReferred(u) ==
  /\ u \notin gone /\ Ask
  /\ gone' = gone \cup {u}
  /\ UNCHANGED <<referrer, given, paid, call, faults, calm>>

\* The server or its database connection is lost.
LoseReferral(c) ==
  /\ ~At(c, "idle") /\ ~calm
  /\ faults < MaxFaults /\ faults' = faults + 1
  /\ Finish(c)
  /\ UNCHANGED <<referrer, given, paid, gone, asks, calm>>

ReferralNext ==
  \/ \E c \in Calls :
       \/ \E u \in Users \ gone, r \in Users : FindReferrer(c, u, r)
       \/ FindExisting(c) \/ Walk(c) \/ CreateReferral(c)
       \/ AwardReferralBonus(c) \/ MarkRewarded(c) \/ LoseReferral(c)
  \/ \E u \in Users : DeleteReferred(u)

ReferralSpec == ReferralInit /\ [][ReferralNext]_referralVars

-----------------------------------------------------------------------------
(* Properties *)

\* The user n referrals above u.
Above(u, n) ==
  LET up[i \in 0..n] == IF i = 0 THEN u
                        ELSE IF up[i - 1] = Nobody THEN Nobody ELSE referrer[up[i - 1]]
  IN up[n]

\* With one request at a time, a circle of referrals has more users in it than
\* the walk looks at (referral.service.ts 79-98).
CirclesAreLong ==
  calm => \A u \in Users, n \in 1..MaxDepth : Above(u, n) # u

\* However requests overlap and wherever they are cut off: a new user is paid
\* for once, to the referrer the row names, and a row marked as rewarded has been
\* (referral.service.ts 100-121).
RewardedOnce ==
  \A u \in Users :
    /\ paid[u] \in {<<>>, <<referrer[u]>>}
    /\ u \in given => paid[u] # <<>>
=============================================================================
