--------------------------- MODULE RequestProofs ---------------------------
(***************************************************************************)
(* What holds of the services whose requests are modelled by Requests, for  *)
(* every set of users, tokens, codes, counters, pairs and requests.         *)
(*                                                                         *)
(* Sign-in.  A chain of refresh tokens has one that works, a logout ends    *)
(* its chain, and a code is tried at most as often as allowed and once more *)
(* per overlapping request.  While the requests wait for each other a code  *)
(* lets one person in, and a device earns no more signup bonuses than       *)
(* allowed.  TokenInv is inductive on its own: of SignIn it only needs that *)
(* no other handler writes sessions or takes up a rotation.  TryInv adds    *)
(* the requests that have read the counter of a code and not yet raised it, *)
(* and SoloInv what the one request under way has read and not yet written. *)
(*                                                                         *)
(* Referral.  A user's referrer is paid once (PayInv), and referrals go     *)
(* round in long circles only (CircleInv).                                  *)
(*                                                                         *)
(* Rate limits.  The limits counted in Redis hold (RateInv).                *)
(*                                                                         *)
(* Relationships.  An invite goes out only for a pair that has had the      *)
(* level it takes (EarnInv), and while the requests wait for each other an  *)
(* answer meets the invite it was given to (CalmInv).                       *)
(***************************************************************************)
EXTENDS SignIn, Referral, RateLimit, Relationship, SumProofs, FiniteSetTheorems, TLAPS

Ops == {"none", "rotate", "otp", "register", "login", "google"}
Places == {"idle", "drop", "delete", "issue", "attempt", "mark", "user", "device",
           "grant", "create", "track", "record", "email", "link"}
Work == [op : Ops, at : Places, who : Users \cup {Nobody},
         token : Tokens \cup {Nobody}]

TokenType ==
  /\ sessions \subseteq Issued /\ ended \subseteq Issued
  /\ holder \in [Tokens -> Users \cup {Nobody}]
  /\ chain \in [Tokens -> Tokens \cup {Nobody}]
  /\ call \in [Calls -> Work]

\* Every token of a chain comes after the first one.
ChainInv == \A t \in Issued : chain[t] \in Issued

\* A request knows its user, and only a rotation is at a place of a rotation.
PlaceInv ==
  \A c \in Calls :
    /\ ~At(c, "idle") => call[c].who \in Users
    /\ At(c, "drop") \/ At(c, "delete") => call[c].op = "rotate"
    /\ call[c].op = "rotate" =>
         call[c].at \in {"drop", "delete", "issue"} /\ call[c].token \in Issued

Issuing(c) == call[c].op = "rotate" /\ At(c, "issue")

\* A rotation about to issue holds its chain alone: no token of it works, it has
\* not been ended, and no other rotation is about to issue into it.
HandOver ==
  \A c \in Calls : Issuing(c) =>
    /\ \A t \in sessions : chain[t] # chain[call[c].token]
    /\ chain[call[c].token] \notin ended
    /\ \A d \in Calls : Issuing(d) /\ chain[call[d].token] = chain[call[c].token] => d = c

TokenInv == TokenType /\ ChainInv /\ PlaceInv /\ HandOver /\ OneLiveToken /\ LogoutEndsChain

-----------------------------------------------------------------------------
LEMMA InitToken ==
  ASSUME Init
  PROVE  TokenInv
<1>1. Issued = {} /\ \A c \in Calls : call[c] = Idle
  BY DEF Init, SessionInit, Issued
<1>2. Idle \in Work /\ Idle.op = "none" /\ Idle.at = "idle"
  BY DEF Idle, Work, Ops, Places
<1>3. TokenType
  BY <1>2 DEF Init, SessionInit, TokenType
<1>4. ChainInv /\ PlaceInv /\ HandOver
  BY <1>1, <1>2 DEF ChainInv, PlaceInv, HandOver, Issuing, At
<1>5. OneLiveToken /\ LogoutEndsChain
  BY DEF Init, SessionInit, OneLiveToken, LogoutEndsChain
<1> QED BY <1>3, <1>4, <1>5 DEF TokenInv

\* A step that leaves the tokens alone, and of the requests changes one that is
\* not a rotation afterwards.
LEMMA ElsewhereToken ==
  ASSUME TokenInv, UNCHANGED sessionVars, NEW c \in Calls, NEW w \in Work,
         call' = [call EXCEPT ![c] = w], w.op # "rotate", w.at \notin {"drop", "delete"},
         w.at # "idle" => w.who \in Users
  PROVE  TokenInv'
<1>1. /\ TokenType' /\ Issued' = Issued
      /\ \A d \in Calls : d # c => call'[d] = call[d]
      /\ call'[c] = w
  BY DEF TokenInv, TokenType, sessionVars, Issued
<1>2. ChainInv' /\ OneLiveToken' /\ LogoutEndsChain'
  BY <1>1 DEF TokenInv, ChainInv, OneLiveToken, LogoutEndsChain, sessionVars
<1>3. PlaceInv'
  BY <1>1 DEF TokenInv, PlaceInv, At
<1>4. \A d \in Calls : Issuing(d)' => Issuing(d) /\ call'[d] = call[d]
  BY <1>1 DEF Issuing, At
<1>5. HandOver'
  BY <1>4 DEF TokenInv, HandOver, sessionVars
<1> QED BY <1>1, <1>2, <1>3, <1>5 DEF TokenInv

LEMMA UnchangedToken ==
  ASSUME TokenInv, UNCHANGED <<sessionVars, call>>
  PROVE  TokenInv'
BY DEF TokenInv, TokenType, ChainInv, PlaceInv, HandOver, OneLiveToken, LogoutEndsChain,
       Issued, Issuing, At, sessionVars

LEMMA EndToken ==
  ASSUME TokenInv, UNCHANGED sessionVars, NEW c \in Calls, End(c)
  PROVE  TokenInv'
<1>1. Idle \in Work /\ Idle.op # "rotate" /\ Idle.at = "idle"
  BY DEF Idle, Work, Ops, Places
<1> QED BY <1>1, ElsewhereToken DEF End

LEMMA GotoToken ==
  ASSUME TokenInv, UNCHANGED sessionVars, NEW c \in Calls, NEW l \in Places, Goto(c, l),
         call[c].at \notin {"idle", "drop", "delete", "issue"}, l \notin {"drop", "delete"}
  PROVE  TokenInv'
<1> DEFINE w == [call[c] EXCEPT !.at = l]
<1>1. w \in Work /\ w.at = l /\ w.op = call[c].op /\ w.who = call[c].who
  BY DEF TokenInv, TokenType, Work
<1>2. w.op # "rotate" /\ w.who \in Users
  BY <1>1 DEF TokenInv, PlaceInv, At
<1>3. call' = [call EXCEPT ![c] = w]
  BY DEF Goto, TokenInv, TokenType
<1> QED BY <1>1, <1>2, <1>3, ElsewhereToken

LEMMA BeginToken ==
  ASSUME TokenInv, NEW c \in Calls, NEW op \in Ops, NEW a \in Users, NEW f,
         NEW l \in Places \cup {"refused"}, Begin(c, op, a, f, l), op # "rotate", l \notin {"drop", "delete"}
  PROVE  TokenInv'
<1> DEFINE w == [op |-> op, at |-> l, who |-> a, token |-> Nobody]
<1>1. l # "refused" => w \in Work
  BY DEF Work
<1>2. UNCHANGED sessionVars
  BY DEF Begin, sessionVars
<1>3. CASE l = "refused"
  BY <1>2, <1>3, UnchangedToken DEF Begin
<1>4. CASE l # "refused"
  BY <1>1, <1>2, <1>4, ElsewhereToken DEF Begin
<1> QED BY <1>3, <1>4

-----------------------------------------------------------------------------
(* The steps of Session *)

LEMMA FindToken ==
  ASSUME TokenInv, NEW c \in Calls, NEW t \in Issued, FindSession(c, t)
  PROVE  TokenInv'
<1> DEFINE w == [op |-> "rotate", at |-> IF t \in expired THEN "drop" ELSE "delete",
                 who |-> holder[t], token |-> t]
<1>1. UNCHANGED sessionVars
  BY DEF FindSession, sessionVars
<1>2. CASE UNCHANGED call
  BY <1>1, <1>2, UnchangedToken
<1>3. CASE call' = [call EXCEPT ![c] = w]
  <2>1. t \in Tokens /\ holder[t] \in Users
    BY DEF Issued, TokenInv, TokenType
  <2>2. w \in Work /\ w.op = "rotate" /\ w.at \in {"drop", "delete"} /\ w.token = t
        /\ w.who \in Users
    BY <2>1 DEF Work, Ops, Places
  <2>3. /\ TokenType' /\ Issued' = Issued
        /\ \A d \in Calls : d # c => call'[d] = call[d]
        /\ call'[c] = w
    BY <1>1, <1>3, <2>2 DEF TokenInv, TokenType, sessionVars, Issued
  <2>4. ChainInv' /\ OneLiveToken' /\ LogoutEndsChain'
    BY <1>1, <2>3 DEF TokenInv, ChainInv, OneLiveToken, LogoutEndsChain, sessionVars
  <2>5. PlaceInv'
    BY <2>2, <2>3 DEF TokenInv, PlaceInv, At
  <2>6. \A d \in Calls : Issuing(d)' => Issuing(d) /\ call'[d] = call[d]
    BY <2>2, <2>3 DEF Issuing, At
  <2>7. HandOver'
    BY <1>1, <2>6 DEF TokenInv, HandOver, sessionVars
  <2> QED BY <2>3, <2>4, <2>5, <2>7 DEF TokenInv
<1> QED BY <1>2, <1>3 DEF FindSession

\* Fewer tokens that work, and nothing else.
LEMMA FewerToken ==
  ASSUME TokenInv, UNCHANGED <<holder, chain, ended, call>>, sessions' \subseteq sessions
  PROVE  TokenInv'
BY DEF TokenInv, TokenType, ChainInv, PlaceInv, HandOver, OneLiveToken, LogoutEndsChain,
       Issued, Issuing, At

LEMMA DropToken ==
  ASSUME TokenInv, NEW c \in Calls, DropExpired(c)
  PROVE  TokenInv'
<1>1. Idle \in Work /\ Idle.op = "none" /\ Idle.at = "idle"
  BY DEF Idle, Work, Ops, Places
<1>2. /\ sessions' \subseteq sessions /\ UNCHANGED <<holder, chain, ended>>
      /\ Issued' = Issued
      /\ \A d \in Calls : d # c => call'[d] = call[d]
      /\ call'[c] = Idle
  BY DEF DropExpired, End, TokenInv, TokenType, Issued
<1>3. TokenType'
  BY <1>1, <1>2 DEF TokenInv, TokenType, DropExpired, End
<1>4. ChainInv' /\ OneLiveToken' /\ LogoutEndsChain'
  BY <1>2 DEF TokenInv, ChainInv, OneLiveToken, LogoutEndsChain
<1>5. PlaceInv'
  BY <1>1, <1>2 DEF TokenInv, PlaceInv, At
<1>6. \A d \in Calls : Issuing(d)' => Issuing(d) /\ call'[d] = call[d]
  BY <1>1, <1>2 DEF Issuing, At
<1>7. HandOver'
  BY <1>2, <1>6 DEF TokenInv, HandOver
<1> QED BY <1>3, <1>4, <1>5, <1>7 DEF TokenInv

\* The one that deletes the row takes the chain over.
LEMMA DeleteToken ==
  ASSUME TokenInv, NEW c \in Calls, DeleteSession(c)
  PROVE  TokenInv'
<1> DEFINE t == call[c].token
           w == [call[c] EXCEPT !.at = "issue"]
<1>1. call[c].op = "rotate" /\ t \in Issued /\ call[c] \in Work /\ call[c].who \in Users
  BY DEF DeleteSession, TokenInv, TokenType, PlaceInv, At
<1>2. CASE t \notin sessions
  <2>1. UNCHANGED sessionVars /\ End(c)
    BY <1>2 DEF DeleteSession, sessionVars
  <2> QED BY <2>1, EndToken
<1>3. CASE t \in sessions
  <2>1. w \in Work /\ w.op = "rotate" /\ w.at = "issue" /\ w.token = t /\ w.who \in Users
    BY <1>1 DEF Work, Places
  <2>2. /\ sessions' = sessions \ {t} /\ UNCHANGED <<holder, chain, ended>>
        /\ Issued' = Issued
        /\ call' = [call EXCEPT ![c] = w]
        /\ \A d \in Calls : d # c => call'[d] = call[d]
        /\ call'[c] = w
    BY <1>3 DEF DeleteSession, Goto, TokenInv, TokenType, Issued
  <2>3. TokenType'
    BY <2>1, <2>2 DEF TokenInv, TokenType
  <2>4. ChainInv' /\ OneLiveToken' /\ LogoutEndsChain'
    BY <2>2 DEF TokenInv, ChainInv, OneLiveToken, LogoutEndsChain
  <2>5. PlaceInv'
    BY <1>1, <2>1, <2>2 DEF TokenInv, PlaceInv, At
  <2>6. \A u \in sessions' : chain[u] # chain[t]
    BY <1>3, <2>2 DEF TokenInv, OneLiveToken
  <2>7. chain[t] \notin ended
    BY <1>3 DEF TokenInv, LogoutEndsChain
  <2>8. \A d \in Calls : d # c /\ Issuing(d)' =>
          Issuing(d) /\ call'[d] = call[d] /\ chain[call[d].token] # chain[t]
    BY <1>3, <2>2 DEF TokenInv, HandOver, Issuing, At
  <2>9. HandOver'
    BY <2>1, <2>2, <2>6, <2>7, <2>8 DEF TokenInv, HandOver
  <2> QED BY <2>3, <2>4, <2>5, <2>9 DEF TokenInv
<1> QED BY <1>2, <1>3

\* The new token continues the chain handed over, or begins a chain that no
\* token is in yet.
LEMMA IssueToken ==
  ASSUME TokenInv, NEW c \in Calls, IssueTokens(c)
  PROVE  TokenInv'
<1> PICK t \in Tokens \ Issued :
      /\ At(c, "issue")
      /\ sessions' = sessions \cup {t}
      /\ holder' = [holder EXCEPT ![t] = call[c].who]
      /\ chain'  = [chain EXCEPT ![t] = ChainOf(c, t)]
      /\ End(c) /\ UNCHANGED ended
  BY DEF IssueTokens
<1> DEFINE new == ChainOf(c, t)
<1>1. Idle \in Work /\ Idle.op = "none" /\ Idle.at = "idle"
  BY DEF Idle, Work, Ops, Places
<1>2. call[c].who \in Users /\ call[c].who # Nobody
  BY AsksAssumption DEF TokenInv, PlaceInv, At
<1>3. /\ \A d \in Calls : d # c => call'[d] = call[d]
      /\ call'[c] = Idle
  BY DEF End, TokenInv, TokenType
<1>4. /\ Issued' = Issued \cup {t}
      /\ new \in Issued'
      /\ \A u \in Issued : chain'[u] = chain[u] /\ chain[u] # t
      /\ chain'[t] = new
  <2>1. Issued' = Issued \cup {t}
    BY <1>2 DEF Issued, TokenInv, TokenType
  <2>2. new \in Issued'
    BY <2>1 DEF ChainOf, TokenInv, PlaceInv, ChainInv
  <2>3. \A u \in Issued : u # t /\ u \in Tokens /\ chain[u] \in Issued /\ chain[u] # t
    BY DEF TokenInv, ChainInv, Issued
  <2>4. (\A u \in Issued : chain'[u] = chain[u]) /\ chain'[t] = new
    BY <2>3 DEF TokenInv, TokenType
  <2> QED BY <2>1, <2>2, <2>3, <2>4
<1>5. (\A u \in sessions : chain[u] # new) /\ new \notin ended
  <2>1. CASE call[c].op = "rotate"
    BY <2>1 DEF ChainOf, TokenInv, HandOver, Issuing
  <2>2. CASE call[c].op # "rotate"
    BY <2>2, <1>4 DEF ChainOf, TokenInv, TokenType
  <2> QED BY <2>1, <2>2
<1>6. TokenType'
  <2>1. new \in Tokens
    BY <1>4 DEF Issued
  <2>2. holder' \in [Tokens -> Users \cup {Nobody}] /\ chain' \in [Tokens -> Tokens \cup {Nobody}]
    BY <1>2, <2>1 DEF TokenInv, TokenType
  <2>3. call' \in [Calls -> Work]
    BY <1>1 DEF End, TokenInv, TokenType
  <2> QED BY <1>4, <2>2, <2>3 DEF TokenInv, TokenType
<1>7. ChainInv'
  BY <1>4 DEF TokenInv, ChainInv
<1>8. OneLiveToken' /\ LogoutEndsChain'
  BY <1>4, <1>5 DEF TokenInv, TokenType, OneLiveToken, LogoutEndsChain
<1>9. PlaceInv'
  BY <1>1, <1>3, <1>4 DEF TokenInv, PlaceInv, At
<1>10. \A d \in Calls : Issuing(d)' =>
         /\ Issuing(d) /\ d # c /\ call'[d] = call[d] /\ call[d].token \in Issued
         /\ chain'[call[d].token] = chain[call[d].token]
  BY <1>1, <1>3, <1>4 DEF Issuing, At, TokenInv, PlaceInv
<1>11. \A d \in Calls : Issuing(d)' => chain[call[d].token] # new
  <2> SUFFICES ASSUME NEW d \in Calls, Issuing(d)', chain[call[d].token] = new
               PROVE  FALSE
    OBVIOUS
  <2>1. CASE call[c].op = "rotate"
    BY <2>1, <1>10 DEF ChainOf, TokenInv, HandOver, Issuing
  <2>2. CASE call[c].op # "rotate"
    BY <2>2, <1>4, <1>10 DEF ChainOf
  <2> QED BY <2>1, <2>2
<1>12. HandOver'
  BY <1>4, <1>10, <1>11 DEF TokenInv, TokenType, HandOver
<1> QED BY <1>6, <1>7, <1>8, <1>9, <1>12 DEF TokenInv

\* The token that works is given up, and with it the chain: no rotation holds it.
LEMMA RevokeToken ==
  ASSUME TokenInv, NEW t \in Tokens, RevokeSession(t)
  PROVE  TokenInv'
<1>1. CASE t \notin sessions
  BY <1>1, FewerToken DEF RevokeSession
<1>2. CASE t \in sessions
  <2>1. /\ sessions' = sessions \ {t} /\ ended' = ended \cup {chain[t]}
        /\ UNCHANGED <<holder, chain, call>> /\ Issued' = Issued
    BY <1>2 DEF RevokeSession, Issued
  <2>2. TokenType' /\ ChainInv' /\ PlaceInv'
    BY <1>2, <2>1 DEF TokenInv, TokenType, ChainInv, PlaceInv, At
  <2>3. OneLiveToken' /\ LogoutEndsChain'
    BY <1>2, <2>1 DEF TokenInv, OneLiveToken, LogoutEndsChain
  <2>4. HandOver'
    BY <1>2, <2>1 DEF TokenInv, HandOver, Issuing, At
  <2> QED BY <2>2, <2>3, <2>4 DEF TokenInv
<1> QED BY <1>1, <1>2

LEMMA SessionToken ==
  ASSUME TokenInv, SessionNext
  PROVE  TokenInv'
<1>1. ASSUME NEW c \in Calls, NEW t \in Issued, FindSession(c, t)
      PROVE  TokenInv'
  BY <1>1, FindToken
<1>2. ASSUME NEW c \in Calls, Lose(c)
      PROVE  TokenInv'
  BY <1>2, EndToken DEF Lose, sessionVars
<1>3. ASSUME NEW t \in Tokens, ExpireToken(t)
      PROVE  TokenInv'
  BY <1>3, FewerToken DEF ExpireToken
<1> QED BY <1>1, <1>2, <1>3, DropToken, DeleteToken, IssueToken, RevokeToken DEF SessionNext

-----------------------------------------------------------------------------
(* The other steps of SignIn *)

\* A Google account is linked to a user.
LinkInv == linked \in [Subs -> Users \cup {Nobody}]

LEMMA LinkStep ==
  ASSUME TokenInv, LinkInv, [Next]_vars
  PROVE  LinkInv'
<1>1. CASE UNCHANGED linked
  BY <1>1 DEF LinkInv
<1>2. ASSUME NEW c \in Calls, LinkGoogle(c) \/ CreateUser(c)
      PROVE  LinkInv'
  BY <1>2 DEF LinkGoogle, CreateUser, LinkInv, Who, TokenInv, PlaceInv, At
<1>3. [Next]_vars => UNCHANGED linked \/ \E c \in Calls : LinkGoogle(c) \/ CreateUser(c)
  BY DEF Next, vars, accountVars, SendOtp, ExpireCode, SignInNext, VerifyOtp, Register, Login,
         GoogleSignIn, CountAttempt, MarkVerified, FindUser, CountUsersOnDevice, FindByEmail,
         ShouldGrantSignupBonus, Track, RecordReward
<1> QED BY <1>1, <1>2, <1>3

\* A request comes in for a user of ours.
LEMMA EntryToken ==
  ASSUME TokenInv, LinkInv, NEW c \in Calls, NEW d \in SomeDevice,
         \/ \E p \in Phones : \E k \in 0..Len(codes[p]) : VerifyOtp(c, p, k, d)
         \/ \E e \in Emails : \/ Register(c, e, d) \/ Login(c, e, d)
                              \/ \E s \in Subs : GoogleSignIn(c, s, e, d)
  PROVE  TokenInv'
<1>1. ASSUME NEW op \in {"otp", "register", "login", "google"}, NEW a \in Users,
             NEW l \in {"attempt", "grant", "track", "email", "refused"},
             \E f : Begin(c, op, a, f, l)
      PROVE  TokenInv'
  BY <1>1, BeginToken DEF Ops, Places
<1>2. ASSUME NEW p \in Phones, NEW k \in 0..Len(codes[p]), VerifyOtp(c, p, k, d)
      PROVE  TokenInv'
  BY <1>1, <1>2, SignInAssumption DEF VerifyOtp
<1>3. ASSUME NEW e \in Emails, Register(c, e, d) \/ Login(c, e, d)
      PROVE  TokenInv'
  BY <1>1, <1>3, SignInAssumption DEF Register, Login
<1>4. ASSUME NEW e \in Emails, NEW s \in Subs, GoogleSignIn(c, s, e, d)
      PROVE  TokenInv'
  <2>1. \/ linked[s] \in Users /\ \E f : Begin(c, "google", linked[s], f, "track")
        \/ \E f : Begin(c, "google", e, f, "email")
    BY <1>4 DEF GoogleSignIn, LinkInv
  <2> QED BY <1>1, <2>1, SignInAssumption
<1> QED BY <1>2, <1>3, <1>4

\* A sign-in goes on to a place that is not a rotation's, or ends.
LEMMA OnwardToken ==
  ASSUME TokenInv, NEW c \in Calls,
         \/ CountAttempt(c) \/ MarkVerified(c) \/ FindUser(c) \/ CountUsersOnDevice(c)
         \/ FindByEmail(c) \/ LinkGoogle(c)
         \/ ShouldGrantSignupBonus(c) \/ CreateUser(c) \/ Track(c) \/ RecordReward(c)
  PROVE  TokenInv'
<1>1. call[c].at \in {"attempt", "mark", "user", "device", "email", "link", "grant",
                      "create", "track", "record"}
  BY DEF CountAttempt, MarkVerified, FindUser, CountUsersOnDevice, FindByEmail, LinkGoogle,
         ShouldGrantSignupBonus, CreateUser, Track, RecordReward, At
<1>2. UNCHANGED sessionVars
  BY DEF CountAttempt, MarkVerified, FindUser, CountUsersOnDevice, FindByEmail, LinkGoogle,
         ShouldGrantSignupBonus, CreateUser, Track, RecordReward, Rest, sessionVars
<1>3. End(c) \/ \E l \in {"mark", "user", "device", "grant", "create", "track", "record",
                          "link", "issue"} : Goto(c, l)
  BY DEF CountAttempt, MarkVerified, FindUser, CountUsersOnDevice, FindByEmail, LinkGoogle,
         ShouldGrantSignupBonus, CreateUser, Track, RecordReward
<1> QED BY <1>1, <1>2, <1>3, EndToken, GotoToken DEF Places

LEMMA StepToken ==
  ASSUME TokenInv, LinkInv, [Next]_vars
  PROVE  TokenInv'
<1>1. CASE SessionNext
  BY <1>1, SessionToken
<1>2. ASSUME NEW a \in Known, SoftDelete(a)
      PROVE  TokenInv'
  BY <1>2, UnchangedToken DEF SoftDelete, sessionVars
<1>3. ASSUME NEW p \in Phones, SendOtp(p) \/ \E k \in DOMAIN codes[p] : ExpireCode(p, k)
      PROVE  TokenInv'
  BY <1>3, UnchangedToken DEF SendOtp, ExpireCode
<1>4. ASSUME NEW c \in Calls, SignInNext(c)
      PROVE  TokenInv'
  BY <1>4, EntryToken, OnwardToken DEF SignInNext
<1>5. CASE UNCHANGED vars
  BY <1>5, UnchangedToken DEF vars, sessionVars
<1> QED BY <1>1, <1>2, <1>3, <1>4, <1>5 DEF Next

\* Whatever overlaps, one token of a chain works (token.service.ts 74-131).
THEOREM OneTokenPerChain == Spec => []OneLiveToken
<1>1. Init => TokenInv /\ LinkInv
  BY InitToken DEF Init, LinkInv
<1>2. TokenInv /\ LinkInv /\ [Next]_vars => (TokenInv /\ LinkInv)'
  BY StepToken, LinkStep
<1>3. TokenInv => OneLiveToken
  BY DEF TokenInv
<1> QED BY <1>1, <1>2, <1>3, PTL DEF Spec

\* No rotation brings back what a logout has ended (token.service.ts 105, 128-131).
THEOREM LogoutIsFinal == Spec => []LogoutEndsChain
<1>1. Init => TokenInv /\ LinkInv
  BY InitToken DEF Init, LinkInv
<1>2. TokenInv /\ LinkInv /\ [Next]_vars => (TokenInv /\ LinkInv)'
  BY StepToken, LinkStep
<1>3. TokenInv => LogoutEndsChain
  BY DEF TokenInv
<1> QED BY <1>1, <1>2, <1>3, PTL DEF Spec

-----------------------------------------------------------------------------
(* The attempts at a code *)

Code == [attempts : Nat, state : {"open", "verified", "expired"}, used : Nat]
Form == [device : SomeDevice, sub : Subs \cup {Nobody}, code : Nat, row : Nat,
         new : BOOLEAN, grant : BOOLEAN]

CodeType == codes \in [Phones -> Seq(Code)] /\ form \in [Calls -> Form]

\* A request is about to count its attempt or to mark the code used.
Checking(c) == At(c, "attempt") \/ At(c, "mark")

\* The requests that have read the counter of code k and not yet raised it.
Trying(p, k) == {c \in Calls : At(c, "attempt") /\ Who(c) = p /\ form[c].row = k}

TryInv ==
  /\ CodeType
  /\ \A c \in Calls : Checking(c) =>
       Who(c) \in Phones /\ form[c].row \in DOMAIN codes[Who(c)]
  /\ \A p \in Phones : \A k \in DOMAIN codes[p] :
       codes[p][k].attempts + Cardinality(Trying(p, k)) < MaxAttempts + Cardinality(Calls)

LEMMA TryingFinite ==
  ASSUME NEW p, NEW k
  PROVE  /\ IsFiniteSet(Trying(p, k)) /\ Cardinality(Trying(p, k)) \in Nat
         /\ Cardinality(Calls) \in Nat /\ Cardinality(Trying(p, k)) <= Cardinality(Calls)
<1>1. Trying(p, k) \subseteq Calls
  BY DEF Trying
<1> QED BY <1>1, FS_Subset, FS_CardinalityType, SignInAssumption

LEMMA CodeAt ==
  ASSUME CodeType, NEW p \in Phones, NEW k \in DOMAIN codes[p]
  PROVE  codes[p][k] \in Code /\ codes[p][k].attempts \in Nat
<1>1. codes[p] \in Seq(Code)
  BY DEF CodeType
<1>2. codes[p][k] \in Code
  BY <1>1
<1> QED BY <1>2 DEF Code

\* Where no attempt is counted, no code made and no request begins to try, the
\* bound stays.
LEMMA FewerTries ==
  ASSUME TryInv, CodeType',
         \A p \in Phones :
           /\ DOMAIN codes'[p] = DOMAIN codes[p]
           /\ \A k \in DOMAIN codes[p] : codes'[p][k].attempts = codes[p][k].attempts,
         \A c \in Calls : Checking(c)' =>
           /\ Checking(c) /\ (At(c, "attempt")' => At(c, "attempt"))
           /\ Who(c)' = Who(c) /\ form'[c].row = form[c].row
  PROVE  TryInv'
<1>1. \A c \in Calls : Checking(c)' =>
        Who(c)' \in Phones /\ form'[c].row \in DOMAIN codes'[Who(c)']
  BY DEF TryInv
<1>2. ASSUME NEW p \in Phones, NEW k \in DOMAIN codes'[p]
      PROVE  codes'[p][k].attempts + Cardinality(Trying(p, k)') < MaxAttempts + Cardinality(Calls)
  <2>1. Trying(p, k)' \subseteq Trying(p, k)
    BY DEF Trying, Checking
  <2>2. /\ Cardinality(Trying(p, k)') \in Nat
        /\ Cardinality(Trying(p, k)') <= Cardinality(Trying(p, k))
    BY <2>1, FS_Subset, FS_CardinalityType, TryingFinite
  <2>3. codes[p][k].attempts \in Nat
    BY <1>2, CodeAt DEF TryInv
  <2> QED BY <1>2, <2>2, <2>3, TryingFinite, SignInAssumption DEF TryInv
<1> QED BY <1>1, <1>2 DEF TryInv

\* The steps that leave the codes and the forms alone.
LEMMA CallTries ==
  ASSUME TokenInv, TryInv, UNCHANGED <<codes, form>>,
         \A c \in Calls : Checking(c)' => call'[c] = call[c]
  PROVE  TryInv'
<1>1. CodeType'
  BY DEF TryInv, CodeType
<1>2. \A c \in Calls : Checking(c)' =>
        /\ Checking(c) /\ (At(c, "attempt")' => At(c, "attempt"))
        /\ Who(c)' = Who(c) /\ form'[c].row = form[c].row
  BY DEF Checking, At, Who
<1> QED BY <1>1, <1>2, FewerTries

LEMMA EndTries ==
  ASSUME TokenInv, NEW c \in Calls,
         End(c) \/ \E l \in Places \ {"attempt", "mark"} : Goto(c, l)
  PROVE  \A d \in Calls : Checking(d)' => call'[d] = call[d]
<1>1. Idle.at = "idle"
  BY DEF Idle
<1> QED BY <1>1 DEF End, Goto, Checking, At, TokenInv, TokenType, Work

LEMMA SessionTries ==
  ASSUME TokenInv, TryInv, SessionNext, UNCHANGED <<codes, form>>
  PROVE  TryInv'
<1>1. ASSUME NEW c \in Calls, NEW t \in Issued, FindSession(c, t)
      PROVE  \A d \in Calls : Checking(d)' => call'[d] = call[d]
  BY <1>1 DEF FindSession, Checking, At, TokenInv, TokenType
<1>2. ASSUME NEW c \in Calls,
             DropExpired(c) \/ DeleteSession(c) \/ IssueTokens(c) \/ Lose(c)
      PROVE  End(c) \/ Goto(c, "issue")
  BY <1>2 DEF DropExpired, DeleteSession, IssueTokens, Lose
<1>3. ASSUME NEW t \in Tokens, RevokeSession(t) \/ ExpireToken(t)
      PROVE  UNCHANGED call
  BY <1>3 DEF RevokeSession, ExpireToken
<1>4. \A d \in Calls : Checking(d)' => call'[d] = call[d]
  BY <1>1, <1>2, <1>3, EndTries DEF SessionNext, Places, Checking, At
<1> QED BY <1>4, CallTries

\* A new code has not been tried, and no request tries it.
LEMMA SendTries ==
  ASSUME TokenInv, TryInv, NEW p \in Phones, SendOtp(p)
  PROVE  TryInv'
<1> DEFINE new == [attempts |-> 0, state |-> "open", used |-> 0]
<1>1. new \in Code /\ new.attempts = 0
  BY DEF Code
<1>2. codes[p] \in Seq(Code) /\ codes' = [codes EXCEPT ![p] = Append(codes[p], new)]
      /\ UNCHANGED <<call, form>>
  BY DEF SendOtp, TryInv, CodeType
<1> HIDE DEF new
<1>3. /\ Append(codes[p], new) \in Seq(Code)
      /\ DOMAIN Append(codes[p], new) = 1..(Len(codes[p]) + 1)
      /\ DOMAIN codes[p] = 1..Len(codes[p]) /\ Len(codes[p]) \in Nat
      /\ \A k \in 1..(Len(codes[p]) + 1) :
           Append(codes[p], new)[k] = IF k = Len(codes[p]) + 1 THEN new ELSE codes[p][k]
  BY <1>1, <1>2
<1>4. CodeType'
  BY <1>2, <1>3 DEF TryInv, CodeType
<1>5. \A q \in Phones : codes'[q] = IF q = p THEN Append(codes[p], new) ELSE codes[q]
  BY <1>2 DEF TryInv, CodeType
<1>6. \A q, k : Trying(q, k)' = Trying(q, k)
  BY <1>2 DEF Trying, At, Who
<1>7. \A c \in Calls : Checking(c)' =>
        Who(c)' \in Phones /\ form'[c].row \in DOMAIN codes'[Who(c)']
  BY <1>2, <1>3, <1>5 DEF TryInv, Checking, At, Who
<1>8. ASSUME NEW q \in Phones, NEW k \in DOMAIN codes'[q]
      PROVE  codes'[q][k].attempts + Cardinality(Trying(q, k)') < MaxAttempts + Cardinality(Calls)
  <2>1. CASE q = p /\ k = Len(codes[p]) + 1
    <3>1. codes'[q][k].attempts = 0
      BY <1>1, <1>3, <1>5, <2>1
    <3> QED BY <1>6, <3>1, TryingFinite, SignInAssumption
  <2>2. CASE ~(q = p /\ k = Len(codes[p]) + 1)
    <3>1. CASE q = p
      <4>1. k \in 1..(Len(codes[p]) + 1) /\ k # Len(codes[p]) + 1
        BY <1>3, <1>5, <1>8, <2>2, <3>1
      <4>2. k \in DOMAIN codes[p]
        BY <1>3, <4>1
      <4>3. codes'[p][k] = codes[p][k]
        BY <1>3, <1>5, <4>1
      <4> QED BY <1>6, <3>1, <4>2, <4>3 DEF TryInv
    <3>2. CASE q # p
      BY <1>5, <1>6, <1>8, <3>2 DEF TryInv
    <3> QED BY <3>1, <3>2
  <2> QED BY <2>1, <2>2
<1> QED BY <1>4, <1>7, <1>8 DEF TryInv

\* Requests that begin with something else than a code.
LEMMA EntryTries ==
  ASSUME TokenInv, TryInv, NEW c \in Calls, NEW op, NEW a, NEW f \in Form,
         NEW l, l \notin {"attempt", "mark"}, Begin(c, op, a, f, l), UNCHANGED codes
  PROVE  TryInv'
<1>1. CodeType'
  BY DEF Begin, TryInv, CodeType
<1>2. \A d \in Calls : Checking(d)' =>
        /\ Checking(d) /\ (At(d, "attempt")' => At(d, "attempt"))
        /\ Who(d)' = Who(d) /\ form'[d].row = form[d].row
  BY DEF Begin, Checking, At, Who, TokenInv, TokenType, TryInv, CodeType
<1> QED BY <1>1, <1>2, FewerTries

LEMMA BlankForm ==
  ASSUME NEW d \in SomeDevice
  PROVE  /\ \A s \in Subs : [Blank EXCEPT !.device = d, !.sub = s] \in Form
         /\ [Blank EXCEPT !.device = d] \in Form
         /\ \A k, r \in Nat : LET f == [Blank EXCEPT !.device = d, !.code = k]
                              IN f \in Form /\ [f EXCEPT !.row = r] \in Form
BY DEF Blank, Form, SomeDevice

\* The request that begins to try has seen a counter below the limit.
LEMMA VerifyTries ==
  ASSUME TokenInv, TryInv, NEW c \in Calls, NEW p \in Phones, NEW d \in SomeDevice,
         NEW k \in 0..Len(codes[p]), VerifyOtp(c, p, k, d)
  PROVE  TryInv'
<1> DEFINE f == [Blank EXCEPT !.device = d, !.code = k]
<1>1. codes[p] \in Seq(Code) /\ Len(codes[p]) \in Nat /\ k \in Nat
      /\ DOMAIN codes[p] = 1..Len(codes[p])
  BY DEF TryInv, CodeType
<1>2. f \in Form /\ \A r \in Nat : [f EXCEPT !.row = r] \in Form
  BY <1>1, BlankForm
<1>3. CASE Begin(c, "otp", p, f, "refused")
  <2>1. UNCHANGED codes
    BY DEF VerifyOtp, accountVars
  <2> HIDE DEF f
  <2> QED BY <1>2, <1>3, <2>1, EntryTries
<1>4. ASSUME NEW newest \in Newest(p), HasAttempts(codes[p][newest]),
             Begin(c, "otp", p, [f EXCEPT !.row = newest], "attempt")
      PROVE  TryInv'
  <2>1. newest \in DOMAIN codes[p] /\ newest \in Nat
    BY <1>1 DEF Newest, OpenCodes
  <2> DEFINE g == [f EXCEPT !.row = newest]
  <2>2. g \in Form /\ g.row = newest
    BY <1>2, <2>1 DEF Form
  <2>3. /\ call' = [call EXCEPT ![c] = [op |-> "otp", at |-> "attempt", who |-> p,
                                        token |-> Nobody]]
        /\ form' = [form EXCEPT ![c] = g]
        /\ UNCHANGED codes
    BY <1>4 DEF Begin, VerifyOtp, accountVars
  <2> HIDE DEF g
  <2>4. \A e \in Calls : /\ e # c => call'[e] = call[e] /\ form'[e] = form[e]
                         /\ call'[c].at = "attempt" /\ call'[c].who = p /\ form'[c].row = newest
    BY <2>2, <2>3 DEF TokenInv, TokenType, TryInv, CodeType
  <2>5. CodeType'
    BY <2>2, <2>3 DEF TryInv, CodeType
  <2>6. \A e \in Calls : Checking(e)' =>
          Who(e)' \in Phones /\ form'[e].row \in DOMAIN codes'[Who(e)']
    BY <2>1, <2>3, <2>4 DEF TryInv, Checking, At, Who
  <2>7. ASSUME NEW q \in Phones, NEW j \in DOMAIN codes'[q]
        PROVE  codes'[q][j].attempts + Cardinality(Trying(q, j)') < MaxAttempts + Cardinality(Calls)
    <3>1. codes[q][j].attempts \in Nat
      BY <2>3, <2>7, CodeAt DEF TryInv
    <3>2. CASE q = p /\ j = newest
      <4>1. codes[q][j].attempts < MaxAttempts
        BY <1>4, <3>2 DEF HasAttempts
      <4>2. Trying(q, j)' \subseteq Calls
        BY DEF Trying
      <4>3. /\ Cardinality(Trying(q, j)') \in Nat
            /\ Cardinality(Trying(q, j)') <= Cardinality(Calls)
        BY <4>2, FS_Subset, FS_CardinalityType, SignInAssumption
      <4>4. codes'[q][j].attempts = codes[q][j].attempts
        BY <2>3
      <4>5. Cardinality(Calls) \in Nat
        BY TryingFinite
      <4> QED BY <3>1, <4>1, <4>3, <4>4, <4>5, SignInAssumption
    <3>3. CASE ~(q = p /\ j = newest)
      <4>1. Trying(q, j)' \subseteq Trying(q, j)
        BY <2>4, <3>3 DEF Trying, At, Who
      <4>2. /\ Cardinality(Trying(q, j)') \in Nat
            /\ Cardinality(Trying(q, j)') <= Cardinality(Trying(q, j))
        BY <4>1, FS_Subset, FS_CardinalityType, TryingFinite
      <4>3. codes[q][j].attempts + Cardinality(Trying(q, j)) < MaxAttempts + Cardinality(Calls)
        BY <2>3, <2>7 DEF TryInv
      <4>4. codes'[q][j].attempts = codes[q][j].attempts
        BY <2>3
      <4>5. Cardinality(Trying(q, j)) \in Nat /\ Cardinality(Calls) \in Nat
        BY TryingFinite
      <4> QED BY <3>1, <4>2, <4>3, <4>4, <4>5, SignInAssumption
    <3> QED BY <3>2, <3>3
  <2> QED BY <2>5, <2>6, <2>7 DEF TryInv
<1> QED BY <1>3, <1>4 DEF VerifyOtp

LEMMA CountCode ==
  ASSUME NEW o \in Code
  PROVE  /\ [o EXCEPT !.attempts = @ + 1] \in Code
         /\ [o EXCEPT !.attempts = @ + 1].attempts = o.attempts + 1
BY DEF Code

\* What is counted has been one of those who try.
LEMMA CountTries ==
  ASSUME TokenInv, TryInv, NEW c \in Calls, CountAttempt(c)
  PROVE  TryInv'
<1> DEFINE p == Who(c)
           r == form[c].row
           new == [codes[p][r] EXCEPT !.attempts = @ + 1]
<1>1. p \in Phones /\ r \in DOMAIN codes[p] /\ c \in Trying(p, r)
  BY DEF CountAttempt, TryInv, Trying, Checking
<1>2. codes[p] \in Seq(Code) /\ codes[p][r] \in Code /\ codes[p][r].attempts \in Nat
  BY <1>1, CodeAt DEF TryInv, CodeType
<1>3. new \in Code /\ new.attempts = codes[p][r].attempts + 1
  BY <1>2, CountCode
<1>4. codes' = [codes EXCEPT ![p] = [codes[p] EXCEPT ![r] = new]] /\ UNCHANGED form
  BY <1>1, <1>2 DEF CountAttempt, TryInv, CodeType
<1> HIDE DEF new
<1>5. [codes[p] EXCEPT ![r] = new] \in Seq(Code)
  BY <1>1, <1>2, <1>3
<1>6. CodeType'
  BY <1>1, <1>4, <1>5 DEF TryInv, CodeType
<1>7. \A q \in Phones :
        /\ DOMAIN codes'[q] = DOMAIN codes[q]
        /\ \A k \in DOMAIN codes[q] :
             codes'[q][k] = IF q = p /\ k = r THEN new ELSE codes[q][k]
  BY <1>1, <1>2, <1>4 DEF TryInv, CodeType
<1>8. \A e \in Calls : /\ e # c => call'[e] = call[e]
                       /\ Who(c)' = Who(c) \/ ~Checking(c)'
                       /\ ~At(c, "attempt")'
  BY DEF CountAttempt, Goto, End, Idle, Checking, Who, At, TokenInv, TokenType, Work
<1>9. \A e \in Calls : Checking(e)' =>
        Who(e)' \in Phones /\ form'[e].row \in DOMAIN codes'[Who(e)']
  BY <1>1, <1>4, <1>7, <1>8 DEF TryInv, Checking, At, Who
<1>10. ASSUME NEW q \in Phones, NEW k \in DOMAIN codes'[q]
       PROVE  codes'[q][k].attempts + Cardinality(Trying(q, k)') < MaxAttempts + Cardinality(Calls)
  <2>1. Trying(q, k)' \subseteq Trying(q, k) \ {c}
    BY <1>4, <1>8 DEF Trying, At, Who
  <2>2. k \in DOMAIN codes[q] /\ codes[q][k].attempts \in Nat
    BY <1>7, <1>10, CodeAt DEF TryInv
  <2>3. codes[q][k].attempts + Cardinality(Trying(q, k)) < MaxAttempts + Cardinality(Calls)
    BY <2>2 DEF TryInv
  <2>4. CASE q = p /\ k = r
    <3>1. Cardinality(Trying(q, k) \ {c}) = Cardinality(Trying(q, k)) - 1
      BY <1>1, <2>4, FS_RemoveElement, TryingFinite
    <3>2. IsFiniteSet(Trying(q, k) \ {c})
      BY FS_Subset, TryingFinite
    <3>3. /\ Cardinality(Trying(q, k)') \in Nat
          /\ Cardinality(Trying(q, k)') <= Cardinality(Trying(q, k)) - 1
      BY <2>1, <3>1, <3>2, FS_Subset, FS_CardinalityType
    <3>4. codes'[q][k].attempts = codes[q][k].attempts + 1
      BY <1>3, <1>7, <2>2, <2>4
    <3> QED BY <2>2, <2>3, <3>3, <3>4, TryingFinite, SignInAssumption
  <2>5. CASE ~(q = p /\ k = r)
    <3>1. /\ Cardinality(Trying(q, k)') \in Nat
          /\ Cardinality(Trying(q, k)') <= Cardinality(Trying(q, k))
      BY <2>1, FS_Subset, FS_CardinalityType, TryingFinite
    <3>2. codes'[q][k].attempts = codes[q][k].attempts
      BY <1>7, <2>2, <2>5
    <3> QED BY <2>2, <2>3, <3>1, <3>2, TryingFinite, SignInAssumption
  <2> QED BY <2>4, <2>5
<1> QED BY <1>6, <1>9, <1>10 DEF TryInv

LEMMA MarkCode ==
  ASSUME NEW o \in Code
  PROVE  /\ [o EXCEPT !.state = "verified", !.used = @ + 1] \in Code
         /\ [o EXCEPT !.state = "verified", !.used = @ + 1].attempts = o.attempts
         /\ [o EXCEPT !.state = "verified", !.used = @ + 1].state = "verified"
         /\ [o EXCEPT !.state = "verified", !.used = @ + 1].used = o.used + 1
         /\ [o EXCEPT !.state = "expired"] \in Code
         /\ [o EXCEPT !.state = "expired"].attempts = o.attempts
<1>1. /\ [o EXCEPT !.state = "expired"] \in Code
      /\ [o EXCEPT !.state = "expired"].attempts = o.attempts
  BY DEF Code
<1> DEFINE n == [o EXCEPT !.state = "verified"]
<1>2. n \in Code /\ n.attempts = o.attempts /\ n.used = o.used /\ n.state = "verified"
  BY DEF Code
<1>3. [o EXCEPT !.state = "verified", !.used = @ + 1] = [n EXCEPT !.used = n.used + 1]
  BY <1>2 DEF Code
<1> HIDE DEF n
<1>4. /\ [n EXCEPT !.used = n.used + 1] \in Code
      /\ [n EXCEPT !.used = n.used + 1].attempts = o.attempts
      /\ [n EXCEPT !.used = n.used + 1].state = "verified"
      /\ [n EXCEPT !.used = n.used + 1].used = o.used + 1
  BY <1>2 DEF Code
<1> QED BY <1>1, <1>3, <1>4

\* A code is marked, as expired or as used; its attempts stay.
LEMMA MarkTries ==
  ASSUME TokenInv, TryInv, UNCHANGED form,
         NEW p \in Phones, NEW k \in DOMAIN codes[p], NEW o \in Code,
         o.attempts = codes[p][k].attempts,
         codes' = [codes EXCEPT ![p] = [codes[p] EXCEPT ![k] = o]],
         \A c \in Calls : Checking(c)' => call'[c] = call[c]
  PROVE  TryInv'
<1>1. codes[p] \in Seq(Code)
  BY DEF TryInv, CodeType
<1>2. [codes[p] EXCEPT ![k] = o] \in Seq(Code)
  BY <1>1
<1>3. CodeType'
  BY <1>2 DEF TryInv, CodeType
<1>4. \A q \in Phones :
        /\ DOMAIN codes'[q] = DOMAIN codes[q]
        /\ \A j \in DOMAIN codes[q] : codes'[q][j].attempts = codes[q][j].attempts
  BY <1>1 DEF TryInv, CodeType
<1>5. \A c \in Calls : Checking(c)' =>
        /\ Checking(c) /\ (At(c, "attempt")' => At(c, "attempt"))
        /\ Who(c)' = Who(c) /\ form'[c].row = form[c].row
  BY DEF Checking, At, Who
<1> QED BY <1>3, <1>4, <1>5, FewerTries

\* The steps of a sign-in after its first one.
LEMMA OnwardTries ==
  ASSUME TokenInv, TryInv, NEW c \in Calls,
         \/ CountAttempt(c) \/ MarkVerified(c) \/ FindUser(c) \/ CountUsersOnDevice(c)
         \/ FindByEmail(c) \/ LinkGoogle(c)
         \/ ShouldGrantSignupBonus(c) \/ CreateUser(c) \/ Track(c) \/ RecordReward(c)
  PROVE  TryInv'
<1>1. CASE CountAttempt(c)
  BY <1>1, CountTries
<1>2. CASE FindUser(c) \/ CountUsersOnDevice(c) \/ FindByEmail(c) \/ LinkGoogle(c)
           \/ Track(c) \/ RecordReward(c)
  <2>1. UNCHANGED <<codes, form>>
    BY <1>2 DEF FindUser, CountUsersOnDevice, FindByEmail, LinkGoogle, Track, RecordReward,
                accountVars
  <2>2. End(c) \/ \E l \in Places \ {"attempt", "mark"} : Goto(c, l)
    BY <1>2 DEF FindUser, CountUsersOnDevice, FindByEmail, LinkGoogle, Track, RecordReward,
                Places
  <2>3. \A d \in Calls : Checking(d)' => call'[d] = call[d]
    BY <2>2, EndTries DEF Places
  <2> QED BY <2>1, <2>3, CallTries
<1>3. CASE ShouldGrantSignupBonus(c) \/ CreateUser(c)
  <2>1. UNCHANGED codes
    BY <1>3 DEF ShouldGrantSignupBonus, CreateUser, accountVars
  <2>2. \/ UNCHANGED form
        \/ \E b \in BOOLEAN : \/ form' = [form EXCEPT ![c].grant = b]
                              \/ form' = [form EXCEPT ![c].new = b]
    BY <1>3 DEF ShouldGrantSignupBonus, CreateUser, Grants
  <2>3. form' \in [Calls -> Form] /\ \A d \in Calls : form'[d].row = form[d].row
    <3>1. \A d \in Calls, b \in BOOLEAN :
            /\ [form[d] EXCEPT !.grant = b] \in Form /\ [form[d] EXCEPT !.new = b] \in Form
            /\ [form[d] EXCEPT !.grant = b].row = form[d].row
            /\ [form[d] EXCEPT !.new = b].row = form[d].row
      BY DEF TryInv, CodeType, Form
    <3>2. ASSUME NEW b \in BOOLEAN, NEW g \in Form, g.row = form[c].row,
                 form' = [form EXCEPT ![c] = g]
          PROVE  form' \in [Calls -> Form] /\ \A d \in Calls : form'[d].row = form[d].row
      BY <3>2 DEF TryInv, CodeType
    <3> QED BY <2>2, <3>1, <3>2 DEF TryInv, CodeType
  <2>4. End(c) \/ \E l \in Places \ {"attempt", "mark"} : Goto(c, l)
    BY <1>3 DEF ShouldGrantSignupBonus, CreateUser, Places
  <2>5. \A d \in Calls : Checking(d)' => call'[d] = call[d]
    BY <2>4, EndTries DEF Places
  <2>6. CodeType'
    BY <2>1, <2>3 DEF TryInv, CodeType
  <2>7. \A d \in Calls : Checking(d)' =>
          /\ Checking(d) /\ (At(d, "attempt")' => At(d, "attempt"))
          /\ Who(d)' = Who(d) /\ form'[d].row = form[d].row
    BY <2>3, <2>5 DEF Checking, At, Who
  <2> QED BY <2>1, <2>6, <2>7, FewerTries
<1>4. CASE MarkVerified(c)
  <2> DEFINE p == Who(c)
             k == form[c].row
             o == [codes[p][k] EXCEPT !.state = "verified", !.used = @ + 1]
  <2>1. p \in Phones /\ k \in DOMAIN codes[p]
    BY <1>4 DEF MarkVerified, TryInv, Checking
  <2>2. o \in Code /\ o.attempts = codes[p][k].attempts
    BY <2>1, CodeAt, MarkCode DEF TryInv
  <2>3. codes' = [codes EXCEPT ![p] = [codes[p] EXCEPT ![k] = o]] /\ UNCHANGED form
    BY <1>4, <2>1 DEF MarkVerified, TryInv, CodeType
  <2>4. Goto(c, "user")
    BY <1>4 DEF MarkVerified
  <2>5. \A d \in Calls : Checking(d)' => call'[d] = call[d]
    BY <2>4, EndTries DEF Places
  <2> HIDE DEF o, p, k
  <2> QED BY <2>1, <2>2, <2>3, <2>5, MarkTries
<1> QED BY <1>1, <1>2, <1>3, <1>4

LEMMA ExpireTries ==
  ASSUME TokenInv, TryInv, NEW p \in Phones, NEW k \in DOMAIN codes[p], ExpireCode(p, k)
  PROVE  TryInv'
<1> DEFINE o == [codes[p][k] EXCEPT !.state = "expired"]
<1>1. o \in Code /\ o.attempts = codes[p][k].attempts
  BY CodeAt, MarkCode DEF TryInv
<1>2. codes' = [codes EXCEPT ![p] = [codes[p] EXCEPT ![k] = o]] /\ UNCHANGED <<call, form>>
  BY DEF ExpireCode, TryInv, CodeType
<1> HIDE DEF o
<1>3. \A c \in Calls : Checking(c)' => call'[c] = call[c]
  BY <1>2
<1> QED BY <1>1, <1>2, <1>3, MarkTries

LEMMA ComeInTries ==
  ASSUME TokenInv, TryInv, NEW c \in Calls, NEW d \in SomeDevice, NEW e \in Emails,
         Register(c, e, d) \/ Login(c, e, d) \/ \E s \in Subs : GoogleSignIn(c, s, e, d)
  PROVE  TryInv'
<1>1. ASSUME NEW op, NEW a, NEW f \in Form, NEW l \in {"grant", "track", "email", "refused"},
             Begin(c, op, a, f, l), UNCHANGED codes
      PROVE  TryInv'
  BY <1>1, EntryTries
<1>2. UNCHANGED codes
  BY DEF Register, Login, GoogleSignIn, accountVars
<1>3. ASSUME Register(c, e, d) \/ Login(c, e, d)
      PROVE  TryInv'
  <2> DEFINE f == [Blank EXCEPT !.device = d]
  <2>1. f \in Form
    BY BlankForm
  <2>2. \E op \in {"register", "login"}, l \in {"grant", "track", "refused"} :
          Begin(c, op, e, f, l)
    BY <1>3 DEF Register, Login
  <2> HIDE DEF f
  <2> QED BY <1>1, <1>2, <2>1, <2>2
<1>4. ASSUME NEW s \in Subs, GoogleSignIn(c, s, e, d)
      PROVE  TryInv'
  <2> DEFINE f == [Blank EXCEPT !.device = d, !.sub = s]
  <2>1. f \in Form
    BY BlankForm
  <2>2. Begin(c, "google", linked[s], f, "track") \/ Begin(c, "google", e, f, "email")
    BY <1>4 DEF GoogleSignIn
  <2> HIDE DEF f
  <2> QED BY <1>1, <1>2, <2>1, <2>2
<1> QED BY <1>3, <1>4

LEMMA InitTries ==
  ASSUME Init
  PROVE  TryInv
<1>1. Blank \in Form
  BY DEF Blank, Form, SomeDevice
<1>2. CodeType
  BY <1>1 DEF Init, CodeType
<1>3. \A c \in Calls : ~Checking(c)
  BY DEF Init, SessionInit, Checking, At, Idle
<1>4. \A p \in Phones : DOMAIN codes[p] = {}
  BY DEF Init
<1> QED BY <1>2, <1>3, <1>4 DEF TryInv

LEMMA StepTries ==
  ASSUME TokenInv, TryInv, [Next]_vars
  PROVE  TryInv'
<1>1. CASE SessionNext /\ UNCHANGED <<accountVars, form>>
  BY <1>1, SessionTries DEF accountVars
<1>2. ASSUME NEW a \in Known, SoftDelete(a) /\ UNCHANGED <<accountVars, form>>
      PROVE  TryInv'
  BY <1>2, CallTries DEF SoftDelete, accountVars
<1>3. ASSUME NEW p \in Phones, SendOtp(p)
      PROVE  TryInv'
  BY <1>3, SendTries
<1>4. ASSUME NEW p \in Phones, NEW k \in DOMAIN codes[p], ExpireCode(p, k)
      PROVE  TryInv'
  BY <1>4, ExpireTries
<1>5. ASSUME NEW c \in Calls, SignInNext(c)
      PROVE  TryInv'
  BY <1>5, VerifyTries, ComeInTries, OnwardTries DEF SignInNext
<1>6. CASE UNCHANGED vars
  BY <1>6, CallTries DEF vars
<1> QED BY <1>1, <1>2, <1>3, <1>4, <1>5, <1>6 DEF Next

\* However many requests guess at once, a code is tried at most as often as allowed
\* and once more for each of the others (otp.service.ts 117-125).
THEOREM GuessesAreBounded == Spec => []TriesBounded
<1>1. Init => TokenInv /\ LinkInv /\ TryInv
  BY InitToken, InitTries DEF Init, LinkInv
<1>2. TokenInv /\ LinkInv /\ TryInv /\ [Next]_vars => (TokenInv /\ LinkInv /\ TryInv)'
  BY StepToken, LinkStep, StepTries
<1>3. TryInv => TriesBounded
  <2>1. ASSUME TryInv, NEW p \in Phones, NEW k \in DOMAIN codes[p]
        PROVE  codes[p][k].attempts <= MaxAttempts + Cardinality(Calls) - 1
    <3>1. codes[p][k].attempts \in Nat
      BY <2>1, CodeAt DEF TryInv
    <3>2. codes[p][k].attempts + Cardinality(Trying(p, k)) < MaxAttempts + Cardinality(Calls)
      BY <2>1 DEF TryInv
    <3>3. Cardinality(Trying(p, k)) \in Nat /\ Cardinality(Calls) \in Nat
      BY TryingFinite
    <3> QED BY <3>1, <3>2, <3>3, SignInAssumption
  <2> QED BY <2>1 DEF TriesBounded
<1> QED BY <1>1, <1>2, <1>3, PTL DEF Spec

-----------------------------------------------------------------------------
(* One request at a time *)

\* While requests wait for each other, a code that is open has let nobody in,
\* and the one a request is trying is open; a bonus has been recorded, or the
\* request that paid it is about to, or was lost.
Alone == \A c, d \in Calls : ~At(c, "idle") /\ ~At(d, "idle") => c = d

UsedInv ==
  /\ \A p \in Phones : \A k \in DOMAIN codes[p] :
       codes[p][k].used <= 1 /\ (codes[p][k].state = "open" => codes[p][k].used = 0)
  /\ \A c \in Calls : Checking(c) => codes[Who(c)][form[c].row].state = "open"

Owing(c) == (At(c, "track") \/ At(c, "record")) /\ form[c].new /\ form[c].grant
Forgotten == {a \in bonus \ rewards : ~\E c \in Calls : Owing(c) /\ Who(c) = a}
BonusOn(d) == {a \in bonus : account[a].device = d}

BonusInv ==
  /\ DOMAIN account = Users /\ bonus \subseteq Known
  /\ IsFiniteSet(bonus) /\ IsFiniteSet(rewards)
  /\ faults \in Nat /\ Cardinality(Forgotten) <= faults
  /\ \A d \in Devices : Cardinality(BonusOn(d)) <= MaxPerDevice + faults
  /\ \A c \in Calls : At(c, "create") /\ form[c].grant /\ form[c].device # Nobody =>
       Cardinality(RewardsOn(form[c].device)) < MaxPerDevice

SoloInv == calm => Alone /\ UsedInv /\ BonusInv

LEMMA OneOrNone ==
  ASSUME NEW S, IsFiniteSet(S), NEW x
  PROVE  /\ IsFiniteSet(S \cup {x}) /\ Cardinality(S \cup {x}) \in Nat
         /\ Cardinality(S \cup {x}) <= Cardinality(S) + 1
<1>1. Cardinality(S) \in Nat
  BY FS_CardinalityType
<1>2. CASE x \in S
  <2>1. S \cup {x} = S
    BY <1>2
  <2>2. IsFiniteSet(S \cup {x}) /\ Cardinality(S \cup {x}) = Cardinality(S)
    BY <2>1, Zenon
  <2> QED BY <1>1, <2>2
<1>3. CASE x \notin S
  BY <1>1, <1>3, FS_AddElement
<1> QED BY <1>2, <1>3

\* Nobody is forgotten who was not before.
LEMMA ForgetsNone ==
  ASSUME BonusInv, faults' = faults, Forgotten' \subseteq Forgotten
  PROVE  faults' \in Nat /\ Cardinality(Forgotten') <= faults'
<1>1. Forgotten \subseteq bonus /\ IsFiniteSet(bonus)
  BY DEF Forgotten, BonusInv
<1>2. IsFiniteSet(Forgotten)
  BY <1>1, FS_Subset
<1>3. /\ Cardinality(Forgotten') <= Cardinality(Forgotten)
      /\ Cardinality(Forgotten') \in Nat /\ Cardinality(Forgotten) \in Nat
  BY <1>2, FS_Subset, FS_CardinalityType
<1> QED BY <1>3 DEF BonusInv

LEMMA OwesNone ==
  ASSUME BonusInv, UNCHANGED <<bonus, rewards, faults>>, \A c \in Calls : ~Owing(c)
  PROVE  faults' \in Nat /\ Cardinality(Forgotten') <= faults'
<1>1. Forgotten' \subseteq Forgotten
  BY DEF Forgotten
<1> QED BY <1>1, ForgetsNone

\* A request under way, or one that comes in, is the only one.
LEMMA SoloCall ==
  ASSUME TokenInv, Alone, NEW c \in Calls, NEW w, call' = [call EXCEPT ![c] = w],
         ~At(c, "idle") \/ Quiet
  PROVE  /\ Alone' /\ call'[c] = w
         /\ \A d \in Calls : d # c => call'[d] = call[d] /\ At(d, "idle") /\ At(d, "idle")'
<1>1. call'[c] = w /\ \A d \in Calls : d # c => call'[d] = call[d] /\ At(d, "idle")
  BY DEF TokenInv, TokenType, Alone, Quiet
<1> QED BY <1>1 DEF Alone, At

\* Nothing that counts here changes.
LEMMA StandSolo ==
  ASSUME SoloInv, UNCHANGED <<calm, call, form, codes, account, bonus, rewards, faults>>
  PROVE  SoloInv'
<1>1. Known' = Known /\ \A d : BonusOn(d)' = BonusOn(d) /\ RewardsOn(d)' = RewardsOn(d)
  BY DEF Known, BonusOn, RewardsOn
<1>2. Forgotten' = Forgotten
  BY DEF Forgotten, Owing, At, Who
<1> QED BY <1>1, <1>2 DEF SoloInv, Alone, UsedInv, BonusInv, Checking, At, Who

\* A request moves where it neither tries a code nor creates a user, from where
\* it owes nothing.
LEMMA MoveSolo ==
  ASSUME TokenInv, SoloInv, UNCHANGED <<calm, codes, account, bonus, rewards, faults>>,
         NEW c \in Calls, NEW w, call' = [call EXCEPT ![c] = w], calm /\ At(c, "idle") => Quiet,
         ~Owing(c), w.at \notin {"attempt", "mark", "create"},
         \A d \in Calls : d # c => form'[d] = form[d]
  PROVE  SoloInv'
<1> SUFFICES ASSUME calm
             PROVE  SoloInv'
  BY DEF SoloInv
<1>1. /\ Alone' /\ call'[c] = w
      /\ \A d \in Calls : d # c => call'[d] = call[d] /\ At(d, "idle") /\ At(d, "idle")'
  BY SoloCall DEF SoloInv
<1>2. UsedInv'
  <2>1. \A d \in Calls : ~Checking(d)'
    BY <1>1 DEF Checking, At
  <2> QED BY <2>1 DEF SoloInv, UsedInv
<1>3. BonusInv'
  <2>1. Known' = Known /\ \A d : BonusOn(d)' = BonusOn(d) /\ RewardsOn(d)' = RewardsOn(d)
    BY DEF Known, BonusOn, RewardsOn
  <2>2. \A d \in Calls : ~At(d, "create")' /\ ~Owing(d)
    BY <1>1 DEF At, Owing
  <2>3. faults' \in Nat /\ Cardinality(Forgotten') <= faults'
    BY <2>2, OwesNone DEF SoloInv
  <2> QED BY <2>1, <2>2, <2>3 DEF SoloInv, BonusInv
<1> QED BY <1>1, <1>2, <1>3 DEF SoloInv

\* A request that is lost forgets at most the bonus it owes.
LEMMA LoseSolo ==
  ASSUME TokenInv, SoloInv, NEW c \in Calls, Lose(c),
         UNCHANGED <<codes, account, bonus, rewards, form>>
  PROVE  SoloInv'
<1> SUFFICES ASSUME calm
             PROVE  SoloInv'
  BY DEF SoloInv, Lose
<1>1. /\ ~At(c, "idle") /\ faults' = faults + 1 /\ call' = [call EXCEPT ![c] = Idle]
      /\ UNCHANGED calm
  BY DEF Lose, End
<1>2. /\ Alone' /\ call'[c] = Idle
      /\ \A d \in Calls : d # c => call'[d] = call[d] /\ At(d, "idle") /\ At(d, "idle")'
  BY <1>1, SoloCall DEF SoloInv
<1>3. \A d \in Calls : At(d, "idle")'
  BY <1>2 DEF At, Idle
<1>4. UsedInv'
  BY <1>3 DEF SoloInv, UsedInv, Checking, At
<1>5. Forgotten' \subseteq Forgotten \cup {Who(c)}
  <2>1. \A d \in Calls : Owing(d) => d = c
    BY <1>2 DEF Owing, At
  <2> QED BY <2>1 DEF Forgotten
<1>6. /\ IsFiniteSet(Forgotten) /\ faults \in Nat
      /\ Cardinality(Forgotten) \in Nat /\ Cardinality(Forgotten) <= faults
  <2>1. Forgotten \subseteq bonus /\ IsFiniteSet(bonus)
    BY DEF Forgotten, SoloInv, BonusInv
  <2>2. IsFiniteSet(Forgotten)
    BY <2>1, FS_Subset
  <2> QED BY <2>2, FS_CardinalityType DEF SoloInv, BonusInv
<1>7. Cardinality(Forgotten') <= faults'
  <2>1. /\ IsFiniteSet(Forgotten \cup {Who(c)})
        /\ Cardinality(Forgotten \cup {Who(c)}) \in Nat
        /\ Cardinality(Forgotten \cup {Who(c)}) <= Cardinality(Forgotten) + 1
    BY <1>6, OneOrNone
  <2>2. /\ Cardinality(Forgotten') \in Nat
        /\ Cardinality(Forgotten') <= Cardinality(Forgotten \cup {Who(c)})
    BY <1>5, <2>1, FS_Subset, FS_CardinalityType
  <2> QED BY <1>1, <1>6, <2>1, <2>2
<1>8. ASSUME NEW d \in Devices
      PROVE  Cardinality(BonusOn(d)') <= MaxPerDevice + faults'
  <2>1. BonusOn(d)' = BonusOn(d) /\ Cardinality(BonusOn(d)) <= MaxPerDevice + faults
    BY DEF BonusOn, SoloInv, BonusInv
  <2>2. Cardinality(BonusOn(d)) \in Nat
    <3>1. BonusOn(d) \subseteq bonus /\ IsFiniteSet(bonus)
      BY DEF BonusOn, SoloInv, BonusInv
    <3> QED BY <3>1, FS_Subset, FS_CardinalityType
  <2> QED BY <1>1, <1>6, <2>1, <2>2, SignInAssumption
<1>9. BonusInv'
  <2>1. Known' = Known /\ \A d \in Calls : ~At(d, "create")'
    BY <1>3 DEF Known, At
  <2> QED BY <1>1, <1>6, <1>7, <1>8, <2>1 DEF SoloInv, BonusInv
<1> QED BY <1>1, <1>2, <1>4, <1>9 DEF SoloInv

LEMMA SessionSolo ==
  ASSUME TokenInv, SoloInv, SessionNext, UNCHANGED <<accountVars, form>>
  PROVE  SoloInv'
<1>1. UNCHANGED <<codes, account, bonus, rewards, form>>
  BY DEF accountVars
<1>2. Idle.at = "idle"
  BY DEF Idle
<1>3. ASSUME NEW c \in Calls, NEW t \in Issued, FindSession(c, t)
      PROVE  SoloInv'
  <2>1. UNCHANGED <<calm, faults>> /\ At(c, "idle") /\ (calm => Quiet)
    BY <1>3 DEF FindSession, Ask
  <2>2. \/ UNCHANGED call
        \/ \E l \in {"drop", "delete"} : call' = [call EXCEPT ![c] =
             [op |-> "rotate", at |-> l, who |-> holder[t], token |-> t]]
    BY <1>3 DEF FindSession
  <2>3. ~Owing(c)
    BY <2>1 DEF Owing, At
  <2>4. CASE UNCHANGED call
    BY <1>1, <2>1, <2>4, StandSolo
  <2>5. ASSUME NEW l \in {"drop", "delete"}, call' = [call EXCEPT ![c] =
                 [op |-> "rotate", at |-> l, who |-> holder[t], token |-> t]]
        PROVE  SoloInv'
    BY <1>1, <2>1, <2>3, <2>5, MoveSolo
  <2> QED BY <2>2, <2>4, <2>5
<1>4. ASSUME NEW c \in Calls, DropExpired(c) \/ DeleteSession(c) \/ IssueTokens(c)
      PROVE  SoloInv'
  <2>1. UNCHANGED <<calm, faults>> /\ ~At(c, "idle") /\ ~Owing(c)
    BY <1>4 DEF DropExpired, DeleteSession, IssueTokens, Owing, At
  <2>2. End(c) \/ Goto(c, "issue")
    BY <1>4 DEF DropExpired, DeleteSession, IssueTokens
  <2>3. CASE End(c)
    BY <1>1, <1>2, <2>1, <2>3, MoveSolo DEF End
  <2>4. CASE Goto(c, "issue")
    <3>1. PICK w : w.at = "issue" /\ call' = [call EXCEPT ![c] = w]
      BY <2>4 DEF Goto, TokenInv, TokenType, Work
    <3> QED BY <1>1, <2>1, <3>1, MoveSolo
  <2> QED BY <2>2, <2>3, <2>4
<1>5. ASSUME NEW c \in Calls, Lose(c)
      PROVE  SoloInv'
  BY <1>1, <1>5, LoseSolo
<1>6. ASSUME NEW t \in Tokens, RevokeSession(t) \/ ExpireToken(t)
      PROVE  SoloInv'
  <2>1. UNCHANGED <<calm, call, faults>>
    BY <1>6 DEF RevokeSession, ExpireToken
  <2> QED BY <1>1, <2>1, StandSolo
<1> QED BY <1>3, <1>4, <1>5, <1>6 DEF SessionNext

\* A code is made, or expires, while no request is under way.
LEMMA CodesSolo ==
  ASSUME SoloInv, TryInv, calm => Quiet,
         UNCHANGED <<calm, call, form, account, bonus, rewards, faults>>,
         \A p \in Phones : \A k \in DOMAIN codes'[p] :
           \/ codes'[p][k].used = 0
           \/ k \in DOMAIN codes[p] /\ codes'[p][k].used = codes[p][k].used
              /\ (codes'[p][k].state = "open" => codes[p][k].state = "open")
  PROVE  SoloInv'
<1> SUFFICES ASSUME calm
             PROVE  SoloInv'
  BY DEF SoloInv
<1>1. Alone' /\ \A c \in Calls : ~Checking(c)'
  BY DEF SoloInv, Alone, Quiet, Checking, At
<1>2. \A p \in Phones : \A k \in DOMAIN codes[p] :
        codes[p][k].used <= 1 /\ (codes[p][k].state = "open" => codes[p][k].used = 0)
  BY DEF SoloInv, UsedInv
<1>3. UsedInv'
  BY <1>1, <1>2 DEF UsedInv
<1>4. Known' = Known /\ \A d : BonusOn(d)' = BonusOn(d) /\ RewardsOn(d)' = RewardsOn(d)
  BY DEF Known, BonusOn, RewardsOn
<1>5. Forgotten' = Forgotten
  BY DEF Forgotten, Owing, At, Who
<1>6. BonusInv'
  BY <1>4, <1>5 DEF SoloInv, BonusInv, At
<1> QED BY <1>1, <1>3, <1>6 DEF SoloInv

LEMMA SendSolo ==
  ASSUME SoloInv, TryInv, NEW p \in Phones, SendOtp(p)
  PROVE  SoloInv'
<1> DEFINE new == [attempts |-> 0, state |-> "open", used |-> 0]
<1>1. new.used = 0 /\ new \in Code
  BY DEF Code
<1>2. codes[p] \in Seq(Code) /\ codes' = [codes EXCEPT ![p] = Append(codes[p], new)]
  BY DEF SendOtp, TryInv, CodeType
<1>3. UNCHANGED <<calm, call, form, account, bonus, rewards, faults>> /\ (calm => Quiet)
  BY DEF SendOtp, Ask
<1> HIDE DEF new
<1>4. /\ DOMAIN Append(codes[p], new) = 1..(Len(codes[p]) + 1)
      /\ DOMAIN codes[p] = 1..Len(codes[p]) /\ Len(codes[p]) \in Nat
      /\ \A k \in 1..(Len(codes[p]) + 1) :
           Append(codes[p], new)[k] = IF k = Len(codes[p]) + 1 THEN new ELSE codes[p][k]
  BY <1>1, <1>2
<1>5. \A q \in Phones : codes'[q] = IF q = p THEN Append(codes[p], new) ELSE codes[q]
  BY <1>2 DEF TryInv, CodeType
<1>6. ASSUME NEW q \in Phones, NEW k \in DOMAIN codes'[q]
      PROVE  \/ codes'[q][k].used = 0
             \/ k \in DOMAIN codes[q] /\ codes'[q][k] = codes[q][k]
  <2>1. CASE q # p
    BY <1>5, <1>6, <2>1
  <2>2. CASE q = p /\ k = Len(codes[p]) + 1
    BY <1>1, <1>4, <1>5, <2>2
  <2>3. CASE q = p /\ k # Len(codes[p]) + 1
    <3>1. k \in 1..(Len(codes[p]) + 1)
      BY <1>4, <1>5, <1>6, <2>3
    <3>2. k \in 1..Len(codes[p])
      BY <1>4, <2>3, <3>1
    <3> QED BY <1>4, <1>5, <2>3, <3>1, <3>2
  <2> QED BY <2>1, <2>2, <2>3
<1> QED BY <1>3, <1>6, CodesSolo

LEMMA ExpireSolo ==
  ASSUME SoloInv, TryInv, NEW p \in Phones, NEW k \in DOMAIN codes[p], ExpireCode(p, k)
  PROVE  SoloInv'
<1> DEFINE o == [codes[p][k] EXCEPT !.state = "expired"]
<1>1. codes[p][k] \in Code
  BY CodeAt DEF TryInv
<1>2. o.used = codes[p][k].used /\ o.state = "expired" /\ o \in Code
  BY <1>1 DEF Code
<1>3. codes' = [codes EXCEPT ![p] = [codes[p] EXCEPT ![k] = o]]
  BY DEF ExpireCode, TryInv, CodeType
<1>4. UNCHANGED <<calm, call, form, account, bonus, rewards, faults>> /\ (calm => Quiet)
  BY DEF ExpireCode, Ask
<1> HIDE DEF o
<1>5. codes[p] \in Seq(Code)
  BY DEF TryInv, CodeType
<1>6. \A q \in Phones : /\ DOMAIN codes'[q] = DOMAIN codes[q]
                        /\ \A j \in DOMAIN codes[q] :
                             codes'[q][j] = IF q = p /\ j = k THEN o ELSE codes[q][j]
  BY <1>3, <1>5 DEF TryInv, CodeType
<1>7. \A q \in Phones : \A j \in DOMAIN codes'[q] :
        /\ j \in DOMAIN codes[q] /\ codes'[q][j].used = codes[q][j].used
        /\ (codes'[q][j].state = "open" => codes[q][j].state = "open")
  BY <1>2, <1>6
<1> QED BY <1>4, <1>7, CodesSolo

\* A request comes in that does not try a code.
LEMMA EntrySolo ==
  ASSUME TokenInv, TryInv, SoloInv, NEW c \in Calls, NEW op, NEW a, NEW f, NEW l,
         l \notin {"attempt", "mark", "create"}, Begin(c, op, a, f, l), UNCHANGED accountVars
  PROVE  SoloInv'
<1>1. /\ UNCHANGED <<calm, codes, account, bonus, rewards, faults>>
      /\ At(c, "idle") /\ (calm => Quiet)
  BY DEF Begin, Ask, accountVars
<1>2. ~Owing(c)
  BY <1>1 DEF Owing, At
<1>3. CASE l = "refused"
  BY <1>1, <1>3, StandSolo DEF Begin
<1>4. CASE l # "refused"
  <2>1. /\ call' = [call EXCEPT ![c] = [op |-> op, at |-> l, who |-> a, token |-> Nobody]]
        /\ form' = [form EXCEPT ![c] = f]
    BY <1>4 DEF Begin
  <2>2. \A d \in Calls : d # c => form'[d] = form[d]
    BY <2>1 DEF TryInv, CodeType
  <2> QED BY <1>1, <1>2, <2>1, <2>2, MoveSolo
<1> QED BY <1>3, <1>4

LEMMA ComeInSolo ==
  ASSUME TokenInv, TryInv, SoloInv, NEW c \in Calls, NEW d \in SomeDevice, NEW e \in Emails,
         Register(c, e, d) \/ Login(c, e, d) \/ \E s \in Subs : GoogleSignIn(c, s, e, d)
  PROVE  SoloInv'
<1>1. UNCHANGED accountVars
  BY DEF Register, Login, GoogleSignIn
<1>2. \E op, a, f, l : Begin(c, op, a, f, l) /\ l \in {"grant", "track", "email", "refused"}
  BY DEF Register, Login, GoogleSignIn
<1> QED BY <1>1, <1>2, EntrySolo

\* The newest open code is tried.
LEMMA VerifySolo ==
  ASSUME TokenInv, TryInv, SoloInv, NEW c \in Calls, NEW p \in Phones, NEW d \in SomeDevice,
         NEW k \in 0..Len(codes[p]), VerifyOtp(c, p, k, d)
  PROVE  SoloInv'
<1> DEFINE f == [Blank EXCEPT !.device = d, !.code = k]
<1>1. codes[p] \in Seq(Code) /\ Len(codes[p]) \in Nat /\ k \in Nat
      /\ DOMAIN codes[p] = 1..Len(codes[p])
  BY DEF TryInv, CodeType
<1>2. f \in Form /\ \A r \in Nat : [f EXCEPT !.row = r] \in Form
  BY <1>1, BlankForm
<1>3. UNCHANGED accountVars
  BY DEF VerifyOtp
<1>4. CASE Begin(c, "otp", p, f, "refused")
  <2> HIDE DEF f
  <2> QED BY <1>3, <1>4, EntrySolo
<1>5. ASSUME NEW newest \in Newest(p), Begin(c, "otp", p, [f EXCEPT !.row = newest], "attempt")
      PROVE  SoloInv'
  <2> SUFFICES ASSUME calm
               PROVE  SoloInv'
    BY <1>5 DEF SoloInv, Begin
  <2>1. newest \in DOMAIN codes[p] /\ newest \in Nat /\ codes[p][newest].state = "open"
    BY <1>1 DEF Newest, OpenCodes
  <2> DEFINE g == [f EXCEPT !.row = newest]
             w == [op |-> "otp", at |-> "attempt", who |-> p, token |-> Nobody]
  <2>2. g \in Form /\ g.row = newest
    BY <1>2, <2>1 DEF Form
  <2>3. /\ call' = [call EXCEPT ![c] = w] /\ form' = [form EXCEPT ![c] = g]
        /\ UNCHANGED <<calm, codes, account, bonus, rewards, faults>> /\ At(c, "idle") /\ Quiet
    BY <1>3, <1>5 DEF Begin, accountVars, Ask
  <2> HIDE DEF g
  <2>4. /\ form'[c].row = newest
        /\ Alone' /\ call'[c] = w
        /\ \A e \in Calls : e # c => call'[e] = call[e] /\ At(e, "idle") /\ At(e, "idle")'
    BY <2>2, <2>3, SoloCall DEF SoloInv, TryInv, CodeType
  <2>5. UsedInv'
    BY <2>1, <2>3, <2>4 DEF SoloInv, UsedInv, Checking, At, Who
  <2>6. BonusInv'
    <3>1. Known' = Known /\ \A e : BonusOn(e)' = BonusOn(e) /\ RewardsOn(e)' = RewardsOn(e)
      BY <2>3 DEF Known, BonusOn, RewardsOn
    <3>2. \A e \in Calls : ~At(e, "create")' /\ ~Owing(e)
      BY <2>3, <2>4 DEF At, Owing
    <3>3. faults' \in Nat /\ Cardinality(Forgotten') <= faults'
      BY <2>3, <3>2, OwesNone DEF SoloInv
    <3> QED BY <2>3, <3>1, <3>2, <3>3 DEF SoloInv, BonusInv
  <2> QED BY <2>4, <2>5, <2>6 DEF SoloInv
<1> QED BY <1>4, <1>5 DEF VerifyOtp

\* An attempt is counted, or the code is marked used: of one code, by the request
\* that has found it open.
LEMMA TrySolo ==
  ASSUME TokenInv, TryInv, SoloInv, NEW c \in Calls, CountAttempt(c) \/ MarkVerified(c)
  PROVE  SoloInv'
<1> SUFFICES ASSUME calm
             PROVE  SoloInv'
  BY DEF SoloInv, CountAttempt, MarkVerified, Rest
<1> DEFINE p == Who(c)
           k == form[c].row
<1>1. p \in Phones /\ k \in DOMAIN codes[p] /\ Checking(c) /\ codes[p][k].state = "open"
      /\ codes[p][k].used = 0
  BY DEF CountAttempt, MarkVerified, TryInv, SoloInv, UsedInv, Checking
<1>2. codes[p] \in Seq(Code) /\ codes[p][k] \in Code
  BY <1>1, CodeAt DEF TryInv, CodeType
<1>3. PICK o \in Code :
        /\ codes' = [codes EXCEPT ![p] = [codes[p] EXCEPT ![k] = o]]
        /\ \/ CountAttempt(c) /\ o.state = "open" /\ o.used = 0
           \/ MarkVerified(c) /\ o.state = "verified" /\ o.used = 1
  <2>1. CASE CountAttempt(c)
    <3> DEFINE o == [codes[p][k] EXCEPT !.attempts = @ + 1]
    <3>1. o \in Code
      BY <1>2, CountCode
    <3>2. o.state = "open" /\ o.used = 0
      BY <1>1, <1>2 DEF Code
    <3>3. codes' = [codes EXCEPT ![p] = [codes[p] EXCEPT ![k] = o]]
      BY <1>1, <1>2, <2>1 DEF CountAttempt, TryInv, CodeType
    <3> HIDE DEF o
    <3> QED BY <2>1, <3>1, <3>2, <3>3
  <2>2. CASE MarkVerified(c)
    <3> DEFINE o == [codes[p][k] EXCEPT !.state = "verified", !.used = @ + 1]
    <3>1. o \in Code
      BY <1>2, MarkCode
    <3>2. o.state = "verified" /\ o.used = codes[p][k].used + 1
      BY <1>2, MarkCode
    <3>4. o.used = 1
      <4> HIDE DEF o
      <4> QED BY <1>1, <3>2
    <3>3. codes' = [codes EXCEPT ![p] = [codes[p] EXCEPT ![k] = o]]
      BY <1>1, <2>2 DEF MarkVerified, TryInv, CodeType
    <3> HIDE DEF o
    <3> QED BY <2>2, <3>1, <3>2, <3>3, <3>4
  <2> QED BY <2>1, <2>2
<1>4. \A q \in Phones : /\ DOMAIN codes'[q] = DOMAIN codes[q]
                        /\ \A j \in DOMAIN codes[q] :
                             codes'[q][j] = IF q = p /\ j = k THEN o ELSE codes[q][j]
  BY <1>1, <1>2, <1>3 DEF TryInv, CodeType
<1>5. PICK w \in Work : /\ call' = [call EXCEPT ![c] = w]
                        /\ \/ w.at \in {"idle", "user"}
                           \/ w.at = "mark" /\ w.who = p /\ CountAttempt(c)
  <2>1. End(c) \/ Goto(c, "user") \/ (Goto(c, "mark") /\ CountAttempt(c))
    BY DEF CountAttempt, MarkVerified
  <2>2. Idle \in Work /\ Idle.at = "idle"
    BY DEF Idle, Work, Ops, Places
  <2>3. ASSUME NEW l \in {"user", "mark"}
        PROVE  /\ [call[c] EXCEPT !.at = l] \in Work /\ [call[c] EXCEPT !.at = l].at = l
               /\ [call[c] EXCEPT !.at = l].who = p
    BY DEF TokenInv, TokenType, Work, Who, Places
  <2>4. CASE End(c)
    BY <2>2, <2>4 DEF End
  <2>5. CASE Goto(c, "user")
    BY <2>3, <2>5 DEF Goto
  <2>6. CASE Goto(c, "mark") /\ CountAttempt(c)
    BY <2>3, <2>6 DEF Goto
  <2> QED BY <2>1, <2>4, <2>5, <2>6
<1>6. UNCHANGED <<calm, form, account, bonus, rewards, faults>>
  BY DEF CountAttempt, MarkVerified, Rest
<1>7. /\ Alone' /\ call'[c] = w
      /\ \A d \in Calls : d # c => call'[d] = call[d] /\ At(d, "idle") /\ At(d, "idle")'
  BY <1>1, <1>5, SoloCall DEF SoloInv, Checking, At
<1>8. UsedInv'
  <2>1. \A q \in Phones : \A j \in DOMAIN codes'[q] :
          codes'[q][j].used <= 1 /\ (codes'[q][j].state = "open" => codes'[q][j].used = 0)
    BY <1>3, <1>4 DEF SoloInv, UsedInv
  <2>2. Checking(c)' => codes'[call'[c].who][form'[c].row].state = "open"
    <3>1. CASE w.at = "mark" /\ w.who = p /\ CountAttempt(c)
      <4>1. o.state = "open"
        BY <1>3, <3>1 DEF CountAttempt, MarkVerified, At
      <4> QED BY <1>1, <1>4, <1>6, <1>7, <3>1, <4>1
    <3>2. CASE w.at \in {"idle", "user"}
      BY <1>7, <3>2 DEF Checking, At
    <3> QED BY <1>5, <3>1, <3>2
  <2>3. \A d \in Calls : d # c => ~Checking(d)'
    BY <1>7 DEF Checking, At
  <2> QED BY <2>1, <2>2, <2>3 DEF UsedInv, Who
<1>9. BonusInv'
  <2>1. Known' = Known /\ \A d : BonusOn(d)' = BonusOn(d) /\ RewardsOn(d)' = RewardsOn(d)
    BY <1>6 DEF Known, BonusOn, RewardsOn
  <2>2. \A d \in Calls : ~At(d, "create")' /\ ~Owing(d)
    BY <1>1, <1>5, <1>7 DEF At, Owing, Checking
  <2>3. faults' \in Nat /\ Cardinality(Forgotten') <= faults'
    BY <1>6, <2>2, OwesNone DEF SoloInv
  <2> QED BY <1>6, <2>1, <2>2, <2>3 DEF SoloInv, BonusInv
<1> QED BY <1>7, <1>8, <1>9 DEF SoloInv

\* A request that is under way says what for.
NamedInv == \A c \in Calls : At(c, "idle") \/ call[c].op # "none"

LEMMA NamedCall ==
  ASSUME TokenInv, NamedInv, NEW c \in Calls,
         \/ UNCHANGED call
         \/ End(c)
         \/ ~At(c, "idle") /\ \E l : Goto(c, l)
         \/ \E op, l, a, t : op # "none"
              /\ call' = [call EXCEPT ![c] = [op |-> op, at |-> l, who |-> a, token |-> t]]
  PROVE  NamedInv'
<1>1. Idle.at = "idle"
  BY DEF Idle
<1>2. \A l : /\ [call[c] EXCEPT !.at = l].op = call[c].op
  BY DEF TokenInv, TokenType, Work
<1>3. call \in [Calls -> Work]
  BY DEF TokenInv, TokenType
<1>4. CASE UNCHANGED call
  BY <1>4 DEF NamedInv, At
<1>5. CASE End(c)
  BY <1>1, <1>3, <1>5 DEF NamedInv, At, End
<1>6. CASE ~At(c, "idle") /\ \E l : Goto(c, l)
  BY <1>2, <1>3, <1>6 DEF NamedInv, At, Goto
<1>7. ASSUME NEW op, NEW l, NEW a, NEW t, op # "none",
             call' = [call EXCEPT ![c] = [op |-> op, at |-> l, who |-> a, token |-> t]]
      PROVE  NamedInv'
  BY <1>3, <1>7 DEF NamedInv, At
<1> QED BY <1>4, <1>5, <1>6, <1>7

LEMMA NamedStep ==
  ASSUME TokenInv, NamedInv, [Next]_vars
  PROVE  NamedInv'
<1>1. ASSUME NEW c \in Calls, NEW t \in Issued, FindSession(c, t)
      PROVE  NamedInv'
  <2>1. \/ UNCHANGED call
        \/ \E l : call' = [call EXCEPT ![c] =
                    [op |-> "rotate", at |-> l, who |-> holder[t], token |-> t]]
    BY <1>1 DEF FindSession
  <2> QED BY <2>1, NamedCall
<1>2. ASSUME NEW c \in Calls, DropExpired(c) \/ DeleteSession(c) \/ IssueTokens(c) \/ Lose(c)
      PROVE  NamedInv'
  <2>1. End(c) \/ (~At(c, "idle") /\ \E l : Goto(c, l))
    BY <1>2 DEF DropExpired, DeleteSession, IssueTokens, Lose, At
  <2> QED BY <2>1, NamedCall
<1>3. ASSUME UNCHANGED call
      PROVE  NamedInv'
  BY <1>3 DEF NamedInv, At
<1>4. ASSUME NEW c \in Calls, NEW op \in {"otp", "register", "login", "google"},
             NEW a, NEW f, NEW l, Begin(c, op, a, f, l)
      PROVE  NamedInv'
  <2>1. \/ UNCHANGED call
        \/ call' = [call EXCEPT ![c] = [op |-> op, at |-> l, who |-> a, token |-> Nobody]]
    BY <1>4 DEF Begin
  <2> QED BY <2>1, NamedCall
<1>5. ASSUME NEW c \in Calls, SignInNext(c)
      PROVE  NamedInv'
  <2>1. CASE CountAttempt(c) \/ MarkVerified(c) \/ FindUser(c) \/ CountUsersOnDevice(c)
             \/ FindByEmail(c) \/ LinkGoogle(c)
             \/ ShouldGrantSignupBonus(c) \/ CreateUser(c) \/ Track(c) \/ RecordReward(c)
    <3>1. End(c) \/ (~At(c, "idle") /\ \E l : Goto(c, l))
      BY <2>1 DEF CountAttempt, MarkVerified, FindUser, CountUsersOnDevice, FindByEmail,
                  LinkGoogle, ShouldGrantSignupBonus, CreateUser, Track, RecordReward, At
    <3> QED BY <3>1, NamedCall
  <2>2. CASE ~(CountAttempt(c) \/ MarkVerified(c) \/ FindUser(c) \/ CountUsersOnDevice(c)
               \/ FindByEmail(c) \/ LinkGoogle(c)
               \/ ShouldGrantSignupBonus(c) \/ CreateUser(c) \/ Track(c) \/ RecordReward(c))
    <3>1. \E op \in {"otp", "register", "login", "google"} : \E a, f, l : Begin(c, op, a, f, l)
      BY <1>5, <2>2 DEF SignInNext, VerifyOtp, Register, Login, GoogleSignIn
    <3> QED BY <1>4, <3>1
  <2> QED BY <2>1, <2>2
<1>6. \/ UNCHANGED call
      \/ \E c \in Calls, t \in Issued : FindSession(c, t)
      \/ \E c \in Calls : DropExpired(c) \/ DeleteSession(c) \/ IssueTokens(c) \/ Lose(c)
      \/ \E c \in Calls : SignInNext(c)
  BY DEF Next, SessionNext, RevokeSession, ExpireToken, SoftDelete, SendOtp, ExpireCode, vars
<1> QED BY <1>1, <1>2, <1>3, <1>5, <1>6

\* The new user's bonus is granted to a device whose rewards are fewer than it may
\* have; all that were paid before are among them or forgotten.
LEMMA CreateSolo ==
  ASSUME TokenInv, NamedInv, TryInv, SoloInv, NEW c \in Calls, CreateUser(c)
  PROVE  SoloInv'
<1> DEFINE a == Who(c)
           dev == form[c].device
           g == [form[c] EXCEPT !.new = TRUE]
<1> SUFFICES ASSUME calm
             PROVE  SoloInv'
  BY DEF SoloInv, CreateUser, Rest
<1>1. /\ At(c, "create") /\ a \in Users /\ call[c].op # "none"
      /\ UNCHANGED <<calm, rewards, codes, faults>> /\ ~Owing(c) /\ ~At(c, "idle")
  BY DEF CreateUser, Rest, TokenInv, PlaceInv, NamedInv, At, Who, Owing
<1>2. CASE UNCHANGED <<account, bonus, form>> /\ End(c)
  <2>1. Idle.at = "idle"
    BY DEF Idle
  <2> QED BY <1>1, <1>2, <2>1, MoveSolo DEF End
<1>3. CASE ~(UNCHANGED <<account, bonus, form>> /\ End(c))
  <2>1. /\ a \notin Known
        /\ account' = [account EXCEPT ![a] = [made |-> call[c].op, device |-> dev,
                                              verified |-> form[c].sub \in VerifiedSubs]]
        /\ bonus' = IF form[c].grant THEN bonus \cup {a} ELSE bonus
        /\ form' = [form EXCEPT ![c] = g] /\ Goto(c, "track")
    BY <1>3 DEF CreateUser
  <2>2. g.new /\ g.grant = form[c].grant /\ g.device = dev
        /\ form[c] \in Form /\ form \in [Calls -> Form]
    BY DEF TryInv, CodeType, Form
  <2>3. PICK w \in Work : w.at = "track" /\ w.who = a /\ call' = [call EXCEPT ![c] = w]
    <3>1. /\ [call[c] EXCEPT !.at = "track"] \in Work
          /\ [call[c] EXCEPT !.at = "track"].at = "track"
          /\ [call[c] EXCEPT !.at = "track"].who = a
      BY DEF TokenInv, TokenType, Work, Places, Who
    <3> QED BY <2>1, <3>1 DEF Goto
  <2> HIDE DEF g
  <2>4. /\ Alone' /\ call'[c] = w /\ form'[c] = g
        /\ \A d \in Calls : d # c => call'[d] = call[d] /\ At(d, "idle") /\ At(d, "idle")'
    BY <1>1, <2>1, <2>2, <2>3, SoloCall DEF SoloInv
  <2>5. UsedInv'
    <3>1. \A d \in Calls : ~Checking(d)'
      BY <2>3, <2>4 DEF Checking, At
    <3> QED BY <1>1, <3>1 DEF SoloInv, UsedInv
  <2>6. /\ DOMAIN account' = Users /\ DOMAIN account = Users
        /\ account'[a].device = dev /\ account'[a].made # "none"
        /\ \A x \in Users : x # a => account'[x] = account[x]
    BY <1>1, <2>1 DEF SoloInv, BonusInv
  <2>7. \A x \in bonus : x \in Known /\ x \in rewards \cup Forgotten /\ x # a /\ x \in Users
    <3>1. \A d \in Calls : ~Owing(d)
      BY <1>1, <2>4 DEF Owing, At
    <3> QED BY <2>1, <3>1 DEF SoloInv, BonusInv, Known, Forgotten
  <2>8. bonus' \subseteq Known'
    BY <1>1, <2>1, <2>6, <2>7 DEF Known
  <2>9. IsFiniteSet(bonus') /\ IsFiniteSet(bonus) /\ IsFiniteSet(rewards)
    BY <2>1, FS_AddElement DEF SoloInv, BonusInv
  <2>10. faults' \in Nat /\ Cardinality(Forgotten') <= faults'
    <3>1. \A x \in bonus' : x \in rewards' \cup Forgotten \/ (Owing(c)' /\ Who(c)' = x)
      BY <1>1, <2>1, <2>2, <2>3, <2>4, <2>7 DEF Owing, Who, At
    <3>2. Forgotten' \subseteq Forgotten
      BY <3>1 DEF Forgotten
    <3> QED BY <1>1, <3>2, ForgetsNone DEF SoloInv
  <2>11. ASSUME NEW d \in Devices
         PROVE  Cardinality(BonusOn(d)') <= MaxPerDevice + faults'
    <3>1. /\ BonusOn(d) \subseteq bonus /\ RewardsOn(d) \subseteq rewards
          /\ Forgotten \subseteq bonus /\ faults' = faults
      BY <1>1 DEF BonusOn, RewardsOn, Forgotten
    <3>2. /\ IsFiniteSet(BonusOn(d)) /\ IsFiniteSet(RewardsOn(d)) /\ IsFiniteSet(Forgotten)
          /\ Cardinality(BonusOn(d)) \in Nat /\ Cardinality(RewardsOn(d)) \in Nat
      BY <2>9, <3>1, FS_Subset, FS_CardinalityType
    <3>5. faults \in Nat /\ Cardinality(Forgotten) <= faults /\ Cardinality(Forgotten) \in Nat
      BY <3>2, FS_CardinalityType DEF SoloInv, BonusInv
    <3>3. CASE form[c].grant /\ dev = d
      <4>1. Cardinality(RewardsOn(d)) < MaxPerDevice
        BY <1>1, <3>3, SignInAssumption DEF SoloInv, BonusInv
      <4>2. BonusOn(d)' \subseteq (RewardsOn(d) \cup Forgotten) \cup {a}
        BY <2>1, <2>6, <2>7 DEF BonusOn, RewardsOn
      <4>3. /\ IsFiniteSet(RewardsOn(d) \cup Forgotten)
            /\ Cardinality(RewardsOn(d) \cup Forgotten) \in Nat
            /\ Cardinality(RewardsOn(d) \cup Forgotten)
                 <= Cardinality(RewardsOn(d)) + Cardinality(Forgotten)
        <5>1. /\ IsFiniteSet(RewardsOn(d) \cap Forgotten)
              /\ Cardinality(RewardsOn(d) \cap Forgotten) \in Nat
          BY <3>2, FS_Intersection, FS_CardinalityType
        <5>2. /\ IsFiniteSet(RewardsOn(d) \cup Forgotten)
              /\ Cardinality(RewardsOn(d) \cup Forgotten)
                   = Cardinality(RewardsOn(d)) + Cardinality(Forgotten)
                       - Cardinality(RewardsOn(d) \cap Forgotten)
          BY <3>2, FS_Union
        <5>3. Cardinality(RewardsOn(d) \cup Forgotten) \in Nat
          BY <5>2, FS_CardinalityType
        <5> QED BY <3>2, <3>5, <5>1, <5>2, <5>3
      <4>4. /\ IsFiniteSet((RewardsOn(d) \cup Forgotten) \cup {a})
            /\ Cardinality((RewardsOn(d) \cup Forgotten) \cup {a}) \in Nat
            /\ Cardinality((RewardsOn(d) \cup Forgotten) \cup {a})
                 <= Cardinality(RewardsOn(d) \cup Forgotten) + 1
        BY <4>3, OneOrNone
      <4>5. /\ Cardinality(BonusOn(d)') \in Nat
            /\ Cardinality(BonusOn(d)')
                 <= Cardinality((RewardsOn(d) \cup Forgotten) \cup {a})
        BY <4>2, <4>4, FS_Subset, FS_CardinalityType
      <4> QED BY <3>1, <3>2, <3>5, <4>1, <4>3, <4>4, <4>5, SignInAssumption
    <3>4. CASE ~(form[c].grant /\ dev = d)
      <4>1. BonusOn(d)' \subseteq BonusOn(d)
        BY <2>1, <2>6, <2>7, <3>4 DEF BonusOn
      <4>2. /\ Cardinality(BonusOn(d)') \in Nat
            /\ Cardinality(BonusOn(d)') <= Cardinality(BonusOn(d))
        BY <3>2, <4>1, FS_Subset, FS_CardinalityType
      <4>3. Cardinality(BonusOn(d)) <= MaxPerDevice + faults
        BY DEF SoloInv, BonusInv
      <4> QED BY <3>1, <3>2, <3>5, <4>2, <4>3, SignInAssumption
    <3> QED BY <3>3, <3>4
  <2>12. \A d \in Calls : ~At(d, "create")'
    BY <2>3, <2>4 DEF At
  <2>13. BonusInv'
    BY <1>1, <2>6, <2>8, <2>9, <2>10, <2>11, <2>12 DEF BonusInv
  <2> QED BY <2>4, <2>5, <2>13 DEF SoloInv
<1> QED BY <1>2, <1>3

LEMMA OnwardSolo ==
  ASSUME TokenInv, NamedInv, TryInv, SoloInv, NEW c \in Calls,
         \/ CountAttempt(c) \/ MarkVerified(c) \/ FindUser(c) \/ CountUsersOnDevice(c)
         \/ FindByEmail(c) \/ LinkGoogle(c)
         \/ ShouldGrantSignupBonus(c) \/ CreateUser(c) \/ Track(c) \/ RecordReward(c)
  PROVE  SoloInv'
<1>0. ASSUME NEW l \in Places
      PROVE  /\ [call[c] EXCEPT !.at = l].at = l
             /\ [call[c] EXCEPT !.at = l].who = call[c].who
  BY DEF TokenInv, TokenType, Work
<1>1. CASE CountAttempt(c) \/ MarkVerified(c)
  BY <1>1, TrySolo
<1>2. CASE FindUser(c) \/ CountUsersOnDevice(c) \/ FindByEmail(c) \/ LinkGoogle(c)
  <2>1. /\ UNCHANGED <<calm, codes, account, bonus, rewards, form, faults>>
        /\ ~At(c, "idle") /\ ~Owing(c)
    BY <1>2 DEF FindUser, CountUsersOnDevice, FindByEmail, LinkGoogle, Rest, accountVars,
                Owing, At
  <2>2. PICK w : call' = [call EXCEPT ![c] = w] /\ w.at \notin {"attempt", "mark", "create"}
    <3>1. Idle.at = "idle"
      BY DEF Idle
    <3>2. End(c) \/ \E l \in {"track", "device", "grant", "link"} : Goto(c, l)
      BY <1>2 DEF FindUser, CountUsersOnDevice, FindByEmail, LinkGoogle
    <3>3. CASE End(c)
      BY <3>1, <3>3 DEF End
    <3>4. ASSUME NEW l \in {"track", "device", "grant", "link"}, Goto(c, l)
          PROVE  /\ call' = [call EXCEPT ![c] = [call[c] EXCEPT !.at = l]]
                 /\ [call[c] EXCEPT !.at = l].at = l
      BY <1>0, <3>4 DEF Goto, Places, TokenInv, TokenType
    <3> QED BY <3>2, <3>3, <3>4
  <2> QED BY <2>1, <2>2, MoveSolo
<1>3. CASE ShouldGrantSignupBonus(c)
  <2> SUFFICES ASSUME calm
               PROVE  SoloInv'
    BY <1>3 DEF SoloInv, ShouldGrantSignupBonus, Rest
  <2> DEFINE g == [form[c] EXCEPT !.grant = Grants(c)]
             w == [call[c] EXCEPT !.at = "create"]
  <2>1. /\ At(c, "grant") /\ ~At(c, "idle") /\ form' = [form EXCEPT ![c] = g]
        /\ call' = [call EXCEPT ![c] = w]
        /\ UNCHANGED <<calm, codes, account, bonus, rewards, faults>>
    BY <1>3 DEF ShouldGrantSignupBonus, Goto, At, Rest, accountVars
  <2>2. /\ g.grant = Grants(c) /\ g.device = form[c].device
        /\ form \in [Calls -> Form]
    BY DEF TryInv, CodeType, Form
  <2>3. w.at = "create"
    BY <1>0 DEF Places
  <2> HIDE DEF g, w
  <2>4. /\ Alone' /\ call'[c] = w /\ form'[c] = g
        /\ \A d \in Calls : d # c => call'[d] = call[d] /\ At(d, "idle") /\ At(d, "idle")'
    BY <2>1, <2>2, SoloCall DEF SoloInv
  <2>5. UsedInv'
    <3>1. \A d \in Calls : ~Checking(d)'
      BY <2>3, <2>4 DEF Checking, At
    <3> QED BY <2>1, <3>1 DEF SoloInv, UsedInv
  <2>6. BonusInv'
    <3>1. Known' = Known /\ \A d : BonusOn(d)' = BonusOn(d) /\ RewardsOn(d)' = RewardsOn(d)
      BY <2>1 DEF Known, BonusOn, RewardsOn
    <3>2. \A d \in Calls : ~Owing(d)
      BY <2>1, <2>4 DEF At, Owing
    <3>3. form'[c].grant /\ form'[c].device # Nobody =>
            Cardinality(RewardsOn(form'[c].device)) < MaxPerDevice
      BY <2>2, <2>4 DEF Grants
    <3>4. \A d \in Calls : d # c => ~At(d, "create")'
      BY <2>4 DEF At
    <3>5. (\A d \in Calls : At(d, "create") /\ form[d].grant /\ form[d].device # Nobody =>
             Cardinality(RewardsOn(form[d].device)) < MaxPerDevice)'
      BY <2>1, <3>3, <3>4 DEF RewardsOn
    <3>6. faults' \in Nat /\ Cardinality(Forgotten') <= faults'
      BY <2>1, <3>2, OwesNone DEF SoloInv
    <3> QED BY <2>1, <3>1, <3>5, <3>6 DEF SoloInv, BonusInv
  <2> QED BY <2>4, <2>5, <2>6 DEF SoloInv
<1>4. CASE CreateUser(c)
  BY <1>4, CreateSolo
<1>5. CASE Track(c) \/ RecordReward(c)
  <2> SUFFICES ASSUME calm
               PROVE  SoloInv'
    BY <1>5 DEF SoloInv, Track, RecordReward, Rest
  <2>1. /\ ~At(c, "idle")
        /\ UNCHANGED <<calm, codes, account, bonus, form, faults>>
    BY <1>5 DEF Track, RecordReward, Rest, At
  <2>2. PICK w : /\ call' = [call EXCEPT ![c] = w] /\ w.who = call[c].who
                 /\ w.at \in {"record", "issue"}
                 /\ Track(c) /\ form[c].new /\ form[c].grant => w.at = "record"
    <3>1. PICK l \in {"record", "issue"} :
            Goto(c, l) /\ (Track(c) /\ form[c].new /\ form[c].grant => l = "record")
      BY <1>5 DEF Track, RecordReward, At
    <3>2. call' = [call EXCEPT ![c] = [call[c] EXCEPT !.at = l]]
      BY <3>1 DEF Goto, TokenInv, TokenType
    <3>3. /\ [call[c] EXCEPT !.at = l].at = l
          /\ [call[c] EXCEPT !.at = l].who = call[c].who
      BY <1>0 DEF Places
    <3> QED BY <3>1, <3>2, <3>3
  <2>3. /\ Alone' /\ call'[c] = w
        /\ \A d \in Calls : d # c => call'[d] = call[d] /\ At(d, "idle") /\ At(d, "idle")'
    BY <2>1, <2>2, SoloCall DEF SoloInv
  <2>4. UsedInv'
    <3>1. \A d \in Calls : ~Checking(d)'
      BY <2>2, <2>3 DEF Checking, At
    <3> QED BY <2>1, <3>1 DEF SoloInv, UsedInv
  <2>5. /\ IsFiniteSet(rewards') /\ rewards \subseteq rewards'
        /\ RecordReward(c) => Who(c) \in rewards'
    <3>1. CASE Track(c)
      BY <3>1 DEF Track, SoloInv, BonusInv, RecordReward, At
    <3>2. CASE RecordReward(c)
      BY <3>2, FS_AddElement DEF RecordReward, SoloInv, BonusInv
    <3> QED BY <1>5, <3>1, <3>2
  <2>6. faults' \in Nat /\ Cardinality(Forgotten') <= faults'
    <3>1. \A d \in Calls : Owing(d) => d = c
      BY <2>3 DEF Owing, At
    <3>2. Who(c)' = Who(c)
      BY <2>2, <2>3 DEF Who
    <3>3. Track(c) /\ Owing(c) => Owing(c)'
      BY <2>1, <2>2, <2>3 DEF Owing, At
    <3>4. Forgotten' \subseteq Forgotten
      BY <1>5, <2>1, <2>5, <3>1, <3>2, <3>3 DEF Forgotten
    <3> QED BY <2>1, <3>4, ForgetsNone DEF SoloInv
  <2>7. Known' = Known /\ \A d : BonusOn(d)' = BonusOn(d)
    BY <2>1 DEF Known, BonusOn
  <2>8. \A d \in Calls : ~At(d, "create")'
    BY <2>2, <2>3 DEF At
  <2>9. BonusInv'
    BY <2>1, <2>5, <2>6, <2>7, <2>8 DEF SoloInv, BonusInv
  <2> QED BY <2>3, <2>4, <2>9 DEF SoloInv
<1> QED BY <1>1, <1>2, <1>3, <1>4, <1>5

LEMMA InitSolo ==
  ASSUME Init
  PROVE  SoloInv /\ NamedInv
<1>1. \A c \in Calls : At(c, "idle")
  BY DEF Init, SessionInit, Idle, At
<1>2. bonus = {} /\ rewards = {} /\ DOMAIN account = Users
      /\ \A p \in Phones : DOMAIN codes[p] = {}
  BY DEF Init
<1>3. UsedInv
  BY <1>1, <1>2 DEF UsedInv, Checking, At
<1>4. BonusInv
  <2>1. \A d : BonusOn(d) = {}
    BY <1>2 DEF BonusOn
  <2>2. IsFiniteSet({}) /\ Cardinality({}) = 0 /\ 0 <= MaxPerDevice + 0
    BY FS_EmptySet, SignInAssumption
  <2>3. faults = 0 /\ Forgotten = {}
    BY <1>2 DEF Init, SessionInit, Forgotten
  <2> QED BY <1>1, <1>2, <2>1, <2>2, <2>3 DEF BonusInv, At
<1> QED BY <1>1, <1>3, <1>4 DEF SoloInv, Alone, NamedInv

LEMMA StepSolo ==
  ASSUME TokenInv, NamedInv, TryInv, SoloInv, [Next]_vars
  PROVE  SoloInv'
<1>1. CASE SessionNext /\ UNCHANGED <<accountVars, form>>
  BY <1>1, SessionSolo
<1>2. ASSUME NEW a \in Known, SoftDelete(a) /\ UNCHANGED <<accountVars, form>>
      PROVE  SoloInv'
  BY <1>2, StandSolo DEF SoftDelete, accountVars
<1>3. ASSUME NEW p \in Phones, SendOtp(p)
      PROVE  SoloInv'
  BY <1>3, SendSolo
<1>4. ASSUME NEW p \in Phones, NEW k \in DOMAIN codes[p], ExpireCode(p, k)
      PROVE  SoloInv'
  BY <1>4, ExpireSolo
<1>5. ASSUME NEW c \in Calls, SignInNext(c)
      PROVE  SoloInv'
  BY <1>5, VerifySolo, ComeInSolo, OnwardSolo DEF SignInNext
<1>6. CASE UNCHANGED vars
  BY <1>6, StandSolo DEF vars
<1> QED BY <1>1, <1>2, <1>3, <1>4, <1>5, <1>6 DEF Next

\* SoloInv holds on top of the invariants of the tokens and the attempts.
LEMMA SoloAlways == Spec => []SoloInv
<1>1. Init => TokenInv /\ LinkInv /\ TryInv /\ NamedInv /\ SoloInv
  BY InitToken, InitTries, InitSolo DEF Init, LinkInv
<1>2. TokenInv /\ LinkInv /\ TryInv /\ NamedInv /\ SoloInv /\ [Next]_vars
        => (TokenInv /\ LinkInv /\ TryInv /\ NamedInv /\ SoloInv)'
  BY StepToken, LinkStep, StepTries, NamedStep, StepSolo
<1> QED BY <1>1, <1>2, PTL DEF Spec

\* With one request at a time a code lets its owner in once, whatever other codes
\* the phone has and wherever requests are lost (otp.service.ts 103-110, 134-137).
THEOREM CodeUsedOnceAlways == Spec => []CodeUsedOnce
<1>1. SoloInv => CodeUsedOnce
  BY DEF SoloInv, UsedInv, CodeUsedOnce
<1> QED BY <1>1, SoloAlways, PTL

\* With one request at a time no device gets more bonuses than it may have
\* accounts, and one for every request that was lost, for every limit and
\* whichever services its users come through (anti-abuse.service.ts 19-60).
THEOREM BonusPerDeviceAlways == Spec => []BonusPerDevice
<1>1. SoloInv => BonusPerDevice
  BY DEF SoloInv, BonusInv, BonusOn, BonusPerDevice
<1> QED BY <1>1, SoloAlways, PTL

-----------------------------------------------------------------------------
(* Referrals: RewardedOnce says nothing of requests on their way.  PayInv    *)
(* adds them: a request that has made the row holds its user alone, the row *)
(* names its referrer, and what has been paid is what its place says.       *)

ReferralPlaces == {"idle", "existing", "walk", "award", "mark"}
ReferralWork == [at : ReferralPlaces, user : Users \cup {Nobody}, by : Users \cup {Nobody},
         current : Users \cup {Nobody}, visited : SUBSET Users, depth : Nat]

ReferralType ==
  /\ referrer \in [Users -> Users \cup {Nobody}]
  /\ given \subseteq Users
  /\ paid \in [Users -> Seq(Users)]
  /\ call \in [Calls -> ReferralWork]

\* A request under way knows both users.
NamesInv ==
  \A c \in Calls : ~At(c, "idle") => call[c].user \in Users /\ call[c].by \in Users

Paying(c) == At(c, "award") \/ At(c, "mark")

\* Who pays for a user has made the user's row, alone.
PayInv ==
  /\ \A c \in Calls : Paying(c) => referrer[call[c].user] = call[c].by
  /\ \A c, d \in Calls : Paying(c) /\ Paying(d) /\ call[c].user = call[d].user => c = d
  /\ \A c \in Calls : At(c, "award") => paid[call[c].user] = <<>>
  /\ \A c \in Calls : At(c, "mark") => paid[call[c].user] # <<>>
  /\ \A u \in Users : referrer[u] = Nobody => paid[u] = <<>>

ReferralInv == ReferralType /\ NamesInv /\ PayInv /\ RewardedOnce

-----------------------------------------------------------------------------
LEMMA InitReferral ==
  ASSUME ReferralInit
  PROVE  ReferralInv
<1>1. Unused \in ReferralWork /\ Unused.at = "idle"
  BY DEF Unused, ReferralWork, ReferralPlaces
<1>2. ReferralType
  BY <1>1 DEF ReferralInit, ReferralType
<1>3. \A c \in Calls : call[c] = Unused
  BY DEF ReferralInit
<1>4. NamesInv /\ PayInv
  BY <1>1, <1>3 DEF ReferralInit, NamesInv, PayInv, Paying, At
<1>5. RewardedOnce
  BY DEF ReferralInit, RewardedOnce
<1> QED
  BY <1>2, <1>4, <1>5 DEF ReferralInv

\* A request that moves on before it pays, or ends, changes nothing that matters.
LEMMA MovesOn ==
  ASSUME ReferralInv, UNCHANGED <<referrer, given, paid>>,
         NEW c \in Calls, NEW w \in ReferralWork,
         call' = [call EXCEPT ![c] = w],
         w.at \notin {"award", "mark"},
         w.at # "idle" => w.user \in Users /\ w.by \in Users
  PROVE  ReferralInv'
<1>1. ReferralType'
  BY DEF ReferralInv, ReferralType
<1>2. \A d \in Calls : call'[d] = IF d = c THEN w ELSE call[d]
  BY DEF ReferralInv, ReferralType
<1>3. NamesInv'
  BY <1>2 DEF ReferralInv, NamesInv, At
<1>4. PayInv'
  BY <1>2 DEF ReferralInv, PayInv, Paying, At
<1>5. RewardedOnce'
  BY DEF ReferralInv, RewardedOnce
<1> QED
  BY <1>1, <1>3, <1>4, <1>5 DEF ReferralInv

LEMMA EndReferral ==
  ASSUME ReferralInv, NEW c \in Calls, Finish(c), UNCHANGED <<referrer, given, paid>>
  PROVE  ReferralInv'
<1>1. Unused \in ReferralWork /\ Unused.at = "idle"
  BY DEF Unused, ReferralWork, ReferralPlaces
<1> QED
  BY <1>1, MovesOn DEF Finish

LEMMA StayReferral ==
  ASSUME ReferralInv, UNCHANGED <<referrer, given, paid, call>>
  PROVE  ReferralInv'
BY DEF ReferralInv, ReferralType, NamesInv, PayInv, RewardedOnce, Paying, At

LEMMA FindKeeps ==
  ASSUME ReferralInv, NEW c \in Calls, NEW u \in Users, NEW r \in Users,
         FindReferrer(c, u, r)
  PROVE  ReferralInv'
<1>1. CASE r \in gone \/ r = u
  BY <1>1, StayReferral DEF FindReferrer
<1>2. CASE ~(r \in gone \/ r = u)
  <2> DEFINE w == [at |-> "existing", user |-> u, by |-> r, current |-> r,
                   visited |-> {u}, depth |-> 0]
  <2>1. w \in ReferralWork /\ w.at = "existing" /\ w.user = u /\ w.by = r
    BY DEF ReferralWork, ReferralPlaces
  <2>2. call' = [call EXCEPT ![c] = w] /\ UNCHANGED <<referrer, given, paid>>
    BY <1>2 DEF FindReferrer
  <2> HIDE DEF w
  <2> QED
    BY <2>1, <2>2, MovesOn
<1> QED
  BY <1>1, <1>2

LEMMA ExistingKeeps ==
  ASSUME ReferralInv, NEW c \in Calls, FindExisting(c)
  PROVE  ReferralInv'
<1>1. CASE Finish(c)
  BY <1>1, EndReferral DEF FindExisting
<1>2. CASE Goto(c, "walk")
  <2> DEFINE w == [call[c] EXCEPT !.at = "walk"]
  <2>1. w \in ReferralWork /\ w.at = "walk" /\ w.user = call[c].user /\ w.by = call[c].by
    BY DEF ReferralInv, ReferralType, ReferralWork, ReferralPlaces
  <2>2. call' = [call EXCEPT ![c] = w]
    BY <1>2 DEF Goto
  <2>3. call[c].user \in Users /\ call[c].by \in Users
    BY DEF FindExisting, ReferralInv, NamesInv, At
  <2> HIDE DEF w
  <2> QED
    BY <2>1, <2>2, <2>3, MovesOn DEF FindExisting
<1> QED
  BY <1>1, <1>2 DEF FindExisting

LEMMA WalkKeeps ==
  ASSUME ReferralInv, NEW c \in Calls, Walk(c)
  PROVE  ReferralInv'
<1>1. CASE Seen(call[c])
  BY <1>1, EndReferral DEF Walk
<1>2. CASE ~Seen(call[c])
  <2> DEFINE w == [call[c] EXCEPT !.visited = @ \cup {call[c].current}, !.depth = @ + 1,
                                  !.current = referrer[call[c].current]]
  <2>1. call[c] \in ReferralWork /\ call[c].current \in Users
    BY DEF ReferralInv, ReferralType, ReferralWork, Walk
  <2>2. w \in ReferralWork /\ w.at = call[c].at /\ w.user = call[c].user /\ w.by = call[c].by
    <3>1. referrer[call[c].current] \in Users \cup {Nobody}
      BY <2>1 DEF ReferralInv, ReferralType
    <3>2. call[c].visited \cup {call[c].current} \in SUBSET Users /\ call[c].depth + 1 \in Nat
      BY <2>1 DEF ReferralWork
    <3> QED
      BY <2>1, <3>1, <3>2 DEF ReferralWork
  <2>3. call' = [call EXCEPT ![c] = w]
    BY <1>2, <2>1 DEF Walk, ReferralInv, ReferralType, ReferralWork
  <2>4. call[c].at = "walk" /\ call[c].user \in Users /\ call[c].by \in Users
    BY DEF Walk, ReferralInv, NamesInv, At
  <2> HIDE DEF w
  <2> QED
    BY <2>2, <2>3, <2>4, MovesOn DEF Walk
<1> QED
  BY <1>1, <1>2

-----------------------------------------------------------------------------
\* The row is new, so nobody has been paid for the user and nobody is about to be.
LEMMA CreateKeeps ==
  ASSUME ReferralInv, NEW c \in Calls, CreateReferral(c)
  PROVE  ReferralInv'
<1> DEFINE u == call[c].user
           r == call[c].by
<1>1. CASE referrer[u] # Nobody
  BY <1>1, EndReferral DEF CreateReferral
<1>2. CASE referrer[u] = Nobody
  <2>1. u \in Users /\ r \in Users /\ call[c].at = "walk"
    BY DEF CreateReferral, ReferralInv, NamesInv, At
  <2>2. /\ referrer' = [referrer EXCEPT ![u] = r]
        /\ call' = [call EXCEPT ![c].at = "award"]
        /\ UNCHANGED <<given, paid>>
    BY <1>2 DEF CreateReferral, Goto
  <2>3. \A d \in Calls : /\ d # c => call'[d] = call[d]
                         /\ call'[d].user = call[d].user /\ call'[d].by = call[d].by
                         /\ call'[d].at = IF d = c THEN "award" ELSE call[d].at
    BY <2>2 DEF ReferralInv, ReferralType, ReferralWork
  <2>4. ReferralType'
    BY <2>1, <2>2 DEF ReferralInv, ReferralType, ReferralWork, ReferralPlaces
  <2>5. NamesInv'
    BY <2>1, <2>3 DEF ReferralInv, NamesInv, At
  <2>6. \A d \in Calls : Paying(d) => call[d].user # u
    BY <1>2, AsksAssumption DEF ReferralInv, PayInv, NamesInv, Paying, At
  <2>7. \A v \in Users : referrer'[v] = IF v = u THEN r ELSE referrer[v]
    BY <2>2 DEF ReferralInv, ReferralType
  <2>8. \A d \in Calls : d # c => (Paying(d)' <=> Paying(d)) /\ (At(d, "award")' <=> At(d, "award"))
    BY <2>3 DEF Paying, At
  <2>9. PayInv'
    <3>1. \A d \in Calls : Paying(d)' => referrer'[call'[d].user] = call'[d].by
      BY <2>1, <2>3, <2>6, <2>7, <2>8 DEF ReferralInv, PayInv, NamesInv, Paying, At
    <3>2. \A d, e \in Calls : Paying(d)' /\ Paying(e)' /\ call'[d].user = call'[e].user => d = e
      BY <2>3, <2>6, <2>8 DEF ReferralInv, PayInv
    <3>3. paid[u] = <<>>
      BY <1>2, <2>1 DEF ReferralInv, PayInv
    <3>4. \A d \in Calls : At(d, "award")' => paid'[call'[d].user] = <<>>
      BY <2>2, <2>3, <3>3 DEF ReferralInv, PayInv, At
    <3>5. \A d \in Calls : At(d, "mark")' => paid'[call'[d].user] # <<>>
      BY <2>2, <2>3 DEF ReferralInv, PayInv, At
    <3>6. \A v \in Users : referrer'[v] = Nobody => paid'[v] = <<>>
      BY <2>1, <2>2, <2>7, <3>3 DEF ReferralInv, PayInv
    <3> QED
      BY <3>1, <3>2, <3>4, <3>5, <3>6 DEF PayInv
  <2>10. RewardedOnce'
    BY <1>2, <2>2, <2>7 DEF ReferralInv, RewardedOnce, PayInv
  <2> QED
    BY <2>4, <2>5, <2>9, <2>10 DEF ReferralInv
<1> QED
  BY <1>1, <1>2

LEMMA AwardKeeps ==
  ASSUME ReferralInv, NEW c \in Calls, AwardReferralBonus(c)
  PROVE  ReferralInv'
<1> DEFINE u == call[c].user
           r == call[c].by
<1>1. /\ u \in Users /\ r \in Users
      /\ At(c, "award") /\ Paying(c) /\ referrer[u] = r /\ paid[u] = <<>>
  BY DEF AwardReferralBonus, ReferralInv, NamesInv, PayInv, Paying, At
<1>2. /\ paid' = [paid EXCEPT ![u] = <<r>>]
      /\ call' = [call EXCEPT ![c].at = "mark"]
      /\ UNCHANGED <<referrer, given>>
  BY <1>1 DEF AwardReferralBonus, Goto, ReferralInv, ReferralType
<1>3. \A d \in Calls : /\ call'[d].user = call[d].user /\ call'[d].by = call[d].by
                       /\ call'[d].at = IF d = c THEN "mark" ELSE call[d].at
  BY <1>2 DEF ReferralInv, ReferralType, ReferralWork
<1>4. \A v \in Users : paid'[v] = IF v = u THEN <<r>> ELSE paid[v]
  BY <1>2 DEF ReferralInv, ReferralType
<1>5. ReferralType'
  <2>1. paid' \in [Users -> Seq(Users)]
    <3>1. <<r>> \in Seq(Users)
      BY <1>1
    <3> QED
      BY <1>2, <3>1 DEF ReferralInv, ReferralType
  <2>2. call' \in [Calls -> ReferralWork]
    BY <1>2 DEF ReferralInv, ReferralType, ReferralWork, ReferralPlaces
  <2> QED
    BY <1>2, <2>1, <2>2 DEF ReferralInv, ReferralType
<1>6. NamesInv'
  BY <1>1, <1>3 DEF ReferralInv, NamesInv, At
<1>7. \A d \in Calls : (Paying(d)' <=> Paying(d)) /\ (d # c /\ Paying(d) => call[d].user # u)
  BY <1>1, <1>3 DEF ReferralInv, PayInv, Paying, At
<1>8. PayInv'
  <2>1. \A d \in Calls : Paying(d)' => referrer'[call'[d].user] = call'[d].by
    BY <1>2, <1>3, <1>7 DEF ReferralInv, PayInv
  <2>2. \A d, e \in Calls : Paying(d)' /\ Paying(e)' /\ call'[d].user = call'[e].user => d = e
    BY <1>3, <1>7 DEF ReferralInv, PayInv
  <2>3. \A d \in Calls : At(d, "award")' => paid'[call'[d].user] = <<>>
    BY <1>3, <1>4, <1>7 DEF ReferralInv, PayInv, NamesInv, Paying, At
  <2>4. \A d \in Calls : At(d, "mark")' => paid'[call'[d].user] # <<>>
    BY <1>1, <1>3, <1>4, <1>7 DEF ReferralInv, PayInv, NamesInv, Paying, At
  <2>5. \A v \in Users : referrer'[v] = Nobody => paid'[v] = <<>>
    BY <1>1, <1>2, <1>4, AsksAssumption DEF ReferralInv, PayInv
  <2> QED
    BY <2>1, <2>2, <2>3, <2>4, <2>5 DEF PayInv
<1>9. RewardedOnce'
  BY <1>1, <1>2, <1>4 DEF ReferralInv, RewardedOnce
<1> QED
  BY <1>5, <1>6, <1>8, <1>9 DEF ReferralInv

LEMMA MarkKeeps ==
  ASSUME ReferralInv, NEW c \in Calls, MarkRewarded(c)
  PROVE  ReferralInv'
<1>1. Unused \in ReferralWork /\ Unused.at = "idle"
  BY DEF Unused, ReferralWork, ReferralPlaces
<1>2. call[c].user \in Users /\ paid[call[c].user] # <<>>
  BY DEF MarkRewarded, ReferralInv, NamesInv, PayInv, At
<1>3. \A d \in Calls : call'[d] = IF d = c THEN Unused ELSE call[d]
  BY DEF MarkRewarded, Finish, ReferralInv, ReferralType
<1>4. ReferralType'
  BY <1>1, <1>2 DEF MarkRewarded, Finish, ReferralInv, ReferralType
<1>5. NamesInv' /\ PayInv'
  BY <1>1, <1>3 DEF MarkRewarded, ReferralInv, NamesInv, PayInv, Paying, At
<1>6. RewardedOnce'
  BY <1>2 DEF MarkRewarded, ReferralInv, RewardedOnce
<1> QED
  BY <1>4, <1>5, <1>6 DEF ReferralInv

-----------------------------------------------------------------------------
LEMMA NextReferral ==
  ASSUME ReferralInv, [ReferralNext]_referralVars
  PROVE  ReferralInv'
<1>1. CASE UNCHANGED referralVars
  BY <1>1, StayReferral DEF referralVars
<1>2. ASSUME NEW c \in Calls, NEW u \in Users \ gone, NEW r \in Users, FindReferrer(c, u, r)
      PROVE  ReferralInv'
  BY <1>2, FindKeeps
<1>3. ASSUME NEW c \in Calls, FindExisting(c)
      PROVE  ReferralInv'
  BY <1>3, ExistingKeeps
<1>4. ASSUME NEW c \in Calls, Walk(c)
      PROVE  ReferralInv'
  BY <1>4, WalkKeeps
<1>5. ASSUME NEW c \in Calls, CreateReferral(c)
      PROVE  ReferralInv'
  BY <1>5, CreateKeeps
<1>6. ASSUME NEW c \in Calls, AwardReferralBonus(c)
      PROVE  ReferralInv'
  BY <1>6, AwardKeeps
<1>7. ASSUME NEW c \in Calls, MarkRewarded(c)
      PROVE  ReferralInv'
  BY <1>7, MarkKeeps
<1>8. ASSUME NEW c \in Calls, LoseReferral(c)
      PROVE  ReferralInv'
  BY <1>8, EndReferral DEF LoseReferral
<1>9. ASSUME NEW u \in Users, DeleteReferred(u)
      PROVE  ReferralInv'
  BY <1>9, StayReferral DEF DeleteReferred
<1> QED
  BY <1>1, <1>2, <1>3, <1>4, <1>5, <1>6, <1>7, <1>8, <1>9 DEF ReferralNext

\* However requests for the same users overlap, and wherever they are cut off:
\* the referrer named by a user's row is paid for the user once, nobody else is,
\* and a row is marked as rewarded after that (processRegistrationReferral).
THEOREM PaidForOnce == ReferralSpec => []RewardedOnce
<1>1. ReferralInit => ReferralInv
  BY InitReferral
<1>2. ReferralInv /\ [ReferralNext]_referralVars => ReferralInv'
  BY NextReferral
<1>3. ReferralInv => RewardedOnce
  BY DEF ReferralInv
<1> QED
  BY <1>1, <1>2, <1>3, PTL DEF ReferralSpec

-----------------------------------------------------------------------------
(* Circles.  Climb is Above for any table of referrers; it is a function     *)
(* defined by recursion, so that its first step is what has to be proved.   *)

Up(r, x) == IF x = Nobody THEN Nobody ELSE r[x]
Climb(r, u, n) ==
  LET up[i \in 0..n] == IF i = 0 THEN u
                        ELSE IF up[i - 1] = Nobody THEN Nobody ELSE r[up[i - 1]]
  IN up[n]

Table == [Users -> Users \cup {Nobody}]
Line(r, u, n, f) == f = [i \in 0..n |-> IF i = 0 THEN u ELSE Up(r, f[i - 1])]

LEMMA LineExists ==
  ASSUME NEW r \in Table, NEW u \in Users \cup {Nobody}
  PROVE  \A n \in Nat : \E f \in [0..n -> Users \cup {Nobody}] : Line(r, u, n, f)
<1> DEFINE S == Users \cup {Nobody}
           G == {n \in Nat : \E f \in [0..n -> S] : Line(r, u, n, f)}
<1>1. 0 \in G
  <2> DEFINE f == [i \in 0..0 |-> u]
  <2>1. f \in [0..0 -> S] /\ Line(r, u, 0, f)
    BY DEF Line
  <2> QED BY <2>1
<1>2. ASSUME NEW n \in Nat, n \in G PROVE n + 1 \in G
  <2>1. PICK f \in [0..n -> S] : Line(r, u, n, f)
    BY <1>2
  <2> DEFINE g == [i \in 0..(n + 1) |-> IF i = n + 1 THEN Up(r, f[n]) ELSE f[i]]
  <2>2. Up(r, f[n]) \in S
    BY DEF Up, Table
  <2>3. g \in [0..(n + 1) -> S]
    BY <2>2
  <2>4. ASSUME NEW i \in 0..(n + 1) PROVE g[i] = IF i = 0 THEN u ELSE Up(r, g[i - 1])
    <3>1. CASE i = n + 1
      <4>1. g[i] = Up(r, f[n]) /\ g[i - 1] = f[n] /\ i # 0
        BY <3>1
      <4> QED BY <4>1
    <3>2. CASE i # n + 1
      <4>1. g[i] = f[i] /\ i \in 0..n
        BY <3>2
      <4>2. i # 0 => i - 1 \in 0..n /\ g[i - 1] = f[i - 1]
        BY <4>1
      <4>3. f[i] = IF i = 0 THEN u ELSE Up(r, f[i - 1])
        BY <2>1, <4>1 DEF Line
      <4> QED BY <4>1, <4>2, <4>3
    <3> QED BY <3>1, <3>2
  <2>5. Line(r, u, n + 1, g)
    <3> HIDE DEF g
    <3>1. g = [i \in 0..(n + 1) |-> g[i]]
      BY <2>3
    <3> QED BY <2>4, <3>1 DEF Line
  <2> QED BY <2>3, <2>5
<1>3. \A n \in Nat : n \in G
  <2> HIDE DEF G
  <2> QED BY <1>1, <1>2, Induction
<1> QED BY <1>3

\* Lines that begin alike go on alike.
LEMMA LineUnique ==
  ASSUME NEW r, NEW u, NEW m \in Nat, NEW n \in Nat, n <= m,
         NEW f, Line(r, u, n, f), NEW g, Line(r, u, m, g)
  PROVE  \A i \in 0..n : f[i] = g[i]
<1> DEFINE G == {i \in Nat : i <= n => f[i] = g[i]}
<1>1. /\ \A i \in 0..n : f[i] = IF i = 0 THEN u ELSE Up(r, f[i - 1])
      /\ \A i \in 0..m : g[i] = IF i = 0 THEN u ELSE Up(r, g[i - 1])
  BY DEF Line
<1>2. 0 \in G
  <2>1. 0 \in 0..n /\ 0 \in 0..m
    OBVIOUS
  <2> QED BY <1>1, <2>1
<1>3. ASSUME NEW i \in Nat, i \in G PROVE i + 1 \in G
  <2> SUFFICES ASSUME i + 1 <= n PROVE f[i + 1] = g[i + 1]
    OBVIOUS
  <2>1. i + 1 \in 0..n /\ i + 1 \in 0..m /\ i + 1 # 0 /\ (i + 1) - 1 = i /\ f[i] = g[i]
    BY <1>3
  <2>2. f[i + 1] = Up(r, f[(i + 1) - 1]) /\ g[i + 1] = Up(r, g[(i + 1) - 1])
    BY <1>1, <2>1
  <2> QED BY <2>1, <2>2
<1>4. \A i \in Nat : i \in G
  <2> HIDE DEF G
  <2> QED BY <1>2, <1>3, Induction
<1> QED BY <1>4

LEMMA ClimbIs ==
  ASSUME NEW r \in Table, NEW u \in Users \cup {Nobody}, NEW n \in Nat
  PROVE  \E f \in [0..n -> Users \cup {Nobody}] : Line(r, u, n, f) /\ Climb(r, u, n) = f[n]
<1> DEFINE up == CHOOSE h : h = [i \in 0..n |-> IF i = 0 THEN u
                          ELSE IF h[i - 1] = Nobody THEN Nobody ELSE r[h[i - 1]]]
<1>1. Climb(r, u, n) = up[n]
  BY DEF Climb
<1>2. PICK f \in [0..n -> Users \cup {Nobody}] : Line(r, u, n, f)
  BY LineExists
<1>3. f = [i \in 0..n |-> IF i = 0 THEN u
             ELSE IF f[i - 1] = Nobody THEN Nobody ELSE r[f[i - 1]]]
  BY <1>2 DEF Line, Up
<1>4. up = [i \in 0..n |-> IF i = 0 THEN u
             ELSE IF up[i - 1] = Nobody THEN Nobody ELSE r[up[i - 1]]]
  BY <1>3
<1> HIDE DEF up
<1>5. Line(r, u, n, up)
  BY <1>4 DEF Line, Up
<1>6. \A i \in 0..n : f[i] = up[i]
  BY <1>2, <1>5, LineUnique
<1>7. Climb(r, u, n) = f[n]
  BY <1>1, <1>6
<1> QED BY <1>2, <1>7

\* Climbing goes one referrer up at a time.
LEMMA ClimbStep ==
  ASSUME NEW r \in Table, NEW u \in Users \cup {Nobody}
  PROVE  /\ Climb(r, u, 0) = u
         /\ \A n \in Nat : /\ Climb(r, u, n) \in Users \cup {Nobody}
                           /\ Climb(r, u, n + 1) = Up(r, Climb(r, u, n))
<1>1. Climb(r, u, 0) = u
  <2>1. PICK f \in [0..0 -> Users \cup {Nobody}] : Line(r, u, 0, f) /\ Climb(r, u, 0) = f[0]
    BY ClimbIs
  <2>2. f[0] = u
    BY <2>1 DEF Line
  <2> QED BY <2>1, <2>2
<1>2. ASSUME NEW n \in Nat
      PROVE  /\ Climb(r, u, n) \in Users \cup {Nobody}
             /\ Climb(r, u, n + 1) = Up(r, Climb(r, u, n))
  <2>1. PICK f \in [0..n -> Users \cup {Nobody}] : Line(r, u, n, f) /\ Climb(r, u, n) = f[n]
    BY ClimbIs
  <2> DEFINE m == n + 1
  <2>2. m \in Nat /\ n <= m /\ n \in 0..n /\ m \in 0..m /\ m # 0 /\ m - 1 = n
    OBVIOUS
  <2> HIDE DEF m
  <2>3. PICK g \in [0..m -> Users \cup {Nobody}] : Line(r, u, m, g) /\ Climb(r, u, m) = g[m]
    BY <2>2, ClimbIs
  <2>4. f[n] = g[n]
    BY <2>1, <2>2, <2>3, LineUnique
  <2>5. g[m] = Up(r, g[m - 1])
    BY <2>2, <2>3 DEF Line
  <2>6. Climb(r, u, m) = Up(r, Climb(r, u, n)) /\ Climb(r, u, n) \in Users \cup {Nobody}
    BY <2>1, <2>2, <2>3, <2>4, <2>5
  <2> QED BY <2>6 DEF m
<1> QED BY <1>1, <1>2

LEMMA ClimbOn ==
  ASSUME NEW r \in Table, NEW u \in Users \cup {Nobody}, NEW i \in Nat
  PROVE  \A j \in Nat : Climb(r, Climb(r, u, i), j) = Climb(r, u, i + j)
<1> DEFINE v == Climb(r, u, i)
           G == {j \in Nat : Climb(r, v, j) = Climb(r, u, i + j)}
<1>1. v \in Users \cup {Nobody}
  BY ClimbStep
<1> HIDE DEF v
<1>2. Climb(r, v, 0) = v /\ \A j \in Nat : Climb(r, v, j + 1) = Up(r, Climb(r, v, j))
  BY <1>1, ClimbStep
<1>3. \A n \in Nat : Climb(r, u, n + 1) = Up(r, Climb(r, u, n))
  BY ClimbStep
<1>4. 0 \in G
  <2>1. i + 0 = i
    OBVIOUS
  <2> QED BY <1>2, <2>1 DEF v
<1>5. ASSUME NEW j \in Nat, j \in G PROVE j + 1 \in G
  <2>1. i + (j + 1) = (i + j) + 1 /\ i + j \in Nat /\ j + 1 \in Nat
    OBVIOUS
  <2>2. Climb(r, u, (i + j) + 1) = Up(r, Climb(r, u, i + j))
    BY <1>3, <2>1
  <2>3. Climb(r, v, j + 1) = Up(r, Climb(r, v, j)) /\ Climb(r, v, j) = Climb(r, u, i + j)
    BY <1>2, <1>5
  <2>4. Climb(r, v, j + 1) = Climb(r, u, i + (j + 1))
    BY <2>1, <2>2, <2>3
  <2> QED BY <2>1, <2>4
<1>6. \A j \in Nat : j \in G
  <2> HIDE DEF G
  <2> QED BY <1>4, <1>5, Induction
<1> QED BY <1>6 DEF v

\* Two tables that agree wherever the climb comes by agree on it.
LEMMA ClimbSame ==
  ASSUME NEW r \in Table, NEW s \in Table, NEW v \in Users, NEW n \in Nat,
         \A i \in 0..(n - 1) : Climb(r, v, i) # Nobody => s[Climb(r, v, i)] = r[Climb(r, v, i)]
  PROVE  \A i \in 0..n : Climb(s, v, i) = Climb(r, v, i)
<1> DEFINE G == {i \in Nat : i <= n => Climb(s, v, i) = Climb(r, v, i)}
<1>1. /\ Climb(r, v, 0) = v /\ \A i \in Nat : Climb(r, v, i + 1) = Up(r, Climb(r, v, i))
      /\ Climb(s, v, 0) = v /\ \A i \in Nat : Climb(s, v, i + 1) = Up(s, Climb(s, v, i))
  BY ClimbStep
<1>2. 0 \in G
  BY <1>1
<1>3. ASSUME NEW i \in Nat, i \in G PROVE i + 1 \in G
  <2> SUFFICES ASSUME i + 1 <= n PROVE Climb(s, v, i + 1) = Climb(r, v, i + 1)
    OBVIOUS
  <2>1. Climb(s, v, i) = Climb(r, v, i) /\ i \in 0..(n - 1)
    BY <1>3
  <2>2. Up(s, Climb(r, v, i)) = Up(r, Climb(r, v, i))
    BY <2>1 DEF Up
  <2>3. Climb(r, v, i + 1) = Up(r, Climb(r, v, i)) /\ Climb(s, v, i + 1) = Up(s, Climb(s, v, i))
    BY <1>1
  <2> QED BY <2>1, <2>2, <2>3
<1>4. \A i \in Nat : i \in G
  <2> HIDE DEF G
  <2> QED BY <1>2, <1>3, Induction
<1> QED BY <1>4

NoCircle(r) == \A v \in Users, n \in 1..MaxDepth : Climb(r, v, n) # v

\* A new referral closes no circle that the walk could have seen: going round from
\* the new row's user comes by the referrer first, and from there back to the user.
LEMMA NewReferral ==
  ASSUME NEW r \in Table, NEW u \in Users, NEW b \in Users, NoCircle(r),
         \A i \in 0..(MaxDepth - 1) : Climb(r, b, i) # u
  PROVE  NoCircle([r EXCEPT ![u] = b])
<1> DEFINE s == [r EXCEPT ![u] = b]
<1>1. s \in Table /\ s[u] = b /\ \A x \in Users : x # u => s[x] = r[x]
  BY DEF Table
<1>2. MaxDepth \in Nat
  BY ReferralAssumption
<1>3. Nobody \notin Users
  BY AsksAssumption
<1> HIDE DEF s
<1> SUFFICES ASSUME NEW v \in Users, NEW n \in 1..MaxDepth, Climb(s, v, n) = v
             PROVE  FALSE
  BY DEF NoCircle, s
<1>4. n \in Nat /\ n - 1 \in Nat /\ n - 1 <= MaxDepth - 1 /\ 1 + (n - 1) = n
  BY <1>2
<1>5. \A x \in Users, i \in Nat : /\ Climb(r, x, i) \in Users \cup {Nobody}
                                  /\ Climb(s, x, i) \in Users \cup {Nobody}
  BY <1>1, ClimbStep
<1>6. CASE \A i \in 0..(n - 1) : Climb(s, v, i) # u
  <2>1. \A i \in 0..(n - 1) : Climb(s, v, i) # Nobody => r[Climb(s, v, i)] = s[Climb(s, v, i)]
    BY <1>1, <1>4, <1>5, <1>6
  <2>2. \A i \in 0..n : Climb(r, v, i) = Climb(s, v, i)
    BY <1>1, <1>4, <2>1, ClimbSame
  <2>3. Climb(r, v, n) = v
    BY <1>4, <2>2
  <2> QED BY <2>3 DEF NoCircle
<1>7. CASE \E i \in 0..(n - 1) : Climb(s, v, i) = u
  <2>1. PICK i \in 0..(n - 1) : Climb(s, v, i) = u
    BY <1>7
  <2>2. i \in Nat /\ i + n = n + i
    BY <1>4
  <2>3. Climb(s, u, n) = u
    <3>1. Climb(s, Climb(s, v, i), n) = Climb(s, v, i + n)
      BY <1>1, <1>4, <2>2, ClimbOn
    <3>2. Climb(s, Climb(s, v, n), i) = Climb(s, v, n + i)
      BY <1>1, <1>4, <2>2, ClimbOn
    <3> QED BY <2>1, <2>2, <3>1, <3>2
  <2>4. Climb(s, u, 1) = b
    <3>1. Climb(s, u, 0) = u /\ Climb(s, u, 0 + 1) = Up(s, Climb(s, u, 0))
      BY <1>1, ClimbStep
    <3>2. 0 + 1 = 1
      OBVIOUS
    <3> QED BY <1>1, <1>3, <3>1, <3>2 DEF Up
  <2>5. Climb(s, b, n - 1) = u
    <3>1. Climb(s, Climb(s, u, 1), n - 1) = Climb(s, u, 1 + (n - 1))
      BY <1>1, <1>4, ClimbOn
    <3> QED BY <1>4, <2>3, <2>4, <3>1
  <2>6. Climb(r, b, n - 1) = u
    <3> DEFINE m == n - 1
    <3>1. m \in Nat /\ m \in 0..m /\ \A j \in 0..(m - 1) : j \in 0..(MaxDepth - 1) /\ j \in Nat
      BY <1>2, <1>4
    <3>2. \A j \in 0..(m - 1) : Climb(r, b, j) # Nobody => s[Climb(r, b, j)] = r[Climb(r, b, j)]
      BY <1>1, <1>5, <3>1
    <3> HIDE DEF m
    <3>3. \A j \in 0..m : Climb(s, b, j) = Climb(r, b, j)
      BY <1>1, <3>1, <3>2, ClimbSame
    <3> QED BY <2>5, <3>1, <3>3 DEF m
  <2>7. n - 1 \in 0..(MaxDepth - 1)
    BY <1>2, <1>4
  <2> QED BY <2>6, <2>7
<1> QED BY <1>6, <1>7

-----------------------------------------------------------------------------
\* In calm behaviours one request is under way, and it has climbed as many rows as
\* it has counted without coming by its user.
Climbing(c) ==
  /\ call[c].user \in call[c].visited
  /\ call[c].depth \in 0..MaxDepth
  /\ call[c].current = Climb(referrer, call[c].by, call[c].depth)
  /\ \A i \in 0..(call[c].depth - 1) : Climb(referrer, call[c].by, i) # call[c].user

CircleInv ==
  calm => /\ \A c, d \in Calls : ~At(c, "idle") /\ ~At(d, "idle") => c = d
          /\ \A c \in Calls : At(c, "existing") \/ At(c, "walk") => Climbing(c)
          /\ NoCircle(referrer)

LEMMA CircleInit ==
  ASSUME ReferralInit, ReferralInv
  PROVE  CircleInv
<1>1. \A c \in Calls : At(c, "idle")
  BY DEF ReferralInit, Unused, At
<1>2. referrer \in Table /\ Nobody \notin Users
  BY ReferralAssumption, AsksAssumption DEF ReferralInv, ReferralType, Table
<1>3. ASSUME NEW u \in Users, NEW n \in 1..MaxDepth PROVE Climb(referrer, u, n) # u
  <2>1. n \in Nat /\ n - 1 \in Nat /\ (n - 1) + 1 = n
    BY ReferralAssumption
  <2>2. /\ Climb(referrer, u, n - 1) \in Users \cup {Nobody}
        /\ Climb(referrer, u, (n - 1) + 1) = Up(referrer, Climb(referrer, u, n - 1))
    BY <1>2, <2>1, ClimbStep
  <2>3. Climb(referrer, u, n) = Nobody
    BY <2>1, <2>2 DEF Up, ReferralInit
  <2> QED BY <1>2, <2>3
<1> QED BY <1>1, <1>3 DEF CircleInv, NoCircle, At

\* A request that moves, while no referral is made.
LEMMA CircleMove ==
  ASSUME CircleInv, ReferralInv, UNCHANGED <<referrer, calm>>, NEW c \in Calls, NEW w,
         call' = [call EXCEPT ![c] = w],
         calm => \A d \in Calls \ {c} : At(d, "idle"),
         calm /\ w.at \in {"existing", "walk"} =>
           /\ w.user \in w.visited /\ w.depth \in 0..MaxDepth
           /\ w.current = Climb(referrer, w.by, w.depth)
           /\ \A i \in 0..(w.depth - 1) : Climb(referrer, w.by, i) # w.user
  PROVE  CircleInv'
<1>1. call'[c] = w /\ \A d \in Calls \ {c} : call'[d] = call[d]
  BY DEF ReferralInv, ReferralType
<1> SUFFICES ASSUME calm PROVE CircleInv'
  BY DEF CircleInv
<1>2. \A d \in Calls \ {c} : At(d, "idle")'
  BY <1>1 DEF At
<1>3. \A d, e \in Calls : ~At(d, "idle")' /\ ~At(e, "idle")' => d = e
  BY <1>2
<1>4. ASSUME NEW d \in Calls, At(d, "existing")' \/ At(d, "walk")' PROVE Climbing(d)'
  <2>1. d = c
    BY <1>2, <1>4 DEF At
  <2> QED BY <1>1, <1>4, <2>1 DEF Climbing, At
<1>5. NoCircle(referrer)'
  BY DEF CircleInv
<1> QED BY <1>3, <1>4, <1>5 DEF CircleInv

\* The request that is under way is alone.
LEMMA OthersIdle ==
  ASSUME CircleInv, NEW c \in Calls, ~At(c, "idle")
  PROVE  calm => \A d \in Calls \ {c} : At(d, "idle")
BY DEF CircleInv

LEMMA CircleEnd ==
  ASSUME CircleInv, ReferralInv, UNCHANGED <<referrer, calm>>, NEW c \in Calls,
         ~At(c, "idle"), Finish(c)
  PROVE  CircleInv'
<1>1. Unused.at = "idle" /\ call' = [call EXCEPT ![c] = Unused]
  BY DEF Finish, Unused
<1>2. calm => \A d \in Calls \ {c} : At(d, "idle")
  BY OthersIdle
<1> QED BY <1>1, <1>2, CircleMove

LEMMA CircleGoto ==
  ASSUME CircleInv, ReferralInv, UNCHANGED <<referrer, calm>>, NEW c \in Calls, NEW l,
         Goto(c, l), ~At(c, "idle"),
         l \notin {"existing", "walk"} \/ At(c, "existing") \/ At(c, "walk")
  PROVE  CircleInv'
<1> DEFINE w == [call[c] EXCEPT !.at = l]
<1>1. call' = [call EXCEPT ![c] = w]
  BY DEF Goto, ReferralInv, ReferralType
<1>2. /\ w.at = l /\ w.user = call[c].user /\ w.by = call[c].by /\ w.current = call[c].current
      /\ w.visited = call[c].visited /\ w.depth = call[c].depth
  BY DEF ReferralInv, ReferralType, ReferralWork
<1>3. calm /\ (At(c, "existing") \/ At(c, "walk")) => Climbing(c)
  BY DEF CircleInv
<1>4. calm => \A d \in Calls \ {c} : At(d, "idle")
  BY OthersIdle
<1> HIDE DEF w
<1> QED BY <1>1, <1>2, <1>3, <1>4, CircleMove DEF Climbing

LEMMA CircleFind ==
  ASSUME CircleInv, ReferralInv, NEW c \in Calls, NEW u \in Users, NEW r \in Users,
         FindReferrer(c, u, r)
  PROVE  CircleInv'
<1>1. UNCHANGED <<referrer, calm>> /\ (calm => Quiet)
  BY DEF FindReferrer, Ask
<1>2. CASE UNCHANGED call
  BY <1>1, <1>2 DEF CircleInv, Climbing, At
<1>3. CASE ~UNCHANGED call
  <2> DEFINE w == [at |-> "existing", user |-> u, by |-> r, current |-> r,
                   visited |-> {u}, depth |-> 0]
  <2>1. call' = [call EXCEPT ![c] = w]
    BY <1>3 DEF FindReferrer
  <2>2. /\ w.user = u /\ w.by = r /\ w.current = r /\ w.depth = 0 /\ w.visited = {u}
        /\ w.depth \in 0..MaxDepth
    BY ReferralAssumption
  <2>3. referrer \in Table
    BY DEF ReferralInv, ReferralType, Table
  <2>4. Climb(referrer, r, 0) = r
    BY <2>3, ClimbStep
  <2>5. calm => \A d \in Calls \ {c} : At(d, "idle")
    BY <1>1 DEF Quiet
  <2> HIDE DEF w
  <2>6. /\ w.user \in w.visited /\ w.depth \in 0..MaxDepth
        /\ w.current = Climb(referrer, w.by, w.depth)
        /\ \A i \in 0..(w.depth - 1) : Climb(referrer, w.by, i) # w.user
    BY <2>2, <2>4
  <2> QED BY <1>1, <2>1, <2>5, <2>6, CircleMove
<1> QED BY <1>2, <1>3

LEMMA CircleWalk ==
  ASSUME CircleInv, ReferralInv, NEW c \in Calls, Walk(c)
  PROVE  CircleInv'
<1>1. UNCHANGED <<referrer, calm>> /\ At(c, "walk") /\ ~At(c, "idle")
  BY DEF Walk, At
<1>2. CASE Seen(call[c])
  BY <1>1, <1>2, CircleEnd DEF Walk
<1>3. CASE ~Seen(call[c])
  <2> DEFINE w == [call[c] EXCEPT !.visited = @ \cup {call[c].current}, !.depth = @ + 1,
                                  !.current = referrer[call[c].current]]
  <2>1. call[c] \in ReferralWork /\ call[c].current \in Users /\ call[c].by \in Users
        /\ call[c].depth < MaxDepth
    BY DEF ReferralInv, ReferralType, NamesInv, ReferralWork, Walk, At
  <2>2. call' = [call EXCEPT ![c] = w]
    BY <1>3, <2>1 DEF Walk, ReferralInv, ReferralType, ReferralWork
  <2>3. /\ w.user = call[c].user /\ w.by = call[c].by /\ w.depth = call[c].depth + 1
        /\ w.current = referrer[call[c].current]
        /\ w.visited = call[c].visited \cup {call[c].current}
    BY <2>1 DEF ReferralWork
  <2> HIDE DEF w
  <2>4. ASSUME calm
        PROVE  /\ w.user \in w.visited /\ w.depth \in 0..MaxDepth
               /\ w.current = Climb(referrer, w.by, w.depth)
               /\ \A i \in 0..(w.depth - 1) : Climb(referrer, w.by, i) # w.user
    <3>1. Climbing(c)
      BY <1>1, <2>4 DEF CircleInv
    <3>2. call[c].depth \in Nat /\ MaxDepth \in Nat
      BY <2>1, ReferralAssumption DEF ReferralWork
    <3>3. w.user \in w.visited /\ w.depth \in 0..MaxDepth
      BY <2>1, <2>3, <3>1, <3>2 DEF Climbing
    <3>4. w.current = Climb(referrer, w.by, w.depth)
      <4>1. referrer \in Table /\ Nobody \notin Users
        BY ReferralAssumption, AsksAssumption DEF ReferralInv, ReferralType, Table
      <4>2. Climb(referrer, w.by, call[c].depth + 1) = Up(referrer, call[c].current)
        BY <2>1, <2>3, <3>1, <3>2, <4>1, ClimbStep DEF Climbing
      <4> QED BY <2>1, <2>3, <4>1, <4>2 DEF Up
    <3>5. call[c].current # call[c].user
      BY <1>3, <3>1 DEF Seen, Climbing
    <3>6. ASSUME NEW i \in 0..(w.depth - 1) PROVE Climb(referrer, w.by, i) # w.user
      <4>1. i = call[c].depth \/ i \in 0..(call[c].depth - 1)
        BY <2>3, <3>2
      <4> QED BY <2>3, <3>1, <3>5, <4>1 DEF Climbing
    <3> QED BY <3>3, <3>4, <3>6
  <2>5. calm => \A d \in Calls \ {c} : At(d, "idle")
    BY <1>1, OthersIdle
  <2> QED BY <1>1, <2>2, <2>4, <2>5, CircleMove
<1> QED BY <1>2, <1>3

\* Above a row without a referrer there is nobody.
LEMMA ClimbTop ==
  ASSUME NEW r \in Table, NEW b \in Users, NEW d \in Nat, Climb(r, b, d) = Nobody
  PROVE  \A i \in Nat : i >= d => Climb(r, b, i) = Nobody
<1> DEFINE G == {n \in Nat : Climb(r, b, d + n) = Nobody}
<1>1. \A n \in Nat : Climb(r, b, n + 1) = Up(r, Climb(r, b, n))
  BY ClimbStep
<1>2. 0 \in G
  <2>1. d + 0 = d
    OBVIOUS
  <2> QED BY <2>1
<1>3. ASSUME NEW n \in Nat, n \in G PROVE n + 1 \in G
  <2>1. d + n \in Nat /\ d + (n + 1) = (d + n) + 1 /\ Climb(r, b, d + n) = Nobody
    BY <1>3
  <2>2. Climb(r, b, (d + n) + 1) = Nobody
    BY <1>1, <2>1 DEF Up
  <2> QED BY <2>1, <2>2
<1>4. \A n \in Nat : n \in G
  <2> HIDE DEF G
  <2> QED BY <1>2, <1>3, Induction
<1> SUFFICES ASSUME NEW i \in Nat, i >= d PROVE Climb(r, b, i) = Nobody
  OBVIOUS
<1>5. i - d \in Nat /\ d + (i - d) = i
  OBVIOUS
<1>6. Climb(r, b, d + (i - d)) = Nobody
  BY <1>4, <1>5
<1> QED BY <1>5, <1>6

LEMMA CircleCreate ==
  ASSUME CircleInv, ReferralInv, NEW c \in Calls, CreateReferral(c)
  PROVE  CircleInv'
<1>1. UNCHANGED calm /\ At(c, "walk") /\ ~At(c, "idle")
  BY DEF CreateReferral, At
<1>2. CASE referrer[call[c].user] # Nobody
  BY <1>1, <1>2, CircleEnd DEF CreateReferral
<1>3. CASE referrer[call[c].user] = Nobody
  <2>1. PICK u \in Users, b \in Users : u = call[c].user /\ b = call[c].by
    BY <1>1 DEF ReferralInv, NamesInv, At
  <2>2. referrer' = [referrer EXCEPT ![u] = b] /\ Goto(c, "award")
    BY <1>3, <2>1 DEF CreateReferral
  <2> SUFFICES ASSUME calm PROVE CircleInv'
    BY <1>1 DEF CircleInv
  <2>3. Climbing(c) /\ \A d \in Calls \ {c} : At(d, "idle")
    BY <1>1, OthersIdle DEF CircleInv
  <2>4. referrer \in Table /\ MaxDepth \in Nat /\ Nobody \notin Users
    BY ReferralAssumption, AsksAssumption DEF ReferralInv, ReferralType, Table
  <2>5. \A i \in 0..(MaxDepth - 1) : Climb(referrer, b, i) # u
    <3> DEFINE n == call[c].depth
    <3>1. n \in 0..MaxDepth /\ n \in Nat
      BY <2>3 DEF Climbing
    <3>2. \A i \in 0..(n - 1) : Climb(referrer, b, i) # u
      BY <2>1, <2>3 DEF Climbing
    <3>3. n = MaxDepth \/ Climb(referrer, b, n) = Nobody
      BY <2>1, <2>3 DEF Climbing, CreateReferral
    <3> HIDE DEF n
    <3>4. CASE n = MaxDepth
      BY <3>2, <3>4
    <3>5. CASE Climb(referrer, b, n) = Nobody
      <4>1. \A i \in Nat : i >= n => Climb(referrer, b, i) = Nobody
        BY <2>4, <3>1, <3>5, ClimbTop
      <4>2. ASSUME NEW i \in 0..(MaxDepth - 1) PROVE Climb(referrer, b, i) # u
        <5>1. i \in Nat /\ (i >= n \/ i \in 0..(n - 1))
          BY <2>4, <3>1
        <5> QED BY <2>4, <3>2, <4>1, <5>1
      <4> QED BY <4>2
    <3> QED BY <3>3, <3>4, <3>5
  <2>6. NoCircle(referrer')
    <3>1. NoCircle(referrer)
      BY DEF CircleInv
    <3> QED BY <2>2, <2>4, <2>5, <3>1, NewReferral
  <2>7. \A d \in Calls : At(d, "idle")' \/ (d = c /\ At(d, "award")')
    <3>1. \A d \in Calls : call'[d].at = IF d = c THEN "award" ELSE call[d].at
      BY <2>2 DEF Goto, ReferralInv, ReferralType, ReferralWork
    <3> QED BY <2>3, <3>1 DEF At
  <2> QED BY <2>6, <2>7 DEF CircleInv, At
<1> QED BY <1>2, <1>3

LEMMA CircleStep ==
  ASSUME CircleInv, ReferralInv, [ReferralNext]_referralVars
  PROVE  CircleInv'
<1>1. ASSUME NEW c \in Calls, FindExisting(c) PROVE CircleInv'
  <2>1. UNCHANGED <<referrer, calm>> /\ At(c, "existing") /\ ~At(c, "idle")
        /\ (Finish(c) \/ Goto(c, "walk"))
    BY <1>1 DEF FindExisting, At
  <2> QED BY <2>1, CircleEnd, CircleGoto
<1>2. ASSUME NEW c \in Calls, AwardReferralBonus(c) PROVE CircleInv'
  <2>1. UNCHANGED <<referrer, calm>> /\ ~At(c, "idle") /\ Goto(c, "mark")
    BY <1>2 DEF AwardReferralBonus, At
  <2>2. "mark" \notin {"existing", "walk"}
    OBVIOUS
  <2> QED BY <2>1, <2>2, CircleGoto
<1>3. ASSUME NEW c \in Calls, MarkRewarded(c) \/ LoseReferral(c) PROVE CircleInv'
  <2>1. UNCHANGED <<referrer, calm>> /\ ~At(c, "idle") /\ Finish(c)
    BY <1>3 DEF MarkRewarded, LoseReferral, At
  <2> QED BY <2>1, CircleEnd
<1>4. ASSUME UNCHANGED <<referrer, call, calm>> PROVE CircleInv'
  BY <1>4 DEF CircleInv, Climbing, At
<1>5. ASSUME NEW u \in Users, DeleteReferred(u) PROVE CircleInv'
  BY <1>4, <1>5 DEF DeleteReferred
<1> QED
  BY <1>1, <1>2, <1>3, <1>4, <1>5, CircleFind, CircleWalk, CircleCreate
     DEF ReferralNext, referralVars

\* With one request at a time the walk up the referrers keeps every circle longer
\* than the rows it reads, however many referrals are made (referral.service.ts
\* 79-98).
THEOREM CirclesAreLongAlways == ReferralSpec => []CirclesAreLong
<1>1. ReferralInit => ReferralInv /\ CircleInv
  BY InitReferral, CircleInit
<1>2. ReferralInv /\ CircleInv /\ [ReferralNext]_referralVars => (ReferralInv /\ CircleInv)'
  BY NextReferral, CircleStep
<1>3. ReferralInv /\ CircleInv => CirclesAreLong
  BY DEF CircleInv, NoCircle, CirclesAreLong, Above, Climb
<1> QED BY <1>1, <1>2, <1>3, PTL DEF ReferralSpec

-----------------------------------------------------------------------------
(* The counters in Redis.  RateInv says what a counter knows of the requests *)
(* that were admitted: the script's of those since its window began, a       *)
(* counter of codes or sign-ins of all that came within the window, as long  *)
(* as somebody who raised it also renews its time to live.                   *)

Wheres == {"idle", "get", "increment", "expire", "script"}

\* A request that is somewhere has keys left, and is at the script for a key
\* that the script counts.
Waiting == {w \in [at : Wheres, left : Seq(Keys)] :
               w.at # "idle" => w.left # <<>> /\ (w.at = "script" <=> Head(w.left) \in Scripted)}

RateType ==
  /\ count \in [Keys -> Nat] /\ ttl \in [Keys -> Nat \cup {Forever}]
  /\ redisUp \in BOOLEAN /\ route \in Routes
  /\ call \in [Calls -> Waiting]
  /\ recent = [k \in Keys |-> recent[k]]
  /\ \A k \in Keys : recent[k] \in [1..Window[k] -> Nat]

\* The first n ticks of a key's window.
Last(k, n) == Upto(recent[k], n)

\* A window of the script: what it has counted is what was admitted since it
\* began, and what was admitted before that is at most another limit.
LetIn(k) == IF count[k] > Limit[k] THEN Limit[k] ELSE count[k]
ScriptWindow(k) ==
  IF count[k] = 0 THEN ttl[k] = 0 /\ recent[k][1] = 0 /\ Last(k, Window[k]) <= Limit[k]
  ELSE /\ ttl[k] \in 1..Window[k]
       /\ Last(k, Window[k] - ttl[k] + 1) = LetIn(k)
       /\ Last(k, Window[k]) <= Limit[k] + LetIn(k)

Raising(k)  == {c \in Calls : At(c, "increment") /\ Key(c) = k}
Expiring(k) == \E c \in Calls : At(c, "expire") /\ Key(c) = k

\* A window that slides: the counter holds what was admitted, and what
\* requests that have read it will add stays within the others' number.  Unless
\* a request is about to renew it, the time to live says when the last came.
SlidingWindow(k) ==
  /\ count[k] + Cardinality(Raising(k)) <= Limit[k] + Cardinality(Calls) - 1
  /\ Last(k, Window[k]) <= count[k]
  /\ IF Expiring(k) THEN count[k] > 0
     ELSE ttl[k] \in 0..Window[k] /\ Last(k, Window[k] - ttl[k]) = 0

RateInv ==
  /\ RateType
  /\ \A k \in Scripted : ScriptWindow(k)
  /\ calm => redisUp /\ \A k \in Keys \ Scripted : SlidingWindow(k)

-----------------------------------------------------------------------------
\* A request that waits is at a key.
LEMMA KeyOf ==
  ASSUME RateType, NEW c \in Calls, ~At(c, "idle")
  PROVE  /\ call[c] \in Waiting /\ call[c].left \in Seq(Keys) /\ call[c].left # <<>>
         /\ Key(c) \in Keys
         /\ At(c, "script") <=> Key(c) \in Scripted
BY DEF RateType, Waiting, Key, At

\* Where a request is after it has passed a key, or left.
Elsewhere(w) == w \in Waiting /\ w.at \in {"idle", "get", "script"}

LEMMA PassGoes ==
  ASSUME RateType, NEW c \in Calls, ~At(c, "idle"), Pass(c)
  PROVE  \E w : Elsewhere(w) /\ call' = [call EXCEPT ![c] = w]
<1> DEFINE rest == Tail(call[c].left)
<1>1. call[c].left \in Seq(Keys) /\ call[c].left # <<>>
  BY KeyOf
<1>2. rest \in Seq(Keys)
  BY <1>1
<1> HIDE DEF rest
<1>3. CASE rest = <<>>
  <2>1. NoRequest \in Waiting /\ NoRequest.at = "idle"
    BY DEF NoRequest, Waiting, Wheres
  <2> QED BY <1>3, <2>1 DEF Pass, Leave, Elsewhere, rest
<1>4. CASE rest # <<>>
  <2> DEFINE w == [at |-> Place(rest), left |-> rest]
  <2>1. w \in Waiting /\ w.at \in {"get", "script"}
    BY <1>2, <1>4 DEF Place, Waiting, Wheres
  <2>2. call' = [call EXCEPT ![c] = w]
    BY <1>4 DEF Pass, rest
  <2> QED BY <2>1, <2>2 DEF Elsewhere
<1> QED BY <1>3, <1>4

LEMMA LeaveGoes ==
  ASSUME NEW c \in Calls, Leave(c)
  PROVE  Elsewhere(NoRequest) /\ call' = [call EXCEPT ![c] = NoRequest]
BY DEF Leave, NoRequest, Elsewhere, Waiting, Wheres

\* A step of one request that leaves the counters alone.
LEMMA CallType ==
  ASSUME RateType, NEW c \in Calls, NEW w \in Waiting, call' = [call EXCEPT ![c] = w],
         UNCHANGED <<route, count, ttl, recent>>, redisUp' \in BOOLEAN
  PROVE  RateType'
BY DEF RateType

\* What the script has counted depends on its key alone.
LEMMA SameScript ==
  ASSUME NEW k, ScriptWindow(k), count'[k] = count[k], ttl'[k] = ttl[k],
         recent'[k] = recent[k]
  PROVE  ScriptWindow(k)'
BY DEF ScriptWindow, LetIn, Last

LEMMA SameSliding ==
  ASSUME NEW k, SlidingWindow(k), count'[k] = count[k], ttl'[k] = ttl[k],
         recent'[k] = recent[k], Raising(k)' = Raising(k), Expiring(k)' <=> Expiring(k)
  PROVE  SlidingWindow(k)'
BY DEF SlidingWindow, Last

\* The sums of a window are natural numbers that grow.
LEMMA Sums ==
  ASSUME RateType, NEW k \in Keys
  PROVE  /\ Window[k] \in Nat \ {0} /\ Limit[k] \in Nat \ {0}
         /\ \A n \in 0..Window[k] : Last(k, n) \in Nat /\ Last(k, n) <= Last(k, Window[k])
<1>1. Window[k] \in Nat \ {0} /\ Limit[k] \in Nat \ {0}
  BY KeysAssumption
<1> DEFINE f == recent[k]
           m == Window[k]
<1>2. m \in Nat /\ \A i \in 1..m : f[i] \in Nat
  BY <1>1 DEF RateType
<1> HIDE DEF f, m
<1>3. \A n \in 0..m : Upto(f, n) \in Nat /\ Upto(f, n) <= Upto(f, m)
  BY <1>2, UptoGrows
<1> QED BY <1>1, <1>3 DEF f, m, Last

\* A request that is admitted is one more, in every sum that counts this tick.
LEMMA OneMore ==
  ASSUME RateType, NEW k \in Keys, Admit(k)
  PROVE  /\ \A n \in 1..Window[k] : Last(k, n)' = Last(k, n) + 1
         /\ \A j \in Keys : j # k => recent'[j] = recent[j]
         /\ recent' = [j \in Keys |-> recent'[j]]
         /\ \A j \in Keys : recent'[j] \in [1..Window[j] -> Nat]
<1> DEFINE f == recent[k]
           m == Window[k]
           g == [f EXCEPT ![1] = @ + 1]
<1>1. m \in Nat \ {0} /\ f \in [1..m -> Nat]
  BY KeysAssumption DEF RateType
<1>2. recent' = [recent EXCEPT ![k] = g]
  BY DEF Admit
<1>3. g \in [1..m -> Nat] /\ g[1] = f[1] + 1 /\ \A i \in 2..m : g[i] = f[i]
  BY <1>1
<1>4. recent'[k] = g /\ \A j \in Keys : j # k => recent'[j] = recent[j]
  BY <1>2 DEF RateType
<1> HIDE DEF f, g, m
<1>5. \A i \in 1..m : f[i] \in Int /\ g[i] \in Int
  BY <1>1, <1>3
<1>6. m \in Nat /\ g[1] = f[1] + 1 /\ \A i \in 2..m : g[i] = f[i]
  BY <1>1, <1>3
<1>7. \A n \in 1..m : Upto(g, n) = Upto(f, n) + 1
  BY <1>5, <1>6, UptoMore
<1>8. \A n \in 1..m : Last(k, n)' = Last(k, n) + 1
  BY <1>4, <1>7 DEF Last, f
<1>9. recent' = [j \in Keys |-> recent'[j]]
  BY <1>2 DEF RateType
<1>10. \A j \in Keys : recent'[j] \in [1..Window[j] -> Nat]
  BY <1>3, <1>4 DEF RateType, m
<1> QED BY <1>4, <1>8, <1>9, <1>10 DEF m

\* A tick moves every sum by one place.
LEMMA OneTick ==
  ASSUME RateType, Tick, NEW k \in Keys
  PROVE  /\ recent'[k] \in [1..Window[k] -> Nat] /\ recent'[k][1] = 0
         /\ \A n \in 0..(Window[k] - 1) : Last(k, n + 1)' = Last(k, n)
<1> DEFINE f == recent[k]
           m == Window[k] - 1
           g == [i \in 1..Window[k] |-> IF i = 1 THEN 0 ELSE f[i - 1]]
<1>1. m \in Nat /\ f \in [1..(m + 1) -> Nat] /\ Window[k] = m + 1
  BY KeysAssumption DEF RateType
<1>2. recent'[k] = g
  BY DEF Tick
<1>3. g \in [1..(m + 1) -> Nat] /\ g[1] = 0 /\ \A i \in 1..m : f[i] \in Nat /\ g[i + 1] = f[i]
  <2>1. \A i \in 1..(m + 1) : i # 1 => i - 1 \in 1..(m + 1)
    BY <1>1
  <2>2. g \in [1..(m + 1) -> Nat]
    BY <1>1, <2>1
  <2>3. 1 \in 1..Window[k] /\ \A i \in 1..m : i + 1 \in 1..Window[k] /\ i + 1 # 1 /\ (i + 1) - 1 = i
    BY <1>1
  <2> QED BY <1>1, <2>2, <2>3
<1> HIDE DEF f, g, m
<1>4. \A n \in 0..m : Upto(g, n + 1) = Upto(f, n)
  BY <1>1, <1>3, UptoShift
<1> QED BY <1>1, <1>2, <1>3, <1>4 DEF Last, f, m

-----------------------------------------------------------------------------
LEMMA InitRate ==
  ASSUME RateInit
  PROVE  RateInv
<1>1. \A k \in Keys : Window[k] \in Nat \ {0} /\ Limit[k] \in Nat \ {0}
  BY KeysAssumption
<1>2. RateType
  <2>1. NoRequest \in Waiting
    BY DEF NoRequest, Waiting, Wheres
  <2>2. recent = [k \in Keys |-> recent[k]] /\ \A k \in Keys : recent[k] \in [1..Window[k] -> Nat]
    BY DEF RateInit
  <2> QED BY <2>1, <2>2 DEF RateInit, RateType
<1>3. ASSUME NEW k \in Keys
      PROVE  /\ \A n \in 0..Window[k] : Last(k, n) = 0
             /\ recent[k][1] = 0 /\ count[k] = 0 /\ ttl[k] = 0
  <2>1. SUFFICES ASSUME NEW n \in 0..Window[k] PROVE Last(k, n) = 0
    BY <1>1 DEF RateInit
  <2> DEFINE S == 1..n
             f == recent[k]
  <2>2. IsFiniteSet(S) /\ \A x \in S : f[x] = 0
    BY <1>1, FS_Interval DEF RateInit
  <2> HIDE DEF S, f
  <2>3. SumFunctionOnSet(f, S) = 0
    BY <2>2, SumZero
  <2> QED BY <2>3 DEF f, S, Last, Upto
<1>4. \A k \in Keys : Raising(k) = {} /\ ~Expiring(k)
  BY DEF RateInit, Raising, Expiring, At, NoRequest
<1>5. Scripted \subseteq Keys /\ Cardinality({}) = 0 /\ Cardinality(Calls) \in Nat
  BY KeysAssumption, FS_EmptySet, FS_CardinalityType
<1>6. \A k \in Scripted : ScriptWindow(k)
  BY <1>1, <1>3, <1>5 DEF ScriptWindow
<1>7. ASSUME NEW k \in Keys PROVE SlidingWindow(k)
  <2>1. Last(k, Window[k]) = 0 /\ Last(k, Window[k] - ttl[k]) = 0
    BY <1>1, <1>3
  <2>2. ttl[k] \in 0..Window[k] /\ count[k] = 0
    BY <1>1, <1>3
  <2>3. Cardinality(Raising(k)) = 0
    BY <1>4, <1>5
  <2>4. count[k] + Cardinality(Raising(k)) <= Limit[k] + Cardinality(Calls) - 1
    BY <1>1, <1>3, <1>5, <2>3
  <2> QED BY <1>4, <2>1, <2>2, <2>4 DEF SlidingWindow
<1> QED BY <1>2, <1>6, <1>7 DEF RateInv, RateInit

\* Who raises and who renews a counter, after a request has moved.
LEMMA Moved ==
  ASSUME RateType, NEW c \in Calls, NEW w \in Waiting, call' = [call EXCEPT ![c] = w]
  PROVE  /\ \A k \in Keys : Raising(k)' = {d \in Raising(k) : d # c}
                               \cup {d \in {c} : w.at = "increment" /\ Head(w.left) = k}
         /\ \A k \in Keys : Expiring(k)' <=>
              \/ \E d \in Calls \ {c} : At(d, "expire") /\ Key(d) = k
              \/ w.at = "expire" /\ Head(w.left) = k
         /\ call' \in [Calls -> Waiting]
<1>1. call'[c] = w /\ \A d \in Calls : d # c => call'[d] = call[d]
  BY DEF RateType
<1> QED BY <1>1 DEF RateType, Raising, Expiring, At, Key

\* Of the keys but one nothing changes.
LEMMA Others ==
  ASSUME RateInv, NEW k \in Keys, calm' = calm, redisUp' = redisUp,
         \A j \in Keys : j # k => /\ count'[j] = count[j] /\ ttl'[j] = ttl[j]
                                  /\ recent'[j] = recent[j]
                                  /\ Raising(j)' = Raising(j) /\ (Expiring(j)' <=> Expiring(j)),
         RateType', k \in Scripted => ScriptWindow(k)',
         calm /\ k \notin Scripted => SlidingWindow(k)'
  PROVE  RateInv'
<1>1. Scripted \subseteq Keys
  BY KeysAssumption
<1>2. ASSUME NEW j \in Scripted PROVE ScriptWindow(j)'
  <2>1. j \in Keys /\ (j # k => ScriptWindow(j))
    BY <1>1 DEF RateInv
  <2> QED BY <2>1, SameScript
<1>3. ASSUME calm, NEW j \in Keys \ Scripted PROVE SlidingWindow(j)'
  <2>1. SlidingWindow(j)
    BY <1>3 DEF RateInv
  <2> QED BY <1>3, <2>1, SameSliding
<1> QED BY <1>2, <1>3 DEF RateInv

\* A request comes, passes or is refused without touching a counter.
LEMMA QuietStep ==
  ASSUME RateInv, NEW c \in Calls, NEW w, Elsewhere(w), call' = [call EXCEPT ![c] = w],
         ~At(c, "increment"), ~At(c, "expire"),
         UNCHANGED <<route, count, ttl, redisUp, recent, calm>>
  PROVE  RateInv'
<1>1. RateType /\ w \in Waiting
  BY DEF RateInv, Elsewhere
<1>2. \A k \in Keys : Raising(k)' = Raising(k) /\ (Expiring(k)' <=> Expiring(k))
  <2>1. /\ \A k \in Keys : Raising(k)' = {d \in Raising(k) : d # c}
                              \cup {d \in {c} : w.at = "increment" /\ Head(w.left) = k}
        /\ \A k \in Keys : Expiring(k)' <=>
              \/ \E d \in Calls \ {c} : At(d, "expire") /\ Key(d) = k
              \/ w.at = "expire" /\ Head(w.left) = k
    BY <1>1, Moved
  <2> QED BY <2>1 DEF Raising, Expiring, Elsewhere
<1>3. RateType'
  <2>1. redisUp' \in BOOLEAN
    BY <1>1 DEF RateType
  <2> QED BY <1>1, <2>1, CallType
<1>4. Scripted \subseteq Keys
  BY KeysAssumption
<1>5. ASSUME NEW k \in Scripted PROVE ScriptWindow(k)'
  <2>1. ScriptWindow(k)
    BY DEF RateInv
  <2> QED BY <2>1, SameScript
<1>6. ASSUME calm, NEW k \in Keys \ Scripted PROVE SlidingWindow(k)'
  <2>1. SlidingWindow(k)
    BY <1>6 DEF RateInv
  <2> QED BY <1>2, <2>1, SameSliding
<1> QED BY <1>3, <1>5, <1>6 DEF RateInv

\* Where something fails only the script's windows are looked at.
LEMMA CarelessStep ==
  ASSUME RateInv, ~calm, ~calm', RateType', UNCHANGED <<count, ttl, recent>>
  PROVE  RateInv'
<1>1. ASSUME NEW k \in Scripted PROVE ScriptWindow(k)'
  <2>1. ScriptWindow(k)
    BY DEF RateInv
  <2> QED BY <2>1, SameScript
<1> QED BY <1>1 DEF RateInv

\* From one place of a key to the next.
LEMMA GotoGoes ==
  ASSUME RateType, NEW c \in Calls, ~At(c, "idle"), ~At(c, "script"),
         NEW l \in {"increment", "expire"}, Goto(c, l)
  PROVE  \E w \in Waiting : /\ w.at = l /\ Head(w.left) = Key(c)
                            /\ call' = [call EXCEPT ![c] = w]
<1> DEFINE w == [call[c] EXCEPT !.at = l]
<1>1. call[c].left \in Seq(Keys) /\ call[c].left # <<>> /\ Key(c) \notin Scripted
  BY KeyOf
<1>2. w \in [at : Wheres, left : Seq(Keys)] /\ w.at = l /\ w.left = call[c].left
  BY DEF RateType, Waiting, Wheres
<1>3. w \in Waiting /\ Head(w.left) = Key(c)
  BY <1>1, <1>2 DEF Waiting, Key
<1>4. call' = [call EXCEPT ![c] = w]
  BY DEF Goto, RateType
<1> QED BY <1>2, <1>3, <1>4

-----------------------------------------------------------------------------
(* The steps *)

LEMMA RequestRate ==
  ASSUME RateInv, NEW c \in Calls, Request(c)
  PROVE  RateInv'
<1> DEFINE w == [at |-> Place(route), left |-> route]
<1>1. route \in Seq(Keys) /\ route # <<>>
  BY KeysAssumption DEF RateInv, RateType
<1>2. Elsewhere(w)
  BY <1>1 DEF Place, Waiting, Wheres, Elsewhere
<1>3. ~At(c, "increment") /\ ~At(c, "expire") /\ call' = [call EXCEPT ![c] = w]
  BY DEF Request, At
<1> HIDE DEF w
<1> QED BY <1>2, <1>3, QuietStep DEF Request

LEMMA SkipRate ==
  ASSUME RateInv, NEW c \in Calls, Skip(c)
  PROVE  RateInv'
<1>1. ~At(c, "idle") /\ ~At(c, "increment") /\ ~At(c, "expire")
  BY DEF Skip, At
<1>2. PICK w : Elsewhere(w) /\ call' = [call EXCEPT ![c] = w]
  BY <1>1, PassGoes DEF Skip, RateInv
<1> QED BY <1>1, <1>2, QuietStep DEF Skip

LEMMA GetRate ==
  ASSUME RateInv, NEW c \in Calls, Get(c)
  PROVE  RateInv'
<1>1. /\ RateType /\ ~At(c, "idle") /\ ~At(c, "script") /\ ~At(c, "increment")
      /\ ~At(c, "expire")
  BY DEF Get, At, RateInv
<1>2. PICK k \in Keys : k = Key(c) /\ k \notin Scripted
  BY <1>1, KeyOf
<1>3. CASE count[k] >= Limit[k]
  BY <1>1, <1>2, <1>3, LeaveGoes, QuietStep DEF Get
<1>4. CASE ~(count[k] >= Limit[k])
  <2>1. PICK w \in Waiting : /\ w.at = "increment" /\ Head(w.left) = k
                             /\ call' = [call EXCEPT ![c] = w]
    BY <1>1, <1>2, <1>4, GotoGoes DEF Get
  <2>2. RateType'
    BY <1>1, <2>1, CallType DEF Get, RateType
  <2>3. \A j \in Keys : /\ j # k => Raising(j)' = Raising(j)
                        /\ Expiring(j)' <=> Expiring(j)
    <3>1. /\ \A j \in Keys : Raising(j)' = {d \in Raising(j) : d # c}
                                \cup {d \in {c} : w.at = "increment" /\ Head(w.left) = j}
          /\ \A j \in Keys : Expiring(j)' <=>
                \/ \E d \in Calls \ {c} : At(d, "expire") /\ Key(d) = j
                \/ w.at = "expire" /\ Head(w.left) = j
      BY <1>1, <2>1, Moved
    <3> QED BY <1>1, <1>2, <2>1, <3>1 DEF Raising, Expiring
  <2>4. ASSUME calm PROVE SlidingWindow(k)'
    <3>1. SlidingWindow(k)
      BY <1>2, <2>4 DEF RateInv
    <3>2. /\ Cardinality(Calls) \in Nat /\ Cardinality(Raising(k)') \in Nat
          /\ Cardinality(Raising(k)') <= Cardinality(Calls)
      <4>1. Raising(k)' \subseteq Calls
        BY DEF Raising
      <4> QED BY <4>1, KeysAssumption, FS_Subset, FS_CardinalityType
    <3>3. count'[k] + Cardinality(Raising(k)') <= Limit[k] + Cardinality(Calls) - 1
      <4>1. count[k] \in Nat /\ Limit[k] \in Nat /\ count[k] <= Limit[k] - 1
        BY <1>1, <1>2, <1>4, KeysAssumption DEF RateType
      <4>2. count' = count
        BY DEF Get
      <4> QED BY <3>2, <4>1, <4>2
    <3>4. UNCHANGED <<count, ttl, recent>>
      BY DEF Get
    <3> QED BY <1>2, <2>3, <3>1, <3>3, <3>4 DEF SlidingWindow, Last
  <2> QED BY <1>2, <2>2, <2>3, <2>4, Others DEF Get
<1> QED BY <1>3, <1>4

LEMMA GetLostRate ==
  ASSUME RateInv, NEW c \in Calls, GetLost(c)
  PROVE  RateInv'
<1>1. /\ RateType /\ ~At(c, "idle") /\ ~At(c, "script")
  BY DEF GetLost, At, RateInv
<1>2. PICK w \in Waiting : call' = [call EXCEPT ![c] = w]
  BY <1>1, GotoGoes DEF GetLost
<1>3. RateType'
  BY <1>1, <1>2, CallType DEF GetLost, RateType
<1> QED BY <1>3, CarelessStep DEF GetLost, RateInv

LEMMA CutOffRate ==
  ASSUME RateInv, NEW c \in Calls, CutOff(c)
  PROVE  RateInv'
<1>1. NoRequest \in Waiting /\ call' = [call EXCEPT ![c] = NoRequest]
  BY LeaveGoes DEF CutOff, Elsewhere
<1>2. RateType'
  BY <1>1, CallType DEF CutOff, RateType, RateInv
<1> QED BY <1>2, CarelessStep DEF CutOff, Fault

LEMMA ConnectionRate ==
  ASSUME RateInv, Disconnect \/ Reconnect
  PROVE  RateInv'
<1>1. RateType'
  BY DEF RateInv, RateType, Disconnect, Reconnect
<1>2. CASE Disconnect
  BY <1>1, <1>2, CarelessStep DEF Disconnect, Fault
<1>3. CASE Reconnect
  <2>1. ~calm /\ ~calm'
    BY <1>3 DEF Reconnect, RateInv
  <2> QED BY <1>1, <1>3, <2>1, CarelessStep DEF Reconnect
<1> QED BY <1>2, <1>3

LEMMA IncrementRate ==
  ASSUME RateInv, NEW c \in Calls, Increment(c)
  PROVE  RateInv'
<1>1. RateType /\ ~At(c, "idle") /\ ~At(c, "script") /\ ~At(c, "expire")
  BY DEF Increment, At, RateInv
<1>2. PICK k \in Keys : k = Key(c) /\ k \notin Scripted
  BY <1>1, KeyOf
<1>3. PICK w \in Waiting : /\ w.at = "expire" /\ Head(w.left) = k
                           /\ call' = [call EXCEPT ![c] = w]
  BY <1>1, <1>2, GotoGoes DEF Increment
<1>4. /\ \A j \in Keys : Raising(j)' = {d \in Raising(j) : d # c}
                            \cup {d \in {c} : w.at = "increment" /\ Head(w.left) = j}
      /\ \A j \in Keys : Expiring(j)' <=>
            \/ \E d \in Calls \ {c} : At(d, "expire") /\ Key(d) = j
            \/ w.at = "expire" /\ Head(w.left) = j
      /\ call' \in [Calls -> Waiting]
  BY <1>1, <1>3, Moved
<1>5. c \in Raising(k)
  BY <1>2 DEF Increment, Raising
<1>6. /\ Raising(k)' = Raising(k) \ {c} /\ Expiring(k)'
      /\ \A j \in Keys : j # k => Raising(j)' = Raising(j) /\ (Expiring(j)' <=> Expiring(j))
  <2>1. Key(c) = k
    BY <1>2
  <2>2. Raising(k)' = Raising(k) \ {c} /\ Expiring(k)'
    <3>1. w.at # "increment" /\ \A d \in Raising(k) : d # c <=> d \notin {c}
      BY <1>3
    <3> QED BY <1>2, <1>3, <1>4, <3>1
  <2>3. \A j \in Keys : j # k => Raising(j)' = Raising(j)
    BY <1>3, <1>4, <2>1 DEF Raising
  <2>4. \A j \in Keys : j # k => (Expiring(j)' <=> Expiring(j))
    BY <1>1, <1>3, <1>4 DEF Expiring
  <2> QED BY <2>2, <2>3, <2>4
<1>7. CASE ~redisUp
  <2>1. RateType' /\ ~calm /\ ~calm'
    BY <1>1, <1>3, <1>7, CallType DEF Increment, RateType, RateInv
  <2> QED BY <1>7, <2>1, CarelessStep DEF Increment
<1>8. CASE redisUp
  <2>1. /\ count' = [count EXCEPT ![k] = @ + 1] /\ Admit(k)
        /\ ttl' = IF count[k] = 0 THEN [ttl EXCEPT ![k] = Forever] ELSE ttl
        /\ UNCHANGED <<route, redisUp, calm>>
    BY <1>2, <1>8 DEF Increment
  <2>2. /\ \A n \in 1..Window[k] : Last(k, n)' = Last(k, n) + 1
        /\ \A j \in Keys : j # k => recent'[j] = recent[j]
        /\ recent' = [j \in Keys |-> recent'[j]]
        /\ \A j \in Keys : recent'[j] \in [1..Window[j] -> Nat]
    BY <1>1, <1>2, <2>1, OneMore
  <2>3. /\ count' \in [Keys -> Nat] /\ count'[k] = count[k] + 1
        /\ ttl' \in [Keys -> Nat \cup {Forever}]
        /\ \A j \in Keys : j # k => count'[j] = count[j] /\ ttl'[j] = ttl[j]
    BY <1>1, <1>2, <2>1 DEF RateType
  <2>4. RateType'
    BY <1>1, <1>4, <2>1, <2>2, <2>3 DEF RateType
  <2>5. ASSUME calm PROVE SlidingWindow(k)'
    <3>1. SlidingWindow(k)
      BY <1>2, <2>5 DEF RateInv
    <3>2. Cardinality(Raising(k)') = Cardinality(Raising(k)) - 1
          /\ Cardinality(Raising(k)) \in Nat /\ Cardinality(Calls) \in Nat
      <4>1. Raising(k) \subseteq Calls /\ IsFiniteSet(Calls)
        BY KeysAssumption DEF Raising
      <4>2. IsFiniteSet(Raising(k)) /\ Cardinality(Calls) \in Nat
        BY <4>1, FS_Subset, FS_CardinalityType
      <4>3. Cardinality(Raising(k) \ {c}) = Cardinality(Raising(k)) - 1
        BY <1>5, <4>2, FS_RemoveElement
      <4> QED BY <1>6, <4>2, <4>3, FS_CardinalityType
    <3>3. Last(k, Window[k])' = Last(k, Window[k]) + 1
          /\ Last(k, Window[k]) \in Nat /\ Limit[k] \in Nat /\ count[k] \in Nat
      <4>1. Window[k] \in 1..Window[k] /\ Window[k] \in 0..Window[k] /\ Limit[k] \in Nat
        BY <1>2, KeysAssumption
      <4> QED BY <1>1, <1>2, <2>2, <4>1, Sums DEF RateType
    <3>4. count'[k] + Cardinality(Raising(k)') <= Limit[k] + Cardinality(Calls) - 1
      BY <2>3, <3>1, <3>2, <3>3 DEF SlidingWindow
    <3>5. Last(k, Window[k])' <= count'[k] /\ count'[k] > 0
      BY <2>3, <3>1, <3>3 DEF SlidingWindow
    <3> QED BY <1>6, <3>4, <3>5 DEF SlidingWindow
  <2> QED BY <1>2, <1>6, <2>1, <2>2, <2>3, <2>4, <2>5, Others
<1> QED BY <1>7, <1>8

LEMMA ExpireRate ==
  ASSUME RateInv, NEW c \in Calls, Expire(c)
  PROVE  RateInv'
<1>1. RateType /\ ~At(c, "idle") /\ ~At(c, "script") /\ ~At(c, "increment")
  BY DEF Expire, At, RateInv
<1>2. PICK k \in Keys : k = Key(c) /\ k \notin Scripted
  BY <1>1, KeyOf
<1>3. PICK w : Elsewhere(w) /\ call' = [call EXCEPT ![c] = w]
  BY <1>1, PassGoes DEF Expire
<1>4. /\ \A j \in Keys : Raising(j)' = {d \in Raising(j) : d # c}
                            \cup {d \in {c} : w.at = "increment" /\ Head(w.left) = j}
      /\ \A j \in Keys : Expiring(j)' <=>
            \/ \E d \in Calls \ {c} : At(d, "expire") /\ Key(d) = j
            \/ w.at = "expire" /\ Head(w.left) = j
      /\ call' \in [Calls -> Waiting]
  BY <1>1, <1>3, Moved DEF Elsewhere
<1>5. /\ \A j \in Keys : Raising(j)' = Raising(j)
      /\ \A j \in Keys : j # k => (Expiring(j)' <=> Expiring(j))
  <2>1. w.at # "increment" /\ w.at # "expire"
    BY <1>3 DEF Elsewhere
  <2>2. \A j \in Keys : Raising(j)' = Raising(j)
    BY <1>1, <1>4, <2>1 DEF Raising
  <2>3. \A j \in Keys : j # k => (Expiring(j)' <=> Expiring(j))
    BY <1>2, <1>4, <2>1 DEF Expiring
  <2> QED BY <2>2, <2>3
<1>6. /\ ttl' = IF redisUp /\ count[k] > 0 THEN [ttl EXCEPT ![k] = Window[k]] ELSE ttl
      /\ UNCHANGED <<route, count, redisUp, recent, calm>>
  BY <1>2 DEF Expire
<1>7. Window[k] \in Nat \ {0}
  BY KeysAssumption
<1>8. RateType'
  <2>1. ttl' \in [Keys -> Nat \cup {Forever}]
    BY <1>1, <1>6, <1>7 DEF RateType
  <2> QED BY <1>1, <1>4, <1>6, <2>1 DEF RateType
<1>9. \A j \in Keys : j # k => ttl'[j] = ttl[j]
  BY <1>1, <1>6 DEF RateType
<1>10. ASSUME calm PROVE SlidingWindow(k)'
  <2>1. SlidingWindow(k) /\ redisUp
    BY <1>2, <1>10 DEF RateInv
  <2>2. Expiring(k)
    BY <1>2 DEF Expire, Expiring
  <2>3. count[k] > 0
    BY <2>1, <2>2 DEF SlidingWindow
  <2>4. ttl'[k] = Window[k] /\ Window[k] - ttl'[k] = 0
    BY <1>1, <1>6, <1>7, <2>1, <2>3 DEF RateType
  <2>5. Upto(recent'[k], Window[k] - ttl'[k]) = 0
    BY <2>4, UptoNone
  <2>6. ttl'[k] \in 0..Window[k]
    BY <1>7, <2>4
  <2>7. /\ count'[k] + Cardinality(Raising(k)') <= Limit[k] + Cardinality(Calls) - 1
        /\ Upto(recent'[k], Window[k]) <= count'[k] /\ count'[k] > 0
    BY <1>5, <1>6, <2>1, <2>3 DEF SlidingWindow, Last
  <2> QED BY <2>5, <2>6, <2>7 DEF SlidingWindow, Last
<1> QED BY <1>2, <1>5, <1>6, <1>8, <1>9, <1>10, Others

LEMMA ScriptRate ==
  ASSUME RateInv, NEW c \in Calls, Script(c)
  PROVE  RateInv'
<1>1. RateType /\ ~At(c, "idle") /\ ~At(c, "expire") /\ ~At(c, "increment")
  BY DEF Script, At, RateInv
<1>2. PICK k \in Keys : k = Key(c) /\ k \in Scripted
  BY <1>1, KeyOf DEF Script
<1>3. PICK w : Elsewhere(w) /\ call' = [call EXCEPT ![c] = w]
  BY <1>1, PassGoes, LeaveGoes DEF Script
<1>4. /\ \A j \in Keys : Raising(j)' = {d \in Raising(j) : d # c}
                            \cup {d \in {c} : w.at = "increment" /\ Head(w.left) = j}
      /\ \A j \in Keys : Expiring(j)' <=>
            \/ \E d \in Calls \ {c} : At(d, "expire") /\ Key(d) = j
            \/ w.at = "expire" /\ Head(w.left) = j
      /\ call' \in [Calls -> Waiting]
  BY <1>1, <1>3, Moved DEF Elsewhere
<1>5. \A j \in Keys : Raising(j)' = Raising(j) /\ (Expiring(j)' <=> Expiring(j))
  <2>1. w.at # "increment" /\ w.at # "expire"
    BY <1>3 DEF Elsewhere
  <2>2. \A j \in Keys : Raising(j)' = Raising(j)
    BY <1>1, <1>4, <2>1 DEF Raising
  <2>3. \A j \in Keys : Expiring(j)' <=> Expiring(j)
    BY <1>1, <1>4, <2>1 DEF Expiring
  <2> QED BY <2>2, <2>3
<1>6. /\ Window[k] \in Nat \ {0} /\ Limit[k] \in Nat \ {0}
      /\ \A n \in 0..Window[k] : Last(k, n) \in Nat /\ Last(k, n) <= Last(k, Window[k])
  BY <1>1, Sums
<1>7. count[k] \in Nat /\ ScriptWindow(k)
  BY <1>1, <1>2 DEF RateType, RateInv
<1>8. /\ count' = [count EXCEPT ![k] = IF count[k] >= Limit[k] THEN Limit[k] + 1 ELSE @ + 1]
      /\ ttl' = [ttl EXCEPT ![k] = ScriptTtl(k)]
      /\ IF count[k] >= Limit[k] THEN UNCHANGED recent ELSE Admit(k)
      /\ UNCHANGED <<route, redisUp, calm>>
  BY <1>2 DEF Script
<1>9. /\ ScriptTtl(k) \in Nat \cup {Forever}
      /\ ScriptTtl(k) = IF count[k] = 0 THEN Window[k] ELSE ttl[k]
  BY <1>1, <1>6 DEF ScriptTtl, RateType
<1>10. /\ count' \in [Keys -> Nat] /\ ttl' \in [Keys -> Nat \cup {Forever}]
       /\ count'[k] = IF count[k] >= Limit[k] THEN Limit[k] + 1 ELSE count[k] + 1
       /\ ttl'[k] = IF count[k] = 0 THEN Window[k] ELSE ttl[k]
       /\ \A j \in Keys : j # k => count'[j] = count[j] /\ ttl'[j] = ttl[j]
  BY <1>1, <1>6, <1>7, <1>8, <1>9 DEF RateType
<1>11. CASE count[k] >= Limit[k]
  <2>1. recent' = recent
    BY <1>8, <1>11
  <2>2. RateType'
    BY <1>1, <1>4, <1>8, <1>10, <2>1 DEF RateType
  <2>3. ttl'[k] = ttl[k] /\ LetIn(k)' = LetIn(k) /\ count[k] # 0 /\ count'[k] # 0
    BY <1>6, <1>7, <1>10, <1>11 DEF LetIn
  <2>4. ScriptWindow(k)'
    BY <1>7, <2>1, <2>3 DEF ScriptWindow, Last
  <2>5. \A j \in Keys : j # k => /\ count'[j] = count[j] /\ ttl'[j] = ttl[j]
                                 /\ recent'[j] = recent[j]
                                 /\ Raising(j)' = Raising(j) /\ (Expiring(j)' <=> Expiring(j))
    BY <1>5, <1>10, <2>1
  <2> QED BY <1>2, <1>8, <2>2, <2>4, <2>5, Others
<1>12. CASE ~(count[k] >= Limit[k])
  <2>1. Admit(k)
    BY <1>8, <1>12
  <2>2. /\ \A n \in 1..Window[k] : Last(k, n)' = Last(k, n) + 1
        /\ \A j \in Keys : j # k => recent'[j] = recent[j]
        /\ recent' = [j \in Keys |-> recent'[j]]
        /\ \A j \in Keys : recent'[j] \in [1..Window[j] -> Nat]
    BY <1>1, <2>1, OneMore
  <2>3. RateType'
    BY <1>1, <1>4, <1>8, <1>10, <2>2 DEF RateType
  <2>4. /\ count'[k] = count[k] + 1 /\ count'[k] # 0
        /\ LetIn(k)' = LetIn(k) + 1 /\ LetIn(k) = count[k]
    BY <1>6, <1>7, <1>10, <1>12 DEF LetIn
  <2>5. Last(k, Window[k])' = Last(k, Window[k]) + 1 /\ Last(k, Window[k]) \in Nat
    BY <1>6, <2>2
  <2>6. ASSUME count[k] = 0 PROVE ScriptWindow(k)'
    <3>1. ttl'[k] = Window[k] /\ Window[k] - ttl'[k] + 1 = 1 /\ ttl'[k] \in 1..Window[k]
      BY <1>6, <1>10, <2>6
    <3>2. recent[k][1] = 0 /\ Last(k, Window[k]) <= Limit[k]
      BY <1>7, <2>6 DEF ScriptWindow
    <3>3. Last(k, 1)' = 1
      <4> DEFINE f == recent[k]
      <4>1. \A i \in 1..(0 + 1) : f[i] \in Int
        BY <3>2
      <4> HIDE DEF f
      <4>2. Upto(f, 0 + 1) = Upto(f, 0) + f[0 + 1]
        BY <4>1, UptoNext
      <4>3. Upto(f, 1) = 0
        BY <3>2, <4>2, UptoNone DEF f
      <4>4. 1 \in 1..Window[k]
        BY <1>6
      <4> QED BY <2>2, <4>3, <4>4 DEF Last, f
    <3>4. Upto(recent'[k], Window[k] - ttl'[k] + 1) = LetIn(k)'
      BY <2>4, <2>6, <3>1, <3>3 DEF Last
    <3>5. Last(k, Window[k])' <= Limit[k] + LetIn(k)'
      BY <1>6, <2>4, <2>5, <2>6, <3>2
    <3> QED BY <2>4, <3>1, <3>4, <3>5 DEF ScriptWindow, Last
  <2>7. ASSUME count[k] # 0 PROVE ScriptWindow(k)'
    <3>1. /\ ttl'[k] = ttl[k] /\ ttl[k] \in 1..Window[k]
          /\ Last(k, Window[k] - ttl[k] + 1) = LetIn(k)
          /\ Last(k, Window[k]) <= Limit[k] + LetIn(k)
      BY <1>7, <1>10, <2>7 DEF ScriptWindow
    <3> DEFINE n == Window[k] - ttl[k] + 1
    <3>2. n \in 1..Window[k]
      BY <1>6, <3>1
    <3>3. Upto(recent'[k], n) = Upto(recent[k], n) + 1
      <4>1. \A i \in 1..Window[k] : Upto(recent'[k], i) = Upto(recent[k], i) + 1
        BY <2>2 DEF Last
      <4> HIDE DEF n
      <4> QED BY <3>2, <4>1
    <3>4. Upto(recent'[k], Window[k] - ttl'[k] + 1) = LetIn(k)'
      BY <2>4, <3>1, <3>3 DEF Last
    <3>5. Last(k, Window[k])' <= Limit[k] + LetIn(k)'
      BY <1>6, <1>7, <2>4, <2>5, <3>1
    <3>6. ttl'[k] \in 1..Window[k]
      BY <3>1
    <3> QED BY <2>4, <3>4, <3>5, <3>6 DEF ScriptWindow, Last
  <2>8. ScriptWindow(k)'
    BY <2>6, <2>7
  <2>9. \A j \in Keys : j # k => /\ count'[j] = count[j] /\ ttl'[j] = ttl[j]
                                 /\ recent'[j] = recent[j]
                                 /\ Raising(j)' = Raising(j) /\ (Expiring(j)' <=> Expiring(j))
    BY <1>5, <1>10, <2>2
  <2> QED BY <1>2, <1>8, <2>3, <2>8, <2>9, Others
<1> QED BY <1>11, <1>12

LEMMA TickRate ==
  ASSUME RateInv, Tick
  PROVE  RateInv'
<1>1. RateType
  BY DEF RateInv
<1>2. /\ UNCHANGED <<route, redisUp, call, calm>> /\ (calm => Quiet)
      /\ \A k \in Keys : /\ ttl'[k] = IF ttl[k] > 0 THEN ttl[k] - 1 ELSE ttl[k]
                         /\ count'[k] = IF ttl[k] = 1 THEN 0 ELSE count[k]
  BY DEF Tick, Left
<1>3. RateType'
  <2>1. \A k \in Keys : recent'[k] \in [1..Window[k] -> Nat]
    BY <1>1, OneTick
  <2>2. recent' = [k \in Keys |-> recent'[k]]
    BY DEF Tick
  <2>3. count' \in [Keys -> Nat]
    BY <1>1 DEF Tick, RateType
  <2>4. ttl' \in [Keys -> Nat \cup {Forever}]
    <3>1. \A k \in Keys : ttl'[k] \in Nat \cup {Forever}
      BY <1>1, <1>2 DEF RateType, Forever
    <3>2. ttl' = [k \in Keys |-> ttl'[k]]
      BY DEF Tick
    <3> QED BY <3>1, <3>2
  <2> QED BY <1>1, <1>2, <2>1, <2>2, <2>3, <2>4 DEF RateType
<1>4. ASSUME NEW k \in Keys
      PROVE  /\ Window[k] \in Nat \ {0} /\ Limit[k] \in Nat \ {0} /\ count[k] \in Nat
             /\ \A n \in 0..Window[k] : Last(k, n) \in Nat /\ Last(k, n) <= Last(k, Window[k])
             /\ recent'[k][1] = 0
             /\ \A n \in 0..(Window[k] - 1) : Last(k, n + 1)' = Last(k, n)
             /\ Last(k, Window[k])' \in Nat /\ Last(k, Window[k])' <= Last(k, Window[k])
  <2>1. /\ Window[k] \in Nat \ {0} /\ Limit[k] \in Nat \ {0}
        /\ \A n \in 0..Window[k] : Last(k, n) \in Nat /\ Last(k, n) <= Last(k, Window[k])
    BY <1>1, Sums
  <2>2. /\ recent'[k][1] = 0
        /\ \A n \in 0..(Window[k] - 1) : Last(k, n + 1)' = Last(k, n)
    BY <1>1, OneTick
  <2> DEFINE m == Window[k] - 1
  <2>3. m \in 0..(Window[k] - 1) /\ m \in 0..Window[k] /\ m + 1 = Window[k]
    BY <2>1
  <2>4. Last(k, m + 1)' = Last(k, m)
    BY <2>2, <2>3
  <2>5. Last(k, Window[k])' = Last(k, m)
    BY <2>3, <2>4
  <2>6. count[k] \in Nat
    BY <1>1 DEF RateType
  <2> QED BY <2>1, <2>2, <2>3, <2>5, <2>6
<1>5. Scripted \subseteq Keys
  BY KeysAssumption
<1>6. ASSUME NEW k \in Scripted PROVE ScriptWindow(k)'
  <2>1. k \in Keys /\ ScriptWindow(k)
    BY <1>5 DEF RateInv
  <2>2. CASE count[k] = 0
    <3>1. count'[k] = 0 /\ ttl'[k] = 0 /\ Last(k, Window[k]) <= Limit[k]
      BY <1>2, <2>1, <2>2 DEF ScriptWindow
    <3>2. Last(k, Window[k]) \in Nat /\ Last(k, Window[k])' \in Nat
          /\ Last(k, Window[k])' <= Last(k, Window[k]) /\ Limit[k] \in Nat /\ recent'[k][1] = 0
      BY <1>4, <2>1
    <3>3. Last(k, Window[k])' <= Limit[k]
      BY <3>1, <3>2
    <3> QED BY <3>1, <3>2, <3>3 DEF ScriptWindow
  <2>3. CASE count[k] # 0
    <3>1. /\ ttl[k] \in 1..Window[k] /\ Last(k, Window[k] - ttl[k] + 1) = LetIn(k)
          /\ Last(k, Window[k]) <= Limit[k] + LetIn(k)
      BY <2>1, <2>3 DEF ScriptWindow
    <3>2. CASE ttl[k] = 1
      <4>1. count'[k] = 0 /\ ttl'[k] = 0
        BY <1>2, <2>1, <3>2
      <4>2. Window[k] - ttl[k] + 1 = Window[k]
        BY <1>4, <2>1, <3>2
      <4>3. Last(k, Window[k]) = LetIn(k)
        BY <3>1, <4>2
      <4>4. LetIn(k) <= Limit[k] /\ LetIn(k) \in Nat /\ Limit[k] \in Nat
        BY <1>4, <2>1 DEF LetIn
      <4>5. Last(k, Window[k])' \in Nat /\ Last(k, Window[k])' <= Last(k, Window[k])
        BY <1>4, <2>1
      <4>6. Last(k, Window[k])' <= Limit[k] /\ recent'[k][1] = 0
        BY <1>4, <2>1, <4>3, <4>4, <4>5
      <4> QED BY <4>1, <4>6 DEF ScriptWindow
    <3>3. CASE ttl[k] # 1
      <4>1. count'[k] = count[k] /\ ttl'[k] = ttl[k] - 1 /\ ttl'[k] \in 1..Window[k]
            /\ LetIn(k)' = LetIn(k)
        BY <1>2, <1>4, <2>1, <3>1, <3>3 DEF LetIn
      <4> DEFINE n == Window[k] - ttl[k] + 1
      <4>2. n \in 0..(Window[k] - 1) /\ n + 1 = Window[k] - ttl'[k] + 1
        BY <1>4, <2>1, <3>1, <3>3, <4>1
      <4>3. Upto(recent'[k], n + 1) = Upto(recent[k], n)
        <5>1. \A i \in 0..(Window[k] - 1) : Upto(recent'[k], i + 1) = Upto(recent[k], i)
          BY <1>4, <2>1 DEF Last
        <5> HIDE DEF n
        <5> QED BY <4>2, <5>1
      <4>4. Upto(recent'[k], Window[k] - ttl'[k] + 1) = LetIn(k)'
        BY <3>1, <4>1, <4>2, <4>3 DEF Last
      <4>5. Last(k, Window[k])' <= Limit[k] + LetIn(k)'
        <5>1. LetIn(k) \in Nat /\ Limit[k] \in Nat
          BY <1>4, <2>1 DEF LetIn
        <5>2. Last(k, Window[k])' \in Nat /\ Last(k, Window[k])' <= Last(k, Window[k])
              /\ Last(k, Window[k]) \in Nat
          <6>1. Window[k] \in 0..Window[k]
            BY <1>4, <2>1
          <6> QED BY <1>4, <2>1, <6>1
        <5> QED BY <3>1, <4>1, <5>1, <5>2
      <4> QED BY <2>3, <4>1, <4>4, <4>5 DEF ScriptWindow, Last
    <3> QED BY <3>2, <3>3
  <2> QED BY <2>2, <2>3
<1>7. ASSUME calm, NEW k \in Keys \ Scripted PROVE SlidingWindow(k)'
  <2>1. SlidingWindow(k) /\ ~Expiring(k) /\ ~Expiring(k)'
    BY <1>2, <1>7 DEF RateInv, Quiet, Expiring, At
  <2>2. /\ ttl[k] \in 0..Window[k] /\ Last(k, Window[k] - ttl[k]) = 0
        /\ Last(k, Window[k]) <= count[k]
        /\ count[k] + Cardinality(Raising(k)) <= Limit[k] + Cardinality(Calls) - 1
    BY <2>1 DEF SlidingWindow
  <2>3. Raising(k)' = Raising(k)
    BY <1>2 DEF Raising, At, Key
  <2>4. Last(k, Window[k])' = 0 \/ ttl[k] > 1
    <3>1. CASE ttl[k] = 0
      <4>1. Window[k] - ttl[k] = Window[k]
        BY <1>4, <3>1
      <4>2. Last(k, Window[k]) = 0 /\ Last(k, Window[k])' \in Nat
            /\ Last(k, Window[k])' <= Last(k, Window[k])
        BY <1>4, <2>2, <4>1
      <4> QED BY <4>2
    <3>2. CASE ttl[k] = 1
      <4> DEFINE m == Window[k] - 1
      <4>1. m \in 0..(Window[k] - 1) /\ m + 1 = Window[k]
        BY <1>4
      <4>2. Upto(recent'[k], m + 1) = Upto(recent[k], m)
        <5>1. \A i \in 0..(Window[k] - 1) : Upto(recent'[k], i + 1) = Upto(recent[k], i)
          BY <1>4 DEF Last
        <5> HIDE DEF m
        <5> QED BY <4>1, <5>1
      <4> QED BY <2>2, <3>2, <4>1, <4>2 DEF Last
    <3> QED BY <1>4, <2>2, <3>1, <3>2
  <2>5. CASE ttl[k] > 1
    <3>1. count'[k] = count[k] /\ ttl'[k] = ttl[k] - 1 /\ ttl'[k] \in 0..Window[k]
      BY <1>2, <1>4, <2>2, <2>5
    <3> DEFINE n == Window[k] - ttl[k]
    <3>2. n \in 0..(Window[k] - 1) /\ n + 1 = Window[k] - ttl'[k]
      BY <1>4, <2>2, <2>5, <3>1
    <3>3. Upto(recent'[k], n + 1) = Upto(recent[k], n)
      <4>1. \A i \in 0..(Window[k] - 1) : Upto(recent'[k], i + 1) = Upto(recent[k], i)
        BY <1>4 DEF Last
      <4> HIDE DEF n
      <4> QED BY <3>2, <4>1
    <3>4. Upto(recent'[k], Window[k] - ttl'[k]) = 0
      BY <2>2, <3>2, <3>3 DEF Last
    <3>5. Last(k, Window[k])' <= count'[k]
      <4>1. Last(k, Window[k])' \in Nat /\ Last(k, Window[k])' <= Last(k, Window[k])
            /\ Last(k, Window[k]) \in Nat /\ count[k] \in Nat
        <5>1. Window[k] \in 0..Window[k]
          BY <1>4
        <5> QED BY <1>4, <5>1
      <4> QED BY <2>2, <3>1, <4>1
    <3> QED BY <2>1, <2>2, <2>3, <3>1, <3>4, <3>5 DEF SlidingWindow, Last
  <2>6. CASE Last(k, Window[k])' = 0 /\ ~(ttl[k] > 1)
    <3>1. ttl'[k] = 0 /\ Window[k] - ttl'[k] = Window[k] /\ ttl'[k] \in 0..Window[k]
      BY <1>2, <1>4, <2>2, <2>6
    <3>2. count'[k] \in Nat /\ count'[k] <= count[k]
      BY <1>2, <1>4
    <3>3. Upto(recent'[k], Window[k] - ttl'[k]) = 0
      BY <2>6, <3>1 DEF Last
    <3>4. Last(k, Window[k])' <= count'[k]
      BY <2>6, <3>2
    <3>5. count'[k] + Cardinality(Raising(k)') <= Limit[k] + Cardinality(Calls) - 1
      <4>1. Cardinality(Raising(k)) \in Nat /\ Cardinality(Calls) \in Nat
        <5>1. Raising(k) \subseteq Calls /\ IsFiniteSet(Calls)
          BY KeysAssumption DEF Raising
        <5> QED BY <5>1, FS_Subset, FS_CardinalityType
      <4> QED BY <1>4, <2>2, <2>3, <3>2, <4>1
    <3> QED BY <2>1, <3>1, <3>3, <3>4, <3>5 DEF SlidingWindow, Last
  <2> QED BY <2>4, <2>5, <2>6
<1> QED BY <1>2, <1>3, <1>6, <1>7 DEF RateInv

-----------------------------------------------------------------------------
LEMMA StepRate ==
  ASSUME RateInv, [RateNext]_rateVars
  PROVE  RateInv'
<1>1. ASSUME NEW c \in Calls, Step(c) PROVE RateInv'
  BY <1>1, SkipRate, GetRate, GetLostRate, IncrementRate, ExpireRate, ScriptRate DEF Step
<1>2. ASSUME UNCHANGED rateVars PROVE RateInv'
  BY <1>2 DEF rateVars, RateInv, RateType, ScriptWindow, SlidingWindow, LetIn, Last,
              Raising, Expiring, At, Key
<1> QED
  BY <1>1, <1>2, RequestRate, CutOffRate, TickRate, ConnectionRate DEF RateNext

\* The inductive invariant of the counters and of the requests at them.
THEOREM RateAlways == RateSpec => []RateInv
<1> QED BY InitRate, StepRate, PTL DEF RateSpec

\* What is admitted in a window is all of it.
LEMMA AdmittedIs ==
  ASSUME RateType, NEW k \in Keys
  PROVE  Admitted(k) = Last(k, Window[k])
BY DEF RateType, Admitted, Last, Upto, SumFunction

\* However many requests overlap: in no stretch of a window are more let through
\* than the limit and one for each other request, and by the script than twice the
\* limit (otp.service.ts 243-257, fraud.service.ts 46-57).
THEOREM NeverFarOverAlways == RateSpec => []NeverFarOver
<1>1. ASSUME RateInv PROVE NeverFarOver
  <2> SUFFICES ASSUME calm, NEW k \in Keys
               PROVE  Admitted(k) <= IF k \in Scripted THEN 2 * Limit[k]
                                    ELSE Limit[k] + Cardinality(Calls) - 1
    BY DEF NeverFarOver
  <2>1. RateType
    BY <1>1 DEF RateInv
  <2>2. Admitted(k) = Last(k, Window[k])
    BY <2>1, AdmittedIs
  <2>3. /\ Window[k] \in Nat \ {0} /\ Limit[k] \in Nat \ {0}
        /\ \A n \in 0..Window[k] : Last(k, n) \in Nat /\ Last(k, n) <= Last(k, Window[k])
    BY <2>1, Sums
  <2>4. Last(k, Window[k]) \in Nat /\ count[k] \in Nat
    BY <2>1, <2>3 DEF RateType
  <2>5. CASE k \in Scripted
    <3>1. ScriptWindow(k)
      BY <1>1, <2>5 DEF RateInv
    <3>2. Last(k, Window[k]) <= Limit[k] + Limit[k]
      BY <2>3, <2>4, <3>1 DEF ScriptWindow, LetIn
    <3> QED BY <2>2, <2>3, <2>4, <2>5, <3>2
  <2>6. CASE k \notin Scripted
    <3>1. SlidingWindow(k)
      BY <1>1, <2>6 DEF RateInv
    <3>2. Cardinality(Raising(k)) \in Nat /\ Cardinality(Calls) \in Nat
      <4>1. Raising(k) \subseteq Calls /\ IsFiniteSet(Calls)
        BY KeysAssumption DEF Raising
      <4> QED BY <4>1, FS_Subset, FS_CardinalityType
    <3>3. Last(k, Window[k]) <= Limit[k] + Cardinality(Calls) - 1
      BY <2>3, <2>4, <3>1, <3>2 DEF SlidingWindow
    <3> QED BY <2>2, <2>6, <3>3
  <2> QED BY <2>5, <2>6
<1> QED BY <1>1, RateAlways, PTL

\* Whatever is lost on the way, a sender whose counter is full has had the limit
\* within the last window (fraud.service.ts 46-64).
THEOREM RefusedAtLimitAlways == RateSpec => []RefusedAtLimit
<1>1. ASSUME RateInv PROVE RefusedAtLimit
  <2> SUFFICES ASSUME NEW k \in Scripted, count[k] >= Limit[k]
               PROVE  Admitted(k) >= Limit[k]
    BY DEF RefusedAtLimit
  <2>1. RateType /\ k \in Keys /\ ScriptWindow(k)
    BY <1>1, KeysAssumption DEF RateInv
  <2>2. Admitted(k) = Last(k, Window[k])
    BY <2>1, AdmittedIs
  <2>3. /\ Window[k] \in Nat \ {0} /\ Limit[k] \in Nat \ {0}
        /\ \A n \in 0..Window[k] : Last(k, n) \in Nat /\ Last(k, n) <= Last(k, Window[k])
    BY <2>1, Sums
  <2>4. count[k] \in Nat /\ count[k] # 0 /\ LetIn(k) = Limit[k]
    BY <2>1, <2>3 DEF RateType, LetIn
  <2>5. ttl[k] \in 1..Window[k] /\ Last(k, Window[k] - ttl[k] + 1) = Limit[k]
    BY <2>1, <2>4 DEF ScriptWindow
  <2>6. Window[k] - ttl[k] + 1 \in 0..Window[k]
    BY <2>3, <2>5
  <2>7. Limit[k] <= Last(k, Window[k]) /\ Last(k, Window[k]) \in Nat
    BY <2>3, <2>5, <2>6
  <2> QED BY <2>2, <2>3, <2>7
<1> QED BY <1>1, RateAlways, PTL

-----------------------------------------------------------------------------
(* Relationships *)

Levelled(S) == \E t \in S : \A s \in S : t.level >= s.level

\* Of finitely many entries of a table one has the highest level.
LEMMA HighestLevel ==
  ASSUME NEW S \in SUBSET [level: Nat, score: Nat], IsFiniteSet(S), S # {}
  PROVE  Levelled(S)
<1> DEFINE Entries == [level: Nat, score: Nat]
           Good == {n \in Nat : \A T \in SUBSET Entries :
                      IsFiniteSet(T) /\ T # {} /\ Cardinality(T) = n => Levelled(T)}
<1>1. 0 \in Good
  BY FS_EmptySet
<1>2. ASSUME NEW n \in Nat, n \in Good PROVE n + 1 \in Good
  <2>1. SUFFICES ASSUME NEW T \in SUBSET Entries, IsFiniteSet(T), T # {},
                        Cardinality(T) = n + 1
                 PROVE  Levelled(T)
    OBVIOUS
  <2>2. PICK t \in T : TRUE
    BY <2>1
  <2> DEFINE U == T \ {t}
  <2>3. IsFiniteSet(U) /\ Cardinality(U) = n
    <3>1. IsFiniteSet(T) /\ t \in T
      BY <2>1, <2>2
    <3>2. IsFiniteSet(T \ {t}) /\ Cardinality(T \ {t}) = Cardinality(T) - 1
      BY <3>1, FS_RemoveElement
    <3> QED BY <2>1, <3>2
  <2>4. CASE U = {}
    <3>1. \A s \in T : s = t
      BY <2>4
    <3>2. t.level \in Nat
      BY <2>1, <2>2
    <3> QED BY <3>1, <3>2 DEF Levelled
  <2>5. CASE U # {}
    <3>1. U \in SUBSET Entries
      BY <2>1
    <3>2. Levelled(U)
      BY <1>2, <2>3, <2>5, <3>1
    <3>3. PICK u \in U : \A s \in U : u.level >= s.level
      BY <3>2 DEF Levelled
    <3>4. \A s \in T : s.level \in Nat
      BY <2>1
    <3>5. u \in T /\ t \in T /\ \A s \in T : s = t \/ s \in U
      BY <3>3
    <3> HIDE DEF U
    <3>6. CASE u.level >= t.level
      BY <3>3, <3>4, <3>5, <3>6 DEF Levelled
    <3>7. CASE ~(u.level >= t.level)
      <4>1. \A s \in T : t.level >= s.level
        BY <3>3, <3>4, <3>5, <3>7
      <4> QED BY <3>5, <4>1 DEF Levelled
    <3> QED BY <3>6, <3>7
  <2> QED BY <2>4, <2>5
<1> HIDE DEF Good
<1>3. \A n \in Nat : n \in Good
  BY <1>1, <1>2, Induction
<1>4. Cardinality(S) \in Nat
  BY FS_CardinalityType
<1>5. Cardinality(S) \in Good
  BY <1>3, <1>4
<1> QED BY <1>5 DEF Good

\* The level of a score is one of the table's, a natural number.
LEMMA LevelOfScore ==
  ASSUME NEW table \in SUBSET [level: Nat, score: Nat], IsFiniteSet(table),
         NEW score \in Nat, \E t \in table : t.score = 0
  PROVE  LevelIn(table, score) \in Nat
<1> DEFINE S == {s \in table : s.score <= score}
           L == {t.level : t \in S}
<1>1. S \in SUBSET [level: Nat, score: Nat] /\ S # {}
  OBVIOUS
<1>2. IsFiniteSet(S)
  BY FS_Subset
<1>3. Levelled(S)
  BY <1>1, <1>2, HighestLevel
<1>4. \E x \in L : \A y \in L : x >= y
  BY <1>3 DEF Levelled
<1>5. Max(L) \in L
  BY <1>4 DEF Max
<1>6. L \subseteq Nat
  BY <1>1
<1> QED BY <1>5, <1>6 DEF LevelIn

LEMMA LevelsAreNumbers ==
  \A score \in Nat : EngineLevel(score) \in Nat /\ ChatLevel(score) \in Nat
<1>1. /\ EngineLevels \in SUBSET [level: Nat, score: Nat] /\ IsFiniteSet(EngineLevels)
      /\ ChatLevels \in SUBSET [level: Nat, score: Nat] /\ IsFiniteSet(ChatLevels)
      /\ \E t \in EngineLevels : t.score = 0
      /\ \E t \in ChatLevels : t.score = 0
  BY LevelsAssumption
<1> QED BY <1>1, LevelOfScore DEF EngineLevel, ChatLevel

\* The larger and the smaller of two numbers.
LEMMA OfTwo ==
  ASSUME NEW a \in Int, NEW b \in Int
  PROVE  /\ Max({a, b}) \in {a, b} /\ Max({a, b}) >= a
         /\ Min({a, b}) \in {a, b}
<1>1. \E x \in {a, b} : \A y \in {a, b} : x >= y
  OBVIOUS
<1>2. \E x \in {a, b} : \A y \in {a, b} : x =< y
  OBVIOUS
<1>3. Max({a, b}) \in {a, b} /\ \A y \in {a, b} : Max({a, b}) >= y
  BY <1>1 DEF Max
<1>4. Min({a, b}) \in {a, b}
  BY <1>2 DEF Min
<1> QED BY <1>3, <1>4

\* A pair has two users: whoever is not the one is the other.
LEMMA TwoUsers ==
  ASSUME NEW p \in Pairs, NEW u \in p, NEW v \in p, u # v
  PROVE  OtherOf(u, p) = v /\ \A w \in p : w = u \/ w = v
<1>1. PICK a, b \in Users : a # b /\ p = {a, b}
  BY PairsAssumption
<1>2. \A w \in p : w = u \/ w = v
  BY <1>1
<1>3. OtherOf(u, p) \in p /\ OtherOf(u, p) # u
  BY DEF OtherOf
<1> QED BY <1>2, <1>3

RowSet == [there: BOOLEAN, score: Nat, level: Nat, type: Types, age: Ages]
InviteSet == [status: Statuses, type: Types,
              inviter: Users \cup {Nobody}, invitee: Users \cup {Nobody}]
RelationPlaces == {"idle", "create", "score", "uncache", "find", "fill", "known", "decay", "inviter",
           "invitee", "friends", "write", "type", "expire", "coins", "pay"}
RelationOps == {"none", "track", "message", "look", "send", "reactivate", "accept", "reject",
        "decay", "expire"}
CallSet == [at: RelationPlaces, op: RelationOps, user: Users \cup {Nobody}, pair: Pairs \cup {{}},
            type: Types, read: [Pairs -> RowSet], invite: InviteSet, todo: SUBSET Pairs]

RelationType ==
  /\ row \in [Pairs -> RowSet]
  /\ cache \in [Pairs -> Nat \cup {NotCached}]
  /\ call \in [Calls -> CallSet]
  /\ rel \in [Pairs -> InviteSet]
  /\ earned \in SUBSET Pairs

\* Whom a call is for: two users of a pair, or at the nightly jobs their next one.
JobPlaces == {"decay", "expire", "type", "uncache"}
PairInv ==
  \A c \in Calls :
    /\ call[c].at \notin {"idle", "decay", "expire"} => call[c].pair \in Pairs
    /\ call[c].op \in Jobs => call[c].at \in JobPlaces
    /\ call[c].op \notin Jobs /\ ~At(c, "idle") =>
         call[c].user \in call[c].pair /\ call[c].at \notin {"decay", "expire"}
    /\ call[c].todo # {} => call[c].op \in Jobs

ShapeInv == RelationType /\ PairInv

Same(c) == \A d \in Calls : d # c => call'[d] = call[d]

LEMMA NothingThere == NoRow \in RowSet /\ NoInvite \in InviteSet
  BY DEF NoRow, RowSet, Types, Ages, NoInvite, InviteSet, Statuses

\* A call that has just been made.
LEMMA AskedIs ==
  ASSUME NEW u \in Users \cup {Nobody}, NEW p \in Pairs \cup {{}}, NEW op \in RelationOps,
         NEW type \in Types, NEW at \in RelationPlaces
  PROVE  /\ Asked(u, p, op, type, at) \in CallSet
         /\ Asked(u, p, op, type, at).at = at /\ Asked(u, p, op, type, at).op = op
         /\ Asked(u, p, op, type, at).user = u /\ Asked(u, p, op, type, at).pair = p
         /\ Asked(u, p, op, type, at).todo = {}
<1>1. [q \in Pairs |-> NoRow] \in [Pairs -> RowSet]
  BY NothingThere
<1>2. {} \in SUBSET Pairs
  OBVIOUS
<1> DEFINE none == [q \in Pairs |-> NoRow]
<1> HIDE DEF none
<1>3. [at |-> at, op |-> op, user |-> u, pair |-> p, type |-> type,
       read |-> none, invite |-> NoInvite, todo |-> {}] \in CallSet
  BY <1>1, <1>2, NothingThere DEF CallSet, none
<1> QED BY <1>3 DEF Asked, none

LEMMA NothingAsked ==
  NoCall \in CallSet /\ NoCall.at = "idle" /\ NoCall.op = "none" /\ NoCall.todo = {}
<1>1. Nobody \in Users \cup {Nobody} /\ {} \in Pairs \cup {{}} /\ "NONE" \in Types
      /\ "idle" \in RelationPlaces /\ "none" \in RelationOps
  BY DEF Types, RelationPlaces, RelationOps
<1>2. Asked(Nobody, {}, "none", "NONE", "idle") \in CallSet
  BY <1>1, AskedIs
<1>3. NoCall.at = "idle" /\ NoCall.op = "none" /\ NoCall.todo = {}
  BY DEF NoCall, Asked
<1> QED BY <1>2, <1>3 DEF NoCall

\* A call that goes on, or ends.
LEMMA Went ==
  ASSUME ShapeInv, NEW c \in Calls, NEW l \in RelationPlaces, Goto(c, l)
  PROVE  /\ call' \in [Calls -> CallSet] /\ Same(c) /\ call'[c] = [call[c] EXCEPT !.at = l]
         /\ call'[c].at = l /\ call'[c].op = call[c].op /\ call'[c].user = call[c].user
         /\ call'[c].pair = call[c].pair /\ call'[c].todo = call[c].todo
         /\ call'[c].invite = call[c].invite /\ call'[c].read = call[c].read
  BY DEF ShapeInv, RelationType, CallSet, Goto, Same

LEMMA Ended ==
  ASSUME ShapeInv, NEW c \in Calls, Done(c)
  PROVE  call' \in [Calls -> CallSet] /\ Same(c) /\ call'[c] = NoCall
  BY NothingAsked DEF ShapeInv, RelationType, Done, Same

LEMMA WentWithRow ==
  ASSUME ShapeInv, NEW c \in Calls, NEW l \in RelationPlaces, NEW r \in RowSet, GoOnWithRow(c, r, l),
         call[c].pair \in Pairs
  PROVE  /\ call' \in [Calls -> CallSet] /\ Same(c)
         /\ call'[c].at = l /\ call'[c].op = call[c].op /\ call'[c].user = call[c].user
         /\ call'[c].pair = call[c].pair /\ call'[c].todo = call[c].todo
         /\ call'[c].read[call[c].pair] = r
  BY DEF ShapeInv, RelationType, CallSet, GoOnWithRow, Same

LEMMA WentWithInvite ==
  ASSUME ShapeInv, NEW c \in Calls, NEW l \in RelationPlaces, NEW r \in InviteSet, GoOnWith(c, r, l)
  PROVE  /\ call' \in [Calls -> CallSet] /\ Same(c)
         /\ call'[c].at = l /\ call'[c].op = call[c].op /\ call'[c].user = call[c].user
         /\ call'[c].pair = call[c].pair /\ call'[c].todo = call[c].todo
         /\ call'[c].invite = r
  BY DEF ShapeInv, RelationType, CallSet, GoOnWith, Same

LEMMA UsersOfPairs == \A p \in Pairs : \A u \in p : u \in Users /\ u # Nobody
  BY PairsAssumption, AsksAssumption

LEMMA Interacts ==
  ASSUME ShapeInv, NEW c \in Calls, NEW p \in Pairs, NEW u \in p,
         NEW op \in {"track", "message"}, Interact(c, u, p, op)
  PROVE  /\ call' \in [Calls -> CallSet] /\ Same(c)
         /\ call'[c].at \in {"score", "create"} /\ call'[c].op = op /\ call'[c].user = u
         /\ call'[c].pair = p /\ call'[c].todo = {}
<1> DEFINE at == IF row[p].there THEN "score" ELSE "create"
           a == Asked(u, p, op, "NONE", at)
           b == [a EXCEPT !.read[p] = Counted(p)]
<1>1. /\ a \in CallSet /\ a.at = at /\ a.op = op /\ a.user = u /\ a.pair = p /\ a.todo = {}
  <2>1. /\ u \in Users \cup {Nobody} /\ p \in Pairs \cup {{}} /\ "NONE" \in Types
        /\ op \in RelationOps /\ at \in RelationPlaces
    BY UsersOfPairs DEF Types, RelationOps, RelationPlaces
  <2> HIDE DEF at
  <2> QED BY <2>1, AskedIs
<1>2. Counted(p) \in RowSet
  BY DEF Counted, RowSet, ShapeInv, RelationType, Types
<1>3. call' = [call EXCEPT ![c] = b]
  BY DEF Interact
<1>4. at \in {"score", "create"}
  OBVIOUS
<1> HIDE DEF a, at
<1>5. b \in CallSet /\ b.at = at /\ b.op = op /\ b.user = u /\ b.pair = p /\ b.todo = {}
  BY <1>1, <1>2 DEF CallSet
<1> HIDE DEF b
<1> QED BY <1>3, <1>4, <1>5 DEF ShapeInv, RelationType, Same

LEMMA Looks ==
  ASSUME ShapeInv, NEW c \in Calls, NEW p \in Pairs, NEW u \in p,
         NEW op \in RelationOps, NEW type \in Types, Look(c, u, p, op, type)
  PROVE  /\ call' \in [Calls -> CallSet] /\ Same(c)
         /\ call'[c].at \in {"find", "known"} /\ call'[c].op = op /\ call'[c].user = u
         /\ call'[c].pair = p /\ call'[c].todo = {}
         /\ call'[c].at = "known" => call'[c].read[p].level = cache[p] /\ cache[p] \in Nat
<1> DEFINE a(at) == Asked(u, p, op, type, at)
           b == [a("known") EXCEPT !.read[p] = RowWith(cache[p])]
<1>1. ASSUME NEW at \in RelationPlaces
      PROVE  /\ a(at) \in CallSet /\ a(at).at = at /\ a(at).op = op /\ a(at).user = u
             /\ a(at).pair = p /\ a(at).todo = {}
  <2>1. /\ u \in Users \cup {Nobody} /\ p \in Pairs \cup {{}}
        /\ op \in RelationOps /\ type \in Types /\ at \in RelationPlaces
    BY <1>1, UsersOfPairs
  <2> DEFINE made == Asked(u, p, op, type, at)
  <2>2. /\ made \in CallSet /\ made.at = at /\ made.op = op
        /\ made.user = u /\ made.pair = p /\ made.todo = {}
    <3> HIDE DEF a
    <3> QED BY ONLY <2>1, AskedIs DEF made
  <2>3. a(at) = made
    OBVIOUS
  <2> HIDE DEF a, made
  <2> QED BY <2>2, <2>3
<1> HIDE DEF a
<1>2. CASE call' = [call EXCEPT ![c] = a("find")]
  <2>1. call' = [call EXCEPT ![c] = a("find")]
    BY <1>2
  <2>2. /\ a("find") \in CallSet /\ a("find").op = op /\ a("find").user = u
        /\ a("find").pair = p /\ a("find").todo = {} /\ a("find").at = "find"
    BY <1>1 DEF RelationPlaces
  <2> QED BY <2>1, <2>2 DEF ShapeInv, RelationType, Same
<1>3. CASE cache[p] # NotCached /\ call' = [call EXCEPT ![c] = b]
  <2>1. cache[p] \in Nat
    BY <1>3 DEF ShapeInv, RelationType
  <2>2. RowWith(cache[p]) \in RowSet /\ RowWith(cache[p]).level = cache[p]
    BY <2>1 DEF RowWith, RowSet, Types, Ages
  <2>3. call' = [call EXCEPT ![c] = b]
    BY <1>3
  <2>4. /\ a("known") \in CallSet /\ a("known").op = op /\ a("known").user = u
        /\ a("known").pair = p /\ a("known").todo = {} /\ a("known").at = "known"
    BY <1>1 DEF RelationPlaces
  <2>5. /\ b \in CallSet /\ b.at = "known" /\ b.op = op /\ b.user = u /\ b.pair = p
        /\ b.todo = {} /\ b.read[p] = RowWith(cache[p])
    BY <2>2, <2>4 DEF CallSet
  <2> HIDE DEF b
  <2> QED BY <2>1, <2>2, <2>3, <2>5 DEF ShapeInv, RelationType, Same
<1>4. \/ call' = [call EXCEPT ![c] = a("find")]
      \/ cache[p] # NotCached /\ call' = [call EXCEPT ![c] = b]
  BY DEF Look, a
<1> QED BY <1>2, <1>3, <1>4

LEMMA Answers ==
  ASSUME ShapeInv, NEW c \in Calls, NEW p \in Pairs, NEW u \in p,
         NEW op \in {"accept", "reject"}, Answer(c, u, p, op)
  PROVE  /\ call' \in [Calls -> CallSet] /\ Same(c)
         /\ call'[c].at \in {"inviter", "write"} /\ call'[c].op = op /\ call'[c].user = u
         /\ call'[c].pair = p /\ call'[c].todo = {} /\ call'[c].invite = rel[p]
<1> DEFINE at == IF op = "accept" /\ rel[p].type = "COUPLE" THEN "inviter" ELSE "write"
           a == Asked(u, p, op, "NONE", at)
           b == [a EXCEPT !.invite = rel[p]]
<1>1. /\ a \in CallSet /\ a.at = at /\ a.op = op /\ a.user = u /\ a.pair = p /\ a.todo = {}
  <2>1. /\ u \in Users \cup {Nobody} /\ p \in Pairs \cup {{}} /\ "NONE" \in Types
        /\ op \in RelationOps /\ at \in RelationPlaces
    BY UsersOfPairs DEF Types, RelationOps, RelationPlaces
  <2> HIDE DEF at
  <2> QED BY <2>1, AskedIs
<1>2. rel[p] \in InviteSet
  BY DEF ShapeInv, RelationType
<1>3. call' = [call EXCEPT ![c] = b]
  BY DEF Answer
<1>4. at \in {"inviter", "write"}
  OBVIOUS
<1> HIDE DEF a, at
<1>5. /\ b \in CallSet /\ b.at = at /\ b.op = op /\ b.user = u /\ b.pair = p /\ b.todo = {}
      /\ b.invite = rel[p]
  BY <1>1, <1>2 DEF CallSet
<1> HIDE DEF b
<1> QED BY <1>3, <1>4, <1>5 DEF ShapeInv, RelationType, Same

LEMMA JobBegins ==
  ASSUME ShapeInv, NEW c \in Calls, NEW op \in Jobs, NEW due \in SUBSET Pairs,
         BeginJob(c, op, op, due)
  PROVE  /\ call' \in [Calls -> CallSet] /\ Same(c)
         /\ call'[c].at = op /\ call'[c].op = op /\ call'[c].todo = due
         /\ call'[c].user = Nobody
<1> DEFINE known == [p \in Pairs |-> IF op = "decay" /\ p \in due THEN Scored(p) ELSE NoRow]
           b == [at |-> op, op |-> op, user |-> Nobody, pair |-> {}, type |-> "NONE",
                 read |-> known, invite |-> NoInvite, todo |-> due]
<1>1. \A p \in Pairs : Scored(p) \in RowSet
  BY DEF Scored, RowSet, ShapeInv, RelationType, Types, Ages
<1>2. known \in [Pairs -> RowSet]
  BY <1>1, NothingThere
<1>3. call' = [call EXCEPT ![c] = b]
  BY DEF BeginJob
<1> HIDE DEF known
<1>4. b \in CallSet
  BY <1>2, NothingThere DEF CallSet, Types, Jobs, RelationPlaces, RelationOps
<1>5. b.at = op /\ b.op = op /\ b.todo = due /\ b.user = Nobody
  OBVIOUS
<1> HIDE DEF b
<1> QED BY <1>3, <1>4, <1>5 DEF ShapeInv, RelationType, Same

\* One call changes; the others are where they were.
CallKept(c) == call'[c].op = call[c].op /\ call'[c].user = call[c].user
Placed(c) ==
  /\ call[c].at \notin {"idle", "decay", "expire"} => call[c].pair \in Pairs
  /\ call[c].op \in Jobs => call[c].at \in JobPlaces
  /\ call[c].op \notin Jobs /\ ~At(c, "idle") =>
       call[c].user \in call[c].pair /\ call[c].at \notin {"decay", "expire"}
  /\ call[c].todo # {} => call[c].op \in Jobs

LEMMA PlacedBegin ==
  ASSUME NEW c \in Calls, NEW p \in Pairs, NEW u \in p, call'[c].pair = p, call'[c].user = u,
         call'[c].todo = {}, call'[c].op \notin Jobs, call'[c].at \notin {"decay", "expire"}
  PROVE  Placed(c)'
  BY DEF Placed, At

LEMMA PlacedEnd ==
  ASSUME NEW c \in Calls, call'[c] = NoCall
  PROVE  Placed(c)'
  BY NothingAsked DEF Placed, At, Jobs

LEMMA PlacedOn ==
  ASSUME NEW c \in Calls, Placed(c), ~At(c, "idle"), call[c].pair \in Pairs,
         call'[c].op = call[c].op, call'[c].user = call[c].user,
         call'[c].pair = call[c].pair, call'[c].todo = call[c].todo,
         call[c].op \in Jobs => call'[c].at \in JobPlaces,
         call'[c].at \notin {"idle", "decay", "expire"}
  PROVE  Placed(c)'
  BY DEF Placed, At

LEMMA OneCall ==
  ASSUME ShapeInv, NEW c \in Calls, Same(c), Placed(c)'
  PROVE  PairInv'
  BY DEF ShapeInv, PairInv, Same, Placed, At

CallStep(c) == call' \in [Calls -> CallSet] /\ Same(c) /\ Placed(c)'

LEMMA BeginStep ==
  ASSUME ShapeInv, NEW c \in Calls, NEW p \in Pairs, NEW u \in p,
         \/ TrackInteraction(c, u, p) \/ OnMessageSent(c, u, p) \/ Look(c, u, p, "look", "NONE")
         \/ SendInvite(c, u, p) \/ AcceptInvite(c, u, p) \/ RejectInvite(c, u, p)
         \/ Reactivate(c, u, p)
  PROVE  CallStep(c)
<1>1. CASE TrackInteraction(c, u, p) \/ OnMessageSent(c, u, p)
  BY <1>1, Interacts, PlacedBegin DEF TrackInteraction, OnMessageSent, CallStep, Jobs
<1>2. ASSUME NEW op \in {"look", "send", "reactivate"}, NEW type \in Types,
             Look(c, u, p, op, type)
      PROVE  CallStep(c)
  <2>1. op \in RelationOps /\ op \notin Jobs
    BY <1>2 DEF RelationOps, Jobs
  <2> QED BY <1>2, <2>1, Looks, PlacedBegin DEF CallStep
<1>3. CASE Look(c, u, p, "look", "NONE") \/ SendInvite(c, u, p) \/ Reactivate(c, u, p)
  BY <1>2, <1>3 DEF SendInvite, Reactivate, Types
<1>4. CASE AcceptInvite(c, u, p) \/ RejectInvite(c, u, p)
  BY <1>4, Answers, PlacedBegin DEF AcceptInvite, RejectInvite, CallStep, Jobs
<1> QED BY <1>1, <1>3, <1>4

LEMMA JobStep ==
  ASSUME ShapeInv, NEW c \in Calls, ApplyDecay(c) \/ ExpireStale(c)
  PROVE  CallStep(c)
<1>1. ASSUME NEW op \in Jobs, NEW due \in SUBSET Pairs, BeginJob(c, op, op, due)
      PROVE  CallStep(c)
  BY <1>1, JobBegins DEF CallStep, Placed, Jobs, JobPlaces, At
<1>2. "decay" \in Jobs /\ "expire" \in Jobs
  BY DEF Jobs
<1> QED BY <1>1, <1>2 DEF ApplyDecay, ExpireStale

\* The steps after which a call of a user is elsewhere in its handler or has ended.
LEMMA GoStep ==
  ASSUME ShapeInv, NEW c \in Calls,
         \/ CreateRow(c) \/ ScoreInteraction(c) \/ ScoreMessage(c) \/ FindRow(c)
         \/ FillCache(c) \/ FindRelation(c) \/ ValidateCouple(c) \/ ValidateFriends(c)
         \/ WriteInvite(c) \/ WriteRejection(c) \/ WriteAcceptance(c)
         \/ FindExpired(c) \/ CheckCoins(c) \/ Pay(c)
  PROVE  CallStep(c)
<1>1. Placed(c) /\ (call[c].at \notin JobPlaces => call[c].op \notin Jobs)
  BY DEF ShapeInv, PairInv, Placed
<1>2. ASSUME Done(c) PROVE CallStep(c)
  BY <1>2, Ended, PlacedEnd DEF CallStep
<1> DEFINE On == /\ call[c].at \notin JobPlaces \cup {"idle"} /\ call[c].pair \in Pairs
                 /\ call[c].op \notin Jobs
<1>3. ASSUME On, NEW l \in RelationPlaces \ {"idle", "decay", "expire"}, Goto(c, l) PROVE CallStep(c)
  BY <1>1, <1>3, Went, PlacedOn DEF CallStep, At
<1>4. ASSUME On, NEW l \in RelationPlaces \ {"idle", "decay", "expire"}, NEW ok, GoIf(c, ok, l)
      PROVE  CallStep(c)
  BY <1>2, <1>3, <1>4 DEF GoIf
<1>5. ASSUME On, NEW l \in RelationPlaces \ {"idle", "decay", "expire"}, NEW r \in RowSet,
             GoOnWithRow(c, r, l)
      PROVE  CallStep(c)
  BY <1>1, <1>5, WentWithRow, PlacedOn DEF CallStep, At
<1>6. ASSUME On, NEW l \in RelationPlaces \ {"idle", "decay", "expire"}, NEW r \in InviteSet,
             GoOnWith(c, r, l)
      PROVE  CallStep(c)
  BY <1>1, <1>6, WentWithInvite, PlacedOn DEF CallStep, At
<1>7. On
  <2>1. call[c].at \notin JobPlaces \cup {"idle"}
    BY DEF CreateRow, ScoreInteraction, ScoreMessage, FindRow, FillCache, FindRelation,
           ValidateCouple, ValidateFriends, WriteInvite, WriteRejection, WriteAcceptance,
           FindExpired, CheckCoins, Pay, At, Is, JobPlaces
  <2> QED BY <1>1, <2>1 DEF Placed, JobPlaces
<1> HIDE DEF On
<1>8. /\ \A p \in Pairs : rel[p] \in InviteSet
      /\ \A p \in Pairs : row[p].level \in Nat
      /\ \A n \in Nat : RowWith(n) \in RowSet
  BY DEF ShapeInv, RelationType, RowSet, RowWith, Types, Ages
<1>9. call[c].pair \in Pairs
  BY <1>7 DEF On
<1>10. CASE CreateRow(c) \/ FindRow(c)
  BY <1>2, <1>5, <1>7, <1>8, <1>9, <1>10 DEF CreateRow, FindRow, RelationPlaces
<1>11. CASE ScoreInteraction(c) \/ WriteAcceptance(c) \/ Pay(c)
  BY <1>3, <1>7, <1>11 DEF ScoreInteraction, WriteAcceptance, Pay, RelationPlaces
<1>12. CASE ScoreMessage(c) \/ WriteInvite(c) \/ WriteRejection(c)
  BY <1>2, <1>12 DEF ScoreMessage, WriteInvite, WriteRejection
<1>13. CASE FillCache(c) \/ ValidateCouple(c) \/ ValidateFriends(c) \/ CheckCoins(c)
  BY <1>4, <1>7, <1>13 DEF FillCache, ValidateCouple, ValidateFriends, CheckCoins, RelationPlaces
<1>14. CASE FindRelation(c) \/ FindExpired(c)
  BY <1>2, <1>6, <1>7, <1>8, <1>9, <1>14 DEF FindRelation, FindExpired, RelationPlaces, Pair
<1> QED BY <1>10, <1>11, <1>12, <1>13, <1>14

\* The steps of the nightly jobs, and the last ones of an interaction or an answer.
LEMMA LateStep ==
  ASSUME ShapeInv, NEW c \in Calls,
         DecayRow(c) \/ WriteExpiry(c) \/ WriteType(c) \/ Uncache(c) \/ Fail(c)
  PROVE  CallStep(c)
<1>1. Placed(c) /\ call[c] \in CallSet /\ call \in [Calls -> CallSet]
  BY DEF ShapeInv, PairInv, Placed, RelationType
<1>2. ASSUME Done(c) PROVE CallStep(c)
  BY <1>2, Ended, PlacedEnd DEF CallStep
<1>3. ASSUME DecayRow(c), ~Done(c) PROVE CallStep(c)
  <2>1. PICK p \in call[c].todo :
          call' = [call EXCEPT ![c].todo = call[c].todo \ {p}, ![c].read[p] = NoRow]
    BY <1>3 DEF DecayRow
  <2>2. p \in Pairs /\ call[c].todo \ {p} \in SUBSET Pairs
    BY <1>1, <2>1 DEF CallSet
  <2> DEFINE left == call[c].todo \ {p}
  <2> HIDE DEF left
  <2>3. call' = [call EXCEPT ![c].todo = left, ![c].read[p] = NoRow] /\ left \in SUBSET Pairs
    BY <2>1, <2>2 DEF left
  <2>4. /\ call' \in [Calls -> CallSet] /\ Same(c) /\ CallKept(c)
        /\ call'[c].at = call[c].at /\ call'[c].pair = call[c].pair /\ call'[c].todo = left
    BY <1>1, <2>2, <2>3, NothingThere DEF CallSet, Same, CallKept
  <2>5. call[c].at = "decay" /\ call[c].op \in Jobs
    BY <1>1, <1>3 DEF DecayRow, At, Placed
  <2>6. Placed(c)'
    BY <1>1, <2>4, <2>5 DEF Placed, CallKept, At, JobPlaces
  <2> QED BY <2>4, <2>6 DEF CallStep
<1>4. ASSUME WriteExpiry(c) PROVE CallStep(c)
  <2>1. PICK p \in call[c].todo : call' = [call EXCEPT ![c].at = "type", ![c].pair = p]
    BY <1>4 DEF WriteExpiry
  <2>2. p \in Pairs
    BY <1>1, <2>1 DEF CallSet
  <2>3. /\ call' \in [Calls -> CallSet] /\ Same(c) /\ CallKept(c)
        /\ call'[c].at = "type" /\ call'[c].pair = p /\ call'[c].todo = call[c].todo
    BY <1>1, <2>1, <2>2 DEF CallSet, Same, CallKept, RelationPlaces
  <2>4. call[c].at = "expire" /\ call[c].op \in Jobs
    BY <1>1, <1>4 DEF WriteExpiry, At, Placed
  <2>5. Placed(c)'
    BY <1>1, <2>2, <2>3, <2>4 DEF Placed, CallKept, At, JobPlaces
  <2> QED BY <2>3, <2>5 DEF CallStep
<1>5. ASSUME WriteType(c) PROVE CallStep(c)
  <2>1. call[c].at = "type" /\ call[c].pair \in Pairs /\ Goto(c, "uncache")
    BY <1>1, <1>5 DEF WriteType, At, Placed
  <2>2. "uncache" \in RelationPlaces /\ "uncache" \in JobPlaces
    BY DEF RelationPlaces, JobPlaces
  <2> QED BY <1>1, <2>1, <2>2, Went, PlacedOn DEF CallStep, At
<1>6. ASSUME Uncache(c), ~Done(c) PROVE CallStep(c)
  <2> DEFINE left == call[c].todo \ {call[c].pair}
  <2>1. call[c].at = "uncache" /\ call' = [call EXCEPT ![c].at = "expire", ![c].todo = left]
    BY <1>6 DEF Uncache, At
  <2>2. left # {} /\ left \in SUBSET Pairs /\ call[c].todo # {}
    BY <1>1, <1>6 DEF Uncache, CallSet
  <2> HIDE DEF left
  <2>3. /\ call' \in [Calls -> CallSet] /\ Same(c) /\ CallKept(c)
        /\ call'[c].at = "expire" /\ call'[c].pair = call[c].pair /\ call'[c].todo = left
    BY <1>1, <2>1, <2>2 DEF CallSet, Same, CallKept, RelationPlaces
  <2>4. call[c].op \in Jobs
    BY <1>1, <2>2 DEF Placed
  <2>5. Placed(c)'
    BY <1>1, <2>3, <2>4 DEF Placed, CallKept, At, JobPlaces
  <2> QED BY <2>3, <2>5 DEF CallStep
<1> QED BY <1>2, <1>3, <1>4, <1>5, <1>6 DEF Fail

\* What one call does, and what else may happen.
Begins(c) ==
  \/ \E p \in Pairs : \E u \in p :
       \/ TrackInteraction(c, u, p) \/ OnMessageSent(c, u, p) \/ Look(c, u, p, "look", "NONE")
       \/ SendInvite(c, u, p) \/ AcceptInvite(c, u, p) \/ RejectInvite(c, u, p)
       \/ Reactivate(c, u, p)
  \/ ApplyDecay(c) \/ ExpireStale(c)
Scores(c) ==
  CreateRow(c) \/ ScoreInteraction(c) \/ ScoreMessage(c) \/ DecayRow(c)
Relates(c) ==
  WriteInvite(c) \/ WriteRejection(c) \/ WriteAcceptance(c) \/ WriteExpiry(c) \/ Pay(c)
Checks(c) ==
  \/ FindRow(c) \/ FindRelation(c) \/ ValidateCouple(c) \/ ValidateFriends(c)
  \/ FindExpired(c) \/ CheckCoins(c) \/ Fail(c)
Caches(c) == Uncache(c) \/ FillCache(c)
Outside ==
  \/ \E p \in Pairs : GrowOld(p) \/ CacheExpires(p)
  \/ \E u \in Users : SpendElsewhere(u)

LEMMA WhoSteps ==
  ASSUME RelationNext
  PROVE  \/ \E c \in Calls :
              \/ (Begins(c) \/ Scores(c) \/ Checks(c) \/ Caches(c) \/ WriteType(c)) /\ rel' = rel
              \/ Relates(c)
         \/ Outside /\ rel' = rel
<1>1. CASE IntimacyNext /\ UNCHANGED <<rel, coins>>
  BY <1>1 DEF IntimacyNext, Begins, Scores, Checks, Caches, Outside
<1>2. CASE \E c \in Calls, p \in Pairs : \E u \in p :
             SendInvite(c, u, p) \/ AcceptInvite(c, u, p) \/ RejectInvite(c, u, p)
             \/ Reactivate(c, u, p)
  BY <1>2 DEF Begins, SendInvite, AcceptInvite, RejectInvite, Answer, Reactivate
<1>3. CASE \E c \in Calls :
       \/ FindRelation(c) \/ ValidateCouple(c) \/ ValidateFriends(c) \/ WriteInvite(c)
       \/ WriteRejection(c) \/ WriteAcceptance(c) \/ WriteType(c)
       \/ ExpireStale(c) \/ WriteExpiry(c) \/ FindExpired(c) \/ CheckCoins(c) \/ Pay(c)
  BY <1>3 DEF Begins, Checks, Relates, FindRelation, ValidateCouple, ValidateFriends,
              WriteType, ExpireStale, FindExpired, CheckCoins
<1>4. CASE \E u \in Users : SpendElsewhere(u)
  BY <1>4 DEF Outside, SpendElsewhere
<1> QED BY <1>1, <1>2, <1>3, <1>4 DEF RelationNext, RelationStep

LEMMA EachStep ==
  ASSUME ShapeInv, NEW c \in Calls,
         \/ Begins(c) \/ Scores(c) \/ Relates(c) \/ Checks(c) \/ Caches(c) \/ WriteType(c)
  PROVE  CallStep(c)
<1>1. CASE Begins(c)
  BY <1>1, BeginStep, JobStep DEF Begins
<1>2. CASE Scores(c) \/ Relates(c) \/ Checks(c) \/ Caches(c) \/ WriteType(c)
  BY <1>2, GoStep, LateStep DEF Scores, Relates, Checks, Caches
<1> QED BY <1>1, <1>2

\* What leaves the row and the cache alone.
LEMMA BeginKeeps ==
  ASSUME NEW c \in Calls, Begins(c)
  PROVE  row' = row /\ cache' = cache
<1>1. ASSUME NEW p \in Pairs, NEW u \in p,
             TrackInteraction(c, u, p) \/ OnMessageSent(c, u, p)
      PROVE  row' = row /\ cache' = cache
  BY <1>1 DEF TrackInteraction, OnMessageSent, Interact
<1>2. ASSUME NEW p \in Pairs, NEW u \in p,
             Look(c, u, p, "look", "NONE") \/ SendInvite(c, u, p) \/ Reactivate(c, u, p)
      PROVE  row' = row /\ cache' = cache
  BY <1>2 DEF Look, RedisFails, SendInvite, Reactivate
<1>3. ASSUME NEW p \in Pairs, NEW u \in p, AcceptInvite(c, u, p) \/ RejectInvite(c, u, p)
      PROVE  row' = row /\ cache' = cache
  BY <1>3 DEF AcceptInvite, RejectInvite, Answer
<1>4. ASSUME ApplyDecay(c) \/ ExpireStale(c)
      PROVE  row' = row /\ cache' = cache
  BY <1>4 DEF ApplyDecay, ExpireStale, BeginJob
<1> QED BY <1>1, <1>2, <1>3, <1>4 DEF Begins

LEMMA RowKept ==
  ASSUME NEW c \in Calls, Begins(c) \/ Checks(c) \/ Caches(c)
  PROVE  row' = row
<1>1. CASE Begins(c)
  BY <1>1, BeginKeeps
<1>2. CASE Checks(c) \/ Caches(c)
  BY <1>2 DEF Checks, Caches, FindRow, FindRelation, ValidateCouple, ValidateFriends,
              FindExpired, CheckCoins, Fail, Uncache, FillCache
<1> QED BY <1>1, <1>2

LEMMA CacheKept ==
  ASSUME NEW c \in Calls,
         Begins(c) \/ Scores(c) \/ Relates(c) \/ Checks(c) \/ WriteType(c)
  PROVE  cache' = cache
<1>1. CASE Begins(c)
  BY <1>1, BeginKeeps
<1>2. CASE Scores(c) \/ Relates(c)
  BY <1>2 DEF Scores, Relates, CreateRow, ScoreInteraction, ScoreMessage, DecayRow,
              WriteInvite, WriteRejection, WriteAcceptance, WriteExpiry, Pay
<1>3. CASE Checks(c) \/ WriteType(c)
  BY <1>3 DEF Checks, FindRow, FindRelation, ValidateCouple, ValidateFriends,
              FindExpired, CheckCoins, Fail, WriteType
<1> QED BY <1>1, <1>2, <1>3

\* Scores and levels stay natural numbers.
LEMMA RowTyped ==
  ASSUME ShapeInv, RelationNext
  PROVE  row' \in [Pairs -> RowSet]
<1>1. /\ row \in [Pairs -> RowSet] /\ \A p \in Pairs : row[p] \in RowSet
      /\ \A c \in Calls : call[c] \in CallSet /\ Placed(c)
  BY DEF ShapeInv, RelationType, PairInv, Placed
<1>2. ASSUME NEW c \in Calls, NEW score \in Nat, NEW level \in Nat, Store(c, score, level)
      PROVE  row' \in [Pairs -> RowSet]
  BY <1>1, <1>2 DEF Store, RowSet, Ages
<1>3. ASSUME NEW c \in Calls, Scores(c) PROVE row' \in [Pairs -> RowSet]
  <2>1. CASE CreateRow(c)
    <3>1. \A n \in Nat : RowWith(n) \in RowSet
      BY DEF RowWith, RowSet, Types, Ages
    <3> QED BY <1>1, <2>1, <3>1 DEF CreateRow
  <2>2. CASE ScoreInteraction(c)
    <3>1. call[c].pair \in Pairs
      BY <1>1, <2>2 DEF ScoreInteraction, Is, At, Placed
    <3>2. call[c].read[call[c].pair].score \in Nat
      BY <1>1, <3>1 DEF CallSet, RowSet
    <3>3. PICK xp \in Points :
            Store(c, call[c].read[call[c].pair].score + xp,
                     EngineLevel(call[c].read[call[c].pair].score + xp))
      BY <2>2 DEF ScoreInteraction
    <3>4. xp \in Nat
      BY ScoresAssumption
    <3>5. call[c].read[call[c].pair].score + xp \in Nat
      BY <3>2, <3>4
    <3> QED BY <1>2, <3>3, <3>5, LevelsAreNumbers
  <2>3. CASE ScoreMessage(c)
    <3> DEFINE known == call[c].read[call[c].pair]
    <3>1. call[c].pair \in Pairs
      BY <1>1, <2>3 DEF ScoreMessage, Is, At, Placed
    <3>2. known.score \in Nat /\ known.age \in Ages
      BY <1>1, <3>1 DEF CallSet, RowSet
    <3>3. PICK points \in MessagePoints[known.age] :
            Store(c, Max({0, Min({ChatCap, known.score + points})}),
                     ChatLevel(Max({0, Min({ChatCap, known.score + points})})))
      BY <2>3 DEF ScoreMessage
    <3>4. points \in Int /\ ChatCap \in Int
      BY <3>2, <3>3, ScoresAssumption DEF Ages
    <3> HIDE DEF known
    <3>5. known.score + points \in Int
      BY <3>2, <3>4
    <3>6. Min({ChatCap, known.score + points}) \in Int
      BY <3>4, <3>5, OfTwo
    <3>7. Max({0, Min({ChatCap, known.score + points})}) \in Nat
      BY <3>6, OfTwo
    <3> QED BY <1>2, <3>3, <3>7, LevelsAreNumbers
  <2>4. CASE DecayRow(c)
    <3>1. PICK p \in call[c].todo :
            LET score == Max({0, call[c].read[p].score - Decay})
            IN row' = [row EXCEPT ![p].score = score, ![p].level = EngineLevel(score)]
      BY <2>4 DEF DecayRow
    <3>2. p \in Pairs /\ Decay \in Nat
      BY <1>1, <3>1, ScoresAssumption DEF CallSet
    <3>3. call[c].read[p].score \in Nat
      BY <1>1, <3>2 DEF CallSet, RowSet
    <3>4. call[c].read[p].score - Decay \in Int
      BY <3>2, <3>3
    <3> DEFINE score == Max({0, call[c].read[p].score - Decay})
    <3>5. score \in Nat
      BY <3>4, OfTwo
    <3>6. EngineLevel(score) \in Nat
      BY <3>5, LevelsAreNumbers
    <3>7. row' = [row EXCEPT ![p].score = score, ![p].level = EngineLevel(score)]
      BY <3>1
    <3> HIDE DEF score
    <3> QED BY <1>1, <3>2, <3>5, <3>6, <3>7 DEF RowSet
  <2> QED BY <1>3, <2>1, <2>2, <2>3, <2>4 DEF Scores
<1>4. ASSUME NEW c \in Calls, WriteType(c) \/ Relates(c) PROVE row' \in [Pairs -> RowSet]
  <2>1. call[c].invite.type \in Types /\ "NONE" \in Types
    BY <1>1 DEF CallSet, InviteSet, Types
  <2>2. CASE WriteType(c)
    BY <1>1, <2>1, <2>2 DEF WriteType, RowSet
  <2>3. CASE Pay(c)
    BY <1>1, <2>1, <2>3 DEF Pay, RowSet
  <2> QED BY <1>1, <1>4, <2>2, <2>3 DEF Relates, WriteInvite, WriteRejection, WriteAcceptance,
                                       WriteExpiry
<1>5. ASSUME NEW p \in Pairs, GrowOld(p) PROVE row' \in [Pairs -> RowSet]
  BY <1>1, <1>5 DEF GrowOld, RowSet, Ages
<1>6. CASE Outside
  BY <1>1, <1>5, <1>6 DEF Outside, CacheExpires, SpendElsewhere
<1> QED BY <1>1, <1>3, <1>4, <1>6, WhoSteps, RowKept

LEMMA CacheTyped ==
  ASSUME ShapeInv, RelationNext
  PROVE  cache' \in [Pairs -> Nat \cup {NotCached}]
<1>1. /\ cache \in [Pairs -> Nat \cup {NotCached}]
      /\ \A c \in Calls : call[c] \in CallSet /\ Placed(c)
  BY DEF ShapeInv, RelationType, PairInv, Placed
<1>2. ASSUME NEW c \in Calls, Uncache(c) PROVE cache' \in [Pairs -> Nat \cup {NotCached}]
  BY <1>1, <1>2 DEF Uncache, RedisFails
<1>3. ASSUME NEW c \in Calls, FillCache(c) PROVE cache' \in [Pairs -> Nat \cup {NotCached}]
  <2>1. call[c].pair \in Pairs
    BY <1>1, <1>3 DEF FillCache, At, Placed
  <2>2. call[c].read[call[c].pair].level \in Nat
    BY <1>1, <2>1 DEF CallSet, RowSet
  <2> QED BY <1>1, <1>3, <2>2 DEF FillCache, RedisFails
<1>4. CASE Outside
  BY <1>1, <1>4 DEF Outside, GrowOld, CacheExpires, SpendElsewhere
<1> QED BY <1>1, <1>2, <1>3, <1>4, WhoSteps, CacheKept DEF Caches

LEMMA RelTyped ==
  ASSUME ShapeInv, RelationNext
  PROVE  rel' \in [Pairs -> InviteSet]
<1>1. /\ rel \in [Pairs -> InviteSet]
      /\ \A c \in Calls : call[c] \in CallSet /\ Placed(c)
  BY DEF ShapeInv, RelationType, PairInv, Placed
<1>2. ASSUME NEW c \in Calls, NEW p, NEW s \in Statuses, rel' = [rel EXCEPT ![p].status = s]
      PROVE  rel' \in [Pairs -> InviteSet]
  BY <1>1, <1>2 DEF InviteSet
<1>3. ASSUME NEW c \in Calls, WriteInvite(c) PROVE rel' \in [Pairs -> InviteSet]
  <2>1. /\ call[c].pair \in Pairs /\ call[c].user \in call[c].pair /\ call[c].type \in Types
    BY <1>1, <1>3 DEF WriteInvite, Is, At, Placed, Jobs, CallSet
  <2>2. PICK v \in call[c].pair : v # call[c].user
    BY <2>1, PairsAssumption
  <2>3. TheOther(c) \in Users /\ call[c].user \in Users
    BY <2>1, <2>2, TwoUsers, UsersOfPairs DEF TheOther, Pair
  <2>4. [status |-> "PENDING", type |-> call[c].type, inviter |-> call[c].user,
         invitee |-> TheOther(c)] \in InviteSet
    BY <2>1, <2>3 DEF InviteSet, Statuses
  <2> QED BY <1>1, <1>3, <2>4 DEF WriteInvite
<1>4. ASSUME NEW c \in Calls, Relates(c) PROVE rel' \in [Pairs -> InviteSet]
  <2>1. "REJECTED" \in Statuses /\ "ACTIVE" \in Statuses /\ "EXPIRED" \in Statuses
    BY DEF Statuses
  <2>2. CASE WriteRejection(c) \/ WriteAcceptance(c) \/ Pay(c) \/ WriteExpiry(c)
    BY <1>2, <2>1, <2>2 DEF WriteRejection, WriteAcceptance, Pay, SetStatus, WriteExpiry
  <2> QED BY <1>3, <1>4, <2>2 DEF Relates
<1> QED BY <1>1, <1>4, WhoSteps

\* The types hold, and a call is for whom its place says.
LEMMA ShapeNext ==
  ASSUME ShapeInv, [RelationNext]_relationVars
  PROVE  ShapeInv'
<1>1. CASE RelationNext
  <2>1. call' \in [Calls -> CallSet] /\ PairInv'
    <3>1. ASSUME NEW c \in Calls, CallStep(c) PROVE call' \in [Calls -> CallSet] /\ PairInv'
      BY <3>1, OneCall DEF CallStep
    <3>2. CASE Outside
      BY <3>2 DEF Outside, GrowOld, CacheExpires, SpendElsewhere, ShapeInv, RelationType,
                  PairInv, At
    <3> QED BY <1>1, <3>1, <3>2, WhoSteps, EachStep
  <2>2. earned' \in SUBSET Pairs
    BY <1>1 DEF RelationNext, ShapeInv, RelationType
  <2> QED BY <1>1, <2>1, <2>2, RowTyped, CacheTyped, RelTyped DEF ShapeInv, RelationType
<1>2. CASE UNCHANGED relationVars
  BY <1>2 DEF relationVars, ShapeInv, RelationType, PairInv, At
<1> QED BY <1>1, <1>2

LEMMA ShapeInit ==
  ASSUME RelationInit
  PROVE  ShapeInv
<1>1. call = [c \in Calls |-> NoCall] /\ cache = [p \in Pairs |-> NotCached]
  BY DEF RelationInit, IntimacyInit
<1>2. row \in [Pairs -> RowSet]
  <2>1. PICK scores \in [Pairs -> FirstScores] : row = [p \in Pairs |->
       [there |-> scores[p] > 0, score |-> scores[p], level |-> EngineLevel(scores[p]),
        type |-> "NONE", age |-> IF scores[p] > 0 THEN "today" ELSE "never"]]
    BY DEF RelationInit, IntimacyInit
  <2>2. \A p \in Pairs : scores[p] \in Nat /\ EngineLevel(scores[p]) \in Nat
    BY ScoresAssumption, LevelsAreNumbers
  <2> QED BY <2>1, <2>2 DEF RowSet, Types, Ages
<1>3. rel \in [Pairs -> InviteSet] /\ earned \in SUBSET Pairs
  BY NothingThere DEF RelationInit, InviteSet, Statuses, Types
<1>4. PairInv
  BY <1>1, NothingAsked DEF PairInv, At, Jobs
<1> QED BY <1>1, <1>2, <1>3, <1>4, NothingAsked DEF ShapeInv, RelationType

-----------------------------------------------------------------------------
\* Whatever speaks of a level that takes a relationship, a row, a copy of its
\* level or a call that has read either, speaks of a pair that has had it.
PastLevel == {"inviter", "invitee", "friends", "write", "coins", "pay"}
Met(c) ==
  /\ call[c].at \in {"fill", "known"} /\ LevelSeen(c) >= RequiredLevel => Pair(c) \in earned
  /\ call[c].at \in PastLevel => Pair(c) \in earned
  /\ ~At(c, "decay") => call[c].todo \subseteq earned
EarnInv ==
  /\ \A p \in Pairs :
       row[p].level >= RequiredLevel \/ cache[p] >= RequiredLevel \/ rel[p].status # "NONE"
         => p \in earned
  /\ \A c \in Calls : Met(c)

LEMMA EarnedGrows ==
  ASSUME RelationNext
  PROVE  earned \subseteq earned' /\ \A p \in Pairs : row'[p].level >= RequiredLevel => p \in earned'
  BY DEF RelationNext, HighEnough

LEMMA MetEnd ==
  ASSUME NEW c \in Calls, call'[c] = NoCall
  PROVE  Met(c)'
  BY NothingAsked DEF Met, At, PastLevel

\* A call that keeps its pair and what it has read.
LEMMA MetOn ==
  ASSUME NEW c \in Calls, Met(c), ~At(c, "decay"), earned \subseteq earned',
         call'[c].pair = call[c].pair, call'[c].todo = call[c].todo,
         \/ call'[c].at \notin {"fill", "known"} \cup PastLevel
         \/ call'[c].at = "known" /\ call[c].at = "fill" /\ call'[c].read = call[c].read
         \/ call'[c].at \in PastLevel /\ call[c].pair \in earned
  PROVE  Met(c)'
  BY DEF Met, At, PastLevel, LevelSeen, Pair

LEMMA MetBegin ==
  ASSUME ShapeInv, EarnInv, NEW c \in Calls, Begins(c), earned \subseteq earned'
  PROVE  Met(c)'
<1>1. ASSUME NEW p \in Pairs, NEW u \in p,
             TrackInteraction(c, u, p) \/ OnMessageSent(c, u, p)
      PROVE  Met(c)'
  BY <1>1, Interacts DEF TrackInteraction, OnMessageSent, Met, PastLevel
<1>2. ASSUME NEW p \in Pairs, NEW u \in p, NEW op \in {"look", "send", "reactivate"},
             NEW type \in Types, Look(c, u, p, op, type)
      PROVE  Met(c)'
  <2>1. op \in RelationOps
    BY <1>2 DEF RelationOps
  <2>2. /\ call'[c].at \in {"find", "known"} /\ call'[c].pair = p /\ call'[c].todo = {}
        /\ call'[c].at = "known" => call'[c].read[p].level = cache[p]
    BY <1>2, <2>1, Looks
  <2>3. cache[p] >= RequiredLevel => p \in earned
    BY DEF EarnInv
  <2> QED BY <2>2, <2>3 DEF Met, PastLevel, LevelSeen, Pair
<1>3. ASSUME NEW p \in Pairs, NEW u \in p,
             Look(c, u, p, "look", "NONE") \/ SendInvite(c, u, p) \/ Reactivate(c, u, p)
      PROVE  Met(c)'
  BY <1>2, <1>3 DEF SendInvite, Reactivate, Types
<1>4. ASSUME NEW p \in Pairs, NEW u \in p, AcceptInvite(c, u, p) \/ RejectInvite(c, u, p)
      PROVE  Met(c)'
  <2>1. rel[p].status = "PENDING"
    BY <1>4 DEF AcceptInvite, RejectInvite, Answer
  <2>2. p \in earned
    BY <2>1 DEF EarnInv
  <2>3. call'[c].at \in {"inviter", "write"} /\ call'[c].pair = p /\ call'[c].todo = {}
    BY <1>4, Answers DEF AcceptInvite, RejectInvite
  <2> QED BY <2>2, <2>3 DEF Met, PastLevel, Pair
<1>5. ASSUME ApplyDecay(c) PROVE Met(c)'
  <2>1. call'[c].at = "decay"
    BY <1>5, JobBegins DEF ApplyDecay, Jobs
  <2> QED BY <2>1 DEF Met, PastLevel, At
<1>6. ASSUME ExpireStale(c) PROVE Met(c)'
  <2> DEFINE due == {p \in Pairs : rel[p].status = "ACTIVE" /\ row[p].age = "week"}
  <2>1. due \in SUBSET Pairs /\ "expire" \in Jobs /\ BeginJob(c, "expire", "expire", due)
    BY <1>6 DEF ExpireStale, Jobs
  <2>2. due \subseteq earned
    BY DEF EarnInv
  <2> HIDE DEF due
  <2>3. call'[c].at = "expire" /\ call'[c].todo = due
    BY <2>1, JobBegins
  <2> QED BY <2>2, <2>3 DEF Met, PastLevel, At
<1> QED BY <1>1, <1>3, <1>4, <1>5, <1>6 DEF Begins

LEMMA MetChecks ==
  ASSUME ShapeInv, EarnInv, NEW c \in Calls, Checks(c), earned \subseteq earned'
  PROVE  Met(c)'
<1>1. Met(c) /\ Placed(c)
  BY DEF EarnInv, ShapeInv, PairInv, Placed
<1>2. ASSUME Done(c) PROVE Met(c)'
  BY <1>2, Ended, MetEnd
<1>3. ASSUME NEW l \in PastLevel, NEW ok, GoIf(c, ok, l), call[c].at \in PastLevel PROVE Met(c)'
  <2>1. l \in RelationPlaces
    BY DEF PastLevel, RelationPlaces
  <2>2. ~At(c, "decay") /\ call[c].pair \in earned
    BY <1>1, <1>3 DEF PastLevel, At, Met, Pair
  <2> QED BY <1>1, <1>2, <1>3, <2>1, <2>2, Went, MetOn DEF GoIf
<1>4. CASE FindRow(c)
  <2>1. call[c].at = "find" /\ call[c].pair \in Pairs
    BY <1>1, <1>4 DEF FindRow, At, Placed
  <2>2. row[call[c].pair].level \in Nat /\ RowWith(row[call[c].pair].level) \in RowSet
    BY <2>1 DEF ShapeInv, RelationType, RowSet, RowWith, Types, Ages
  <2>3. ASSUME GoOnWithRow(c, RowWith(row[call[c].pair].level), "fill") PROVE Met(c)'
    <3>1. "fill" \in RelationPlaces
      BY DEF RelationPlaces
    <3>2. /\ call'[c].at = "fill" /\ call'[c].pair = call[c].pair
          /\ call'[c].todo = call[c].todo
          /\ call'[c].read[call[c].pair] = RowWith(row[call[c].pair].level)
      BY <2>1, <2>2, <2>3, <3>1, WentWithRow
    <3>3. row[call[c].pair].level >= RequiredLevel => call[c].pair \in earned
      BY <2>1 DEF EarnInv
    <3>4. call[c].todo \subseteq earned
      BY <1>1, <2>1 DEF Met, At
    <3> QED BY <3>2, <3>3, <3>4 DEF Met, PastLevel, LevelSeen, Pair, RowWith
  <2> QED BY <1>2, <1>4, <2>3 DEF FindRow
<1>5. CASE FindRelation(c) \/ FindExpired(c)
  <2>1. call[c].at = "known" /\ call[c].pair \in Pairs
    BY <1>1, <1>5 DEF FindRelation, FindExpired, Is, At, Placed
  <2>2. CASE Done(c)
    BY <1>2, <2>2
  <2>3. CASE ~Done(c)
    <3>1. PICK l \in {"inviter", "friends", "coins"} : GoOnWith(c, rel[call[c].pair], l)
      BY <1>5, <2>3 DEF FindRelation, FindExpired, Pair
    <3>2. call[c].pair \in earned
      BY <1>1, <1>5, <2>1, <2>3 DEF FindRelation, FindExpired, Allowed, Met, EarnInv, Pair
    <3>3. l \in RelationPlaces /\ l \in PastLevel /\ rel[call[c].pair] \in InviteSet
      BY <2>1 DEF RelationPlaces, PastLevel, ShapeInv, RelationType
    <3> QED BY <1>1, <2>1, <3>1, <3>2, <3>3, WentWithInvite, MetOn DEF At
  <2> QED BY <2>2, <2>3
<1>6. CASE ValidateCouple(c) \/ ValidateFriends(c) \/ CheckCoins(c)
  BY <1>3, <1>6 DEF ValidateCouple, ValidateFriends, CheckCoins, At, PastLevel
<1> QED BY <1>2, <1>4, <1>5, <1>6 DEF Checks, Fail

LEMMA MetRest ==
  ASSUME ShapeInv, EarnInv, NEW c \in Calls, earned \subseteq earned',
         Scores(c) \/ Relates(c) \/ Caches(c) \/ WriteType(c)
  PROVE  Met(c)'
<1>1. Met(c) /\ Placed(c) /\ call[c] \in CallSet /\ call \in [Calls -> CallSet]
  BY DEF EarnInv, ShapeInv, PairInv, Placed, RelationType
<1>2. ASSUME Done(c) PROVE Met(c)'
  BY <1>2, Ended, MetEnd
<1>3. ASSUME NEW l \in {"score", "type", "uncache"}, Goto(c, l), ~At(c, "decay") PROVE Met(c)'
  <2>1. l \in RelationPlaces /\ l \notin {"fill", "known"} \cup PastLevel
    BY DEF PastLevel, RelationPlaces
  <2> QED BY <1>1, <1>3, <2>1, Went, MetOn
<1>4. CASE CreateRow(c)
  <2>1. call[c].pair \in Pairs /\ ~At(c, "decay")
    BY <1>1, <1>4 DEF CreateRow, At, Placed
  <2>2. RowWith(0) \in RowSet /\ "score" \in RelationPlaces /\ "score" \notin {"fill", "known"} \cup PastLevel
    BY DEF RowWith, RowSet, Types, Ages, RelationPlaces, PastLevel
  <2> QED BY <1>1, <1>2, <1>4, <2>1, <2>2, WentWithRow, MetOn DEF CreateRow
<1>5. CASE ScoreInteraction(c) \/ WriteAcceptance(c) \/ Pay(c) \/ WriteType(c)
  BY <1>3, <1>5 DEF ScoreInteraction, WriteAcceptance, Pay, WriteType, At, Is
<1>6. CASE ScoreMessage(c) \/ WriteInvite(c) \/ WriteRejection(c)
  BY <1>2, <1>6 DEF ScoreMessage, WriteInvite, WriteRejection
<1>7. CASE DecayRow(c) /\ ~Done(c)
  <2>1. PICK p : call' = [call EXCEPT ![c].todo = call[c].todo \ {p}, ![c].read[p] = NoRow]
    BY <1>7 DEF DecayRow
  <2>2. call'[c].at = call[c].at
    BY <1>1, <2>1 DEF CallSet
  <2> QED BY <1>7, <2>2 DEF Met, DecayRow, At, PastLevel
<1>8. CASE WriteExpiry(c)
  <2>1. PICK p : call' = [call EXCEPT ![c].at = "type", ![c].pair = p]
    BY <1>8 DEF WriteExpiry
  <2>2. call'[c].at = "type" /\ call'[c].todo = call[c].todo
    BY <1>1, <2>1 DEF CallSet
  <2> QED BY <1>1, <1>8, <2>2 DEF Met, WriteExpiry, At, PastLevel
<1>9. CASE Uncache(c) /\ ~Done(c)
  <2>1. call' = [call EXCEPT ![c].at = "expire", ![c].todo = call[c].todo \ {call[c].pair}]
    BY <1>9 DEF Uncache
  <2>2. call'[c].at = "expire" /\ call'[c].todo = call[c].todo \ {call[c].pair}
    BY <1>1, <2>1 DEF CallSet
  <2> QED BY <1>1, <1>9, <2>2 DEF Met, Uncache, At, PastLevel
<1>10. CASE FillCache(c)
  <2>1. call[c].at = "fill" /\ GoIf(c, call[c].op # "look", "known")
    BY <1>10 DEF FillCache, At
  <2>2. "known" \in RelationPlaces
    BY DEF RelationPlaces
  <2> QED BY <1>1, <1>2, <2>1, <2>2, Went, MetOn DEF GoIf, At
<1> QED BY <1>2, <1>4, <1>5, <1>6, <1>7, <1>8, <1>9, <1>10 DEF Scores, Relates, Caches

LEMMA MetOthers ==
  ASSUME EarnInv, NEW c \in Calls, Same(c), Met(c)', earned \subseteq earned'
  PROVE  \A d \in Calls : Met(d)'
<1>1. ASSUME NEW d \in Calls, d # c PROVE Met(d)'
  <2>1. Met(d) /\ call'[d] = call[d]
    BY <1>1 DEF EarnInv, Same
  <2> QED BY <2>1 DEF Met, LevelSeen, Pair, At
<1> QED BY <1>1

LEMMA EarnNext ==
  ASSUME ShapeInv, EarnInv, [RelationNext]_relationVars
  PROVE  EarnInv'
<1>1. CASE RelationNext
  <2> DEFINE Cached == \A p \in Pairs : cache'[p] >= RequiredLevel => p \in earned'
             Related == \A p \in Pairs : rel'[p].status # "NONE" => p \in earned'
  <2>1. earned \subseteq earned' /\ \A p \in Pairs : row'[p].level >= RequiredLevel => p \in earned'
    BY <1>1, EarnedGrows
  <2>2. /\ cache' = cache => Cached
        /\ rel' = rel => Related
    BY <2>1 DEF EarnInv
  <2>3. ASSUME NEW c \in Calls,
               \/ Begins(c) \/ Scores(c) \/ Relates(c) \/ Checks(c) \/ Caches(c) \/ WriteType(c)
        PROVE  \A d \in Calls : Met(d)'
    <3>1. Met(c)'
      BY <2>1, <2>3, MetBegin, MetChecks, MetRest
    <3> QED BY <2>1, <2>3, <3>1, EachStep, MetOthers DEF CallStep
  <2>4. ASSUME NEW c \in Calls, Caches(c) PROVE Cached
    <3>1. cache \in [Pairs -> Nat \cup {NotCached}] /\ Met(c) /\ ~(NotCached >= RequiredLevel)
      BY RelationshipAssumption DEF ShapeInv, RelationType, EarnInv, NotCached
    <3>2. CASE Uncache(c)
      BY <2>1, <3>1, <3>2 DEF Uncache, RedisFails, EarnInv
    <3>3. CASE FillCache(c)
      <4>1. LevelSeen(c) >= RequiredLevel => call[c].pair \in earned
        BY <3>1, <3>3 DEF Met, FillCache, At, Pair
      <4>2. \/ cache' = [cache EXCEPT ![call[c].pair] = LevelSeen(c)]
            \/ cache' = cache
        BY <3>3 DEF FillCache, RedisFails, LevelSeen
      <4> QED BY <2>1, <2>2, <3>1, <4>1, <4>2 DEF EarnInv
    <3> QED BY <2>4, <3>2, <3>3 DEF Caches
  <2>5. ASSUME NEW c \in Calls, Relates(c) PROVE Related
    <3>1. rel \in [Pairs -> InviteSet] /\ Met(c) /\ call[c].todo \subseteq Pairs
      BY DEF ShapeInv, RelationType, EarnInv, CallSet
    <3>2. ASSUME NEW p \in earned, NEW s, rel' = [rel EXCEPT ![p].status = s] PROVE Related
      <4>1. \A q \in Pairs : q # p => rel'[q] = rel[q]
        BY <3>1, <3>2
      <4> QED BY <2>1, <3>2, <4>1 DEF EarnInv
    <3>3. ASSUME NEW p \in earned, NEW r, rel' = [rel EXCEPT ![p] = r] PROVE Related
      <4>1. \A q \in Pairs : q # p => rel'[q] = rel[q]
        BY <3>1, <3>3
      <4> QED BY <2>1, <3>3, <4>1 DEF EarnInv
    <3>4. CASE WriteInvite(c)
      <4>1. Pair(c) \in earned
        BY <3>1, <3>4 DEF WriteInvite, Is, At, Met, PastLevel
      <4> HIDE DEF Related
      <4> QED BY <2>2, <3>3, <3>4, <4>1 DEF WriteInvite
    <3>5. CASE WriteRejection(c) \/ WriteAcceptance(c) \/ Pay(c)
      <4>1. Pair(c) \in earned
        BY <3>1, <3>5 DEF WriteRejection, WriteAcceptance, Pay, Is, At, Met, PastLevel
      <4> HIDE DEF Related
      <4> QED BY <3>2, <3>5, <4>1 DEF WriteRejection, WriteAcceptance, Pay, SetStatus
    <3>6. CASE WriteExpiry(c)
      <4>1. call[c].todo \subseteq earned
        BY <3>1, <3>6 DEF WriteExpiry, At, Met
      <4>2. PICK p \in call[c].todo : rel' = [rel EXCEPT ![p].status = "EXPIRED"]
        BY <3>6 DEF WriteExpiry
      <4> HIDE DEF Related
      <4> QED BY <3>2, <4>1, <4>2
    <3> QED BY <2>5, <3>4, <3>5, <3>6 DEF Relates
  <2>6. CASE Outside /\ rel' = rel
    <3>1. call' = call
      BY <2>6 DEF Outside, GrowOld, CacheExpires, SpendElsewhere
    <3>2. \A d \in Calls : Met(d)'
      BY <2>1, <3>1 DEF EarnInv, Met, LevelSeen, Pair, At
    <3>3. Cached
      <4>1. ~(NotCached >= RequiredLevel) /\ cache \in [Pairs -> Nat \cup {NotCached}]
        BY RelationshipAssumption DEF NotCached, ShapeInv, RelationType
      <4>2. ASSUME NEW p \in Pairs, CacheExpires(p) PROVE Cached
        BY <2>1, <4>1, <4>2 DEF CacheExpires, EarnInv
      <4>3. CASE cache' = cache
        BY <2>2, <4>3
      <4> HIDE DEF Cached
      <4> QED BY <2>6, <4>2, <4>3 DEF Outside, GrowOld, SpendElsewhere
    <3> QED BY <2>1, <2>2, <2>6, <3>2, <3>3 DEF EarnInv
  <2>7. ASSUME NEW c \in Calls, rel' = rel,
               Begins(c) \/ Scores(c) \/ Checks(c) \/ Caches(c) \/ WriteType(c)
        PROVE  EarnInv'
    <3>1. Cached
      BY <2>2, <2>4, <2>7, CacheKept
    <3>2. \A d \in Calls : Met(d)'
      BY <2>3, <2>7
    <3> QED BY <2>1, <2>2, <2>7, <3>1, <3>2 DEF EarnInv
  <2>8. ASSUME NEW c \in Calls, Relates(c) PROVE EarnInv'
    <3>1. Cached
      BY <2>2, <2>8, CacheKept
    <3>2. \A d \in Calls : Met(d)'
      BY <2>3, <2>8
    <3> QED BY <2>1, <2>5, <2>8, <3>1, <3>2 DEF EarnInv
  <2> QED BY <1>1, <2>6, <2>7, <2>8, WhoSteps
<1>2. CASE UNCHANGED relationVars
  BY <1>2 DEF relationVars, EarnInv, Met, LevelSeen, Pair, At
<1> QED BY <1>1, <1>2

LEMMA EarnInit ==
  ASSUME RelationInit
  PROVE  EarnInv
<1>1. call = [c \in Calls |-> NoCall] /\ cache = [p \in Pairs |-> NotCached]
  BY DEF RelationInit, IntimacyInit
<1>2. \A c \in Calls : Met(c)
  BY <1>1, NothingAsked DEF Met, At, PastLevel
<1>3. \A p \in Pairs : rel[p].status # "NONE" => p \in earned
  BY DEF RelationInit, NoInvite
<1>4. \A p \in Pairs : row[p].level >= RequiredLevel => p \in earned
  BY DEF RelationInit, HighEnough
<1>5. \A p \in Pairs : ~(cache[p] >= RequiredLevel)
  BY <1>1, RelationshipAssumption DEF NotCached
<1> QED BY <1>2, <1>3, <1>4, <1>5 DEF EarnInv

\* No invitation without the level: for any users, levels and number of calls, however
\* old the cached level is and whatever fails (relationship.service.ts 44-48).
THEOREM InviteWasEarnedAlways == RelationSpec => []InviteWasEarned
<1>1. RelationInit => ShapeInv /\ EarnInv
  BY ShapeInit, EarnInit
<1>2. ShapeInv /\ EarnInv /\ [RelationNext]_relationVars => (ShapeInv /\ EarnInv)'
  BY ShapeNext, EarnNext
<1>3. EarnInv => InviteWasEarned
  BY DEF EarnInv, InviteWasEarned
<1> QED BY <1>1, <1>2, <1>3, PTL DEF RelationSpec

-----------------------------------------------------------------------------
\* In calm behaviours calls under way are of different users, and a nightly job
\* has no other beside it.
Sole ==
  \A c, d \in Calls : c # d /\ ~At(c, "idle") /\ ~At(d, "idle") =>
    call[c].user # call[d].user /\ call[c].op \notin Jobs /\ call[d].op \notin Jobs
\* An answer under way is given to the pending invitation of its user; nobody else
\* who has checked the pair has left an invitation that waits for the other user.
Claim(c) ==
  IF call[c].op \in {"accept", "reject"}
  THEN /\ rel[Pair(c)] = call[c].invite
       /\ rel[Pair(c)].status = "PENDING" /\ rel[Pair(c)].invitee = call[c].user
  ELSE rel[Pair(c)].status = "PENDING" => rel[Pair(c)].invitee = call[c].user
CalmInv == calm => Sole /\ \A c \in Calls : call[c].at \in PastLevel => Claim(c)

LEMMA BeginCalm ==
  ASSUME ShapeInv, NEW c \in Calls, Begins(c)
  PROVE  /\ calm' = calm /\ At(c, "idle")
         /\ calm => \A d \in Calls : d # c /\ ~At(d, "idle") =>
              /\ call'[c].user # call[d].user
              /\ call'[c].op \notin Jobs /\ call[d].op \notin Jobs
<1>1. ASSUME NEW u, UserAsks(c, u), call'[c].user = u, call'[c].op \notin Jobs
      PROVE  /\ At(c, "idle")
             /\ calm => \A d \in Calls : d # c /\ ~At(d, "idle") =>
                  /\ call'[c].user # call[d].user
                  /\ call'[c].op \notin Jobs /\ call[d].op \notin Jobs
  BY <1>1 DEF UserAsks, InFlight
<1>2. ASSUME NEW p \in Pairs, NEW u \in p,
             TrackInteraction(c, u, p) \/ OnMessageSent(c, u, p)
      PROVE  UserAsks(c, u) /\ call'[c].user = u /\ call'[c].op \notin Jobs /\ calm' = calm
  <2>1. PICK op \in {"track", "message"} : Interact(c, u, p, op)
    BY <1>2 DEF TrackInteraction, OnMessageSent
  <2>2. call'[c].user = u /\ call'[c].op = op
    BY <2>1, Interacts
  <2> QED BY <2>1, <2>2 DEF Interact, Jobs
<1>3. ASSUME NEW p \in Pairs, NEW u \in p,
             Look(c, u, p, "look", "NONE") \/ SendInvite(c, u, p) \/ Reactivate(c, u, p)
      PROVE  UserAsks(c, u) /\ call'[c].user = u /\ call'[c].op \notin Jobs /\ calm' = calm
  <2>1. PICK op \in {"look", "send", "reactivate"}, type \in Types : Look(c, u, p, op, type)
    BY <1>3 DEF SendInvite, Reactivate, Types
  <2>2. op \in RelationOps /\ op \notin Jobs
    BY DEF RelationOps, Jobs
  <2>3. call'[c].user = u /\ call'[c].op = op
    BY <2>1, <2>2, Looks
  <2> QED BY <2>1, <2>2, <2>3 DEF Look
<1>4. ASSUME NEW p \in Pairs, NEW u \in p, AcceptInvite(c, u, p) \/ RejectInvite(c, u, p)
      PROVE  UserAsks(c, u) /\ call'[c].user = u /\ call'[c].op \notin Jobs /\ calm' = calm
  <2>1. PICK op \in {"accept", "reject"} : Answer(c, u, p, op)
    BY <1>4 DEF AcceptInvite, RejectInvite
  <2>2. call'[c].user = u /\ call'[c].op = op
    BY <2>1, Answers
  <2> QED BY <2>1, <2>2 DEF Answer, Jobs
<1>5. CASE ApplyDecay(c) \/ ExpireStale(c)
  <2>1. At(c, "idle") /\ calm' = calm /\ (calm => Quiet)
    BY <1>5 DEF ApplyDecay, ExpireStale, BeginJob, Ask
  <2> QED BY <2>1 DEF Quiet
<1>6. CASE \E p \in Pairs : \E u \in p :
         \/ TrackInteraction(c, u, p) \/ OnMessageSent(c, u, p) \/ Look(c, u, p, "look", "NONE")
         \/ SendInvite(c, u, p) \/ AcceptInvite(c, u, p) \/ RejectInvite(c, u, p)
         \/ Reactivate(c, u, p)
  <2>1. PICK u : UserAsks(c, u) /\ call'[c].user = u /\ call'[c].op \notin Jobs /\ calm' = calm
    BY <1>2, <1>3, <1>4, <1>6
  <2> QED BY <1>1, <2>1
<1> QED BY <1>5, <1>6 DEF Begins

\* A call that goes on is the same call, of the same pair if a user made it.
LEMMA OnCalm ==
  ASSUME ShapeInv, NEW c \in Calls,
         Scores(c) \/ Relates(c) \/ Checks(c) \/ Caches(c) \/ WriteType(c)
  PROVE  /\ calm' = calm /\ ~At(c, "idle")
         /\ call'[c] = NoCall \/ CallKept(c)
<1>1. call[c] \in CallSet /\ call \in [Calls -> CallSet] /\ Placed(c)
  BY DEF ShapeInv, PairInv, Placed, RelationType
<1>2. ASSUME Done(c) PROVE call'[c] = NoCall
  BY <1>2, Ended
<1>3. ASSUME NEW l \in RelationPlaces, Goto(c, l) PROVE CallKept(c)
  BY <1>3, Went DEF CallKept
<1>4. ASSUME NEW l \in RelationPlaces, NEW ok, GoIf(c, ok, l) PROVE call'[c] = NoCall \/ CallKept(c)
  BY <1>2, <1>3, <1>4 DEF GoIf
<1>5. ASSUME NEW l \in RelationPlaces, NEW r \in RowSet, call[c].pair \in Pairs, GoOnWithRow(c, r, l)
      PROVE  CallKept(c)
  BY <1>5, WentWithRow DEF CallKept
<1>6. ASSUME NEW l \in RelationPlaces, NEW r \in InviteSet, GoOnWith(c, r, l) PROVE CallKept(c)
  BY <1>6, WentWithInvite DEF CallKept
<1>7. CASE Scores(c)
  <2>1. CASE CreateRow(c)
    <3>1. call[c].pair \in Pairs /\ RowWith(0) \in RowSet /\ "score" \in RelationPlaces
      BY <1>1, <2>1 DEF CreateRow, At, Placed, RowWith, RowSet, Types, Ages, RelationPlaces
    <3> QED BY <1>2, <1>5, <2>1, <3>1 DEF CreateRow, At
  <2>2. CASE ScoreInteraction(c) \/ ScoreMessage(c)
    BY <1>2, <1>3, <2>2 DEF ScoreInteraction, ScoreMessage, At, Is, RelationPlaces
  <2>3. CASE DecayRow(c)
    <3>1. \/ Done(c)
          \/ \E p : call' = [call EXCEPT ![c].todo = call[c].todo \ {p}, ![c].read[p] = NoRow]
      BY <2>3 DEF DecayRow
    <3>2. ASSUME NEW p,
                 call' = [call EXCEPT ![c].todo = call[c].todo \ {p}, ![c].read[p] = NoRow]
          PROVE  CallKept(c)
      BY <1>1, <3>2 DEF CallSet, CallKept
    <3> QED BY <1>2, <2>3, <3>1, <3>2 DEF DecayRow, At
  <2> QED BY <1>7, <2>1, <2>2, <2>3 DEF Scores
<1>8. CASE Relates(c)
  <2>1. CASE WriteInvite(c) \/ WriteRejection(c) \/ WriteAcceptance(c) \/ Pay(c)
    BY <1>2, <1>3, <2>1 DEF WriteInvite, WriteRejection, WriteAcceptance, Pay, At, Is, RelationPlaces
  <2>2. CASE WriteExpiry(c)
    <3>1. PICK p : call' = [call EXCEPT ![c].at = "type", ![c].pair = p]
      BY <2>2 DEF WriteExpiry
    <3>2. CallKept(c)
      BY <1>1, <3>1 DEF CallSet, CallKept
    <3> QED BY <2>2, <3>2 DEF WriteExpiry, At
  <2> QED BY <1>8, <2>1, <2>2 DEF Relates
<1>9. CASE Checks(c)
  <2>1. CASE FindRow(c)
    <3>1. call[c].pair \in Pairs /\ "fill" \in RelationPlaces
      BY <1>1, <2>1 DEF FindRow, At, Placed, RelationPlaces
    <3>2. RowWith(row[call[c].pair].level) \in RowSet
      BY <3>1 DEF ShapeInv, RelationType, RowSet, RowWith, Types, Ages
    <3> QED BY <1>2, <1>5, <2>1, <3>1, <3>2 DEF FindRow, At
  <2>2. CASE FindRelation(c) \/ FindExpired(c)
    <3>1. call[c].pair \in Pairs
      BY <1>1, <2>2 DEF FindRelation, FindExpired, Is, At, Placed
    <3>2. rel[call[c].pair] \in InviteSet
      BY <3>1 DEF ShapeInv, RelationType
    <3> QED BY <1>2, <1>6, <2>2, <3>2 DEF FindRelation, FindExpired, Is, At, RelationPlaces, Pair
  <2>3. CASE ValidateCouple(c) \/ ValidateFriends(c) \/ CheckCoins(c)
    BY <1>4, <2>3 DEF ValidateCouple, ValidateFriends, CheckCoins, At, RelationPlaces
  <2>4. CASE Fail(c)
    BY <1>2, <2>4 DEF Fail, InFlight
  <2> QED BY <1>9, <2>1, <2>2, <2>3, <2>4 DEF Checks
<1>10. CASE Caches(c)
  <2>1. CASE FillCache(c)
    BY <1>4, <2>1 DEF FillCache, At, RelationPlaces
  <2>2. CASE Uncache(c)
    <3>1. ASSUME ~Done(c) PROVE CallKept(c)
      <4>1. call' = [call EXCEPT ![c].at = "expire", ![c].todo = call[c].todo \ {call[c].pair}]
        BY <2>2, <3>1 DEF Uncache
      <4> QED BY <1>1, <4>1 DEF CallSet, CallKept
    <3> QED BY <1>2, <2>2, <3>1 DEF Uncache, At
  <2> QED BY <1>10, <2>1, <2>2 DEF Caches
<1>11. CASE WriteType(c)
  BY <1>3, <1>11 DEF WriteType, At, RelationPlaces
<1> QED BY <1>7, <1>8, <1>9, <1>10, <1>11

LEMMA AloneNext ==
  ASSUME ShapeInv, Sole, calm, NEW c \in Calls,
         \/ Begins(c) \/ Scores(c) \/ Relates(c) \/ Checks(c) \/ Caches(c) \/ WriteType(c)
  PROVE  Sole'
<1>1. Same(c)
  BY EachStep DEF CallStep
<1>2. \A d \in Calls : d # c /\ ~At(d, "idle") /\ ~At(c, "idle")' =>
        /\ call'[c].user # call[d].user /\ call'[c].op \notin Jobs /\ call[d].op \notin Jobs
  <2>1. CASE Begins(c)
    BY <2>1, BeginCalm
  <2>2. CASE Scores(c) \/ Relates(c) \/ Checks(c) \/ Caches(c) \/ WriteType(c)
    <3>1. ~At(c, "idle") /\ (At(c, "idle")' \/ CallKept(c))
      BY <2>2, OnCalm, NothingAsked DEF At
    <3> QED BY <3>1 DEF Sole, CallKept
  <2> QED BY <2>1, <2>2
<1>3. \A d \in Calls : d # c => (At(d, "idle")' <=> At(d, "idle"))
  BY <1>1 DEF Same, At
<1> QED BY <1>1, <1>2, <1>3 DEF Sole, Same

\* A call where it makes no claim.
LEMMA NoClaim ==
  ASSUME ShapeInv, NEW c \in Calls,
         Scores(c) \/ Relates(c) \/ Caches(c) \/ WriteType(c)
  PROVE  call'[c].at \notin PastLevel
<1>1. call[c] \in CallSet /\ call \in [Calls -> CallSet] /\ Placed(c)
  BY DEF ShapeInv, PairInv, Placed, RelationType
<1>2. ASSUME Done(c) PROVE call'[c].at \notin PastLevel
  BY <1>2, Ended, NothingAsked DEF PastLevel
<1>3. ASSUME NEW l \in {"score", "type", "uncache", "known"}, Goto(c, l)
      PROVE  call'[c].at \notin PastLevel
  <2>1. l \in RelationPlaces /\ l \notin PastLevel
    BY DEF RelationPlaces, PastLevel
  <2> QED BY <1>3, <2>1, Went
<1>4. CASE CreateRow(c)
  <2>1. call[c].pair \in Pairs /\ RowWith(0) \in RowSet /\ "score" \in RelationPlaces
    BY <1>1, <1>4 DEF CreateRow, At, Placed, RowWith, RowSet, Types, Ages, RelationPlaces
  <2> QED BY <1>2, <1>4, <2>1, WentWithRow DEF CreateRow, PastLevel
<1>5. CASE DecayRow(c)
  <2>1. ASSUME NEW p,
               call' = [call EXCEPT ![c].todo = call[c].todo \ {p}, ![c].read[p] = NoRow]
        PROVE  call'[c].at = call[c].at
    BY <1>1, <2>1 DEF CallSet
  <2> QED BY <1>2, <1>5, <2>1 DEF DecayRow, At, PastLevel
<1>6. CASE WriteExpiry(c)
  <2>1. PICK p : call' = [call EXCEPT ![c].at = "type", ![c].pair = p]
    BY <1>6 DEF WriteExpiry
  <2>2. call'[c].at = "type"
    BY <1>1, <2>1 DEF CallSet
  <2> QED BY <2>2 DEF PastLevel
<1>7. CASE Uncache(c)
  <2>1. ASSUME ~Done(c) PROVE call'[c].at = "expire"
    <3>1. call' = [call EXCEPT ![c].at = "expire", ![c].todo = call[c].todo \ {call[c].pair}]
      BY <1>7, <2>1 DEF Uncache
    <3> QED BY <1>1, <3>1 DEF CallSet
  <2> QED BY <1>2, <2>1 DEF PastLevel
<1>8. CASE \/ ScoreInteraction(c) \/ ScoreMessage(c) \/ WriteInvite(c) \/ WriteRejection(c)
           \/ WriteAcceptance(c) \/ Pay(c) \/ WriteType(c) \/ FillCache(c)
  BY <1>2, <1>3, <1>8 DEF ScoreInteraction, ScoreMessage, WriteInvite, WriteRejection,
       WriteAcceptance, Pay, WriteType, FillCache, GoIf
<1> QED BY <1>4, <1>5, <1>6, <1>7, <1>8 DEF Scores, Relates, Caches

\* A claim that is made, by an answer that begins or by a check, is true.
LEMMA NewClaim ==
  ASSUME ShapeInv, CalmInv, calm, NEW c \in Calls, Begins(c) \/ Checks(c), rel' = rel,
         call'[c].at \in PastLevel
  PROVE  Claim(c)'
<1>1. call[c] \in CallSet /\ call \in [Calls -> CallSet] /\ Placed(c)
  BY DEF ShapeInv, PairInv, Placed, RelationType
<1>2. CASE Begins(c)
  <2>1. ASSUME NEW p \in Pairs, NEW u \in p, AcceptInvite(c, u, p) \/ RejectInvite(c, u, p)
        PROVE  Claim(c)'
    <3>1. PICK op \in {"accept", "reject"} : Answer(c, u, p, op)
      BY <2>1 DEF AcceptInvite, RejectInvite
    <3>2. /\ call'[c].op = op /\ call'[c].user = u /\ call'[c].pair = p
          /\ call'[c].invite = rel[p]
      BY <3>1, Answers
    <3>3. rel[p].status = "PENDING" /\ rel[p].invitee = u
      BY <3>1 DEF Answer
    <3> QED BY <3>2, <3>3 DEF Claim, Pair
  <2>2. ASSUME NEW p \in Pairs, NEW u \in p,
               TrackInteraction(c, u, p) \/ OnMessageSent(c, u, p)
        PROVE  FALSE
    BY <2>2, Interacts DEF TrackInteraction, OnMessageSent, PastLevel
  <2>3. ASSUME NEW p \in Pairs, NEW u \in p,
               Look(c, u, p, "look", "NONE") \/ SendInvite(c, u, p) \/ Reactivate(c, u, p)
        PROVE  FALSE
    <3>1. PICK op \in {"look", "send", "reactivate"}, type \in Types : Look(c, u, p, op, type)
      BY <2>3 DEF SendInvite, Reactivate, Types
    <3>2. op \in RelationOps
      BY DEF RelationOps
    <3> QED BY <3>1, <3>2, Looks DEF PastLevel
  <2>4. ASSUME ApplyDecay(c) \/ ExpireStale(c) PROVE FALSE
    <3>1. PICK op \in Jobs, due \in SUBSET Pairs : BeginJob(c, op, op, due)
      BY <2>4 DEF ApplyDecay, ExpireStale, Jobs
    <3>2. call'[c].at = op
      BY <3>1, JobBegins
    <3> QED BY <3>2 DEF Jobs, PastLevel
  <2> QED BY <1>2, <2>1, <2>2, <2>3, <2>4 DEF Begins
<1>3. CASE Checks(c)
  <2>1. ~Done(c)
    BY Ended, NothingAsked DEF PastLevel
  <2>2. CASE FindRow(c)
    <3>1. call[c].pair \in Pairs /\ "fill" \in RelationPlaces
      BY <1>1, <2>2 DEF FindRow, At, Placed, RelationPlaces
    <3>2. RowWith(row[call[c].pair].level) \in RowSet
      BY <3>1 DEF ShapeInv, RelationType, RowSet, RowWith, Types, Ages
    <3> QED BY <2>1, <2>2, <3>1, <3>2, WentWithRow DEF FindRow, PastLevel
  <2>3. CASE FindRelation(c) \/ FindExpired(c)
    <3>1. /\ call[c].pair \in Pairs /\ call[c].op \notin {"accept", "reject"}
          /\ rel[call[c].pair].status # "PENDING"
      BY <1>1, <2>1, <2>3 DEF FindRelation, FindExpired, Is, At, Placed, Open, Pair
    <3>2. PICK l \in RelationPlaces : GoOnWith(c, rel[call[c].pair], l)
      BY <2>1, <2>3 DEF FindRelation, FindExpired, Pair, RelationPlaces
    <3>3. call'[c].op = call[c].op /\ call'[c].pair = call[c].pair
      BY <3>1, <3>2, WentWithInvite DEF ShapeInv, RelationType
    <3> QED BY <3>1, <3>3 DEF Claim, Pair
  <2>4. CASE ValidateCouple(c) \/ ValidateFriends(c) \/ CheckCoins(c)
    <3>1. PICK l \in RelationPlaces : Goto(c, l)
      BY <2>1, <2>4 DEF ValidateCouple, ValidateFriends, CheckCoins, GoIf, RelationPlaces
    <3>2. call[c].at \in PastLevel
      BY <2>4 DEF ValidateCouple, ValidateFriends, CheckCoins, At, PastLevel
    <3>3. Claim(c)
      BY <3>2 DEF CalmInv
    <3>4. /\ call'[c].op = call[c].op /\ call'[c].pair = call[c].pair
          /\ call'[c].user = call[c].user /\ call'[c].invite = call[c].invite
      BY <3>1, Went
    <3> QED BY <3>3, <3>4 DEF Claim, Pair
  <2> QED BY <1>3, <2>1, <2>2, <2>3, <2>4 DEF Checks, Fail
<1> QED BY <1>2, <1>3

\* No write of another call's takes a claim's truth away.
LEMMA ClaimKept ==
  ASSUME ShapeInv, CalmInv, calm, NEW c \in Calls, Relates(c), NEW d \in Calls, d # c,
         call[d].at \in PastLevel, call'[d] = call[d]
  PROVE  Claim(d)'
<1>1. /\ call[c] \in CallSet /\ Placed(c) /\ call[d] \in CallSet /\ Placed(d)
      /\ rel \in [Pairs -> InviteSet]
  BY DEF ShapeInv, PairInv, Placed, RelationType
<1>2. Claim(d) /\ ~At(d, "idle")
  BY DEF CalmInv, PastLevel, At
<1>3. ~At(c, "idle")
  BY OnCalm
<1>4. /\ call[c].user # call[d].user /\ call[c].op \notin Jobs /\ call[d].op \notin Jobs
  BY <1>2, <1>3 DEF CalmInv, Sole
<1>5. ~WriteExpiry(c)
  BY <1>1, <1>4 DEF WriteExpiry, Placed, At
<1>6. call[c].at \in PastLevel /\ Claim(c) /\ call[c].pair \in Pairs /\ call[d].pair \in Pairs
  <2>1. call[c].at \in PastLevel
    BY <1>5 DEF Relates, WriteInvite, WriteRejection, WriteAcceptance, Pay, Is, At, PastLevel
  <2> QED BY <1>1, <2>1 DEF CalmInv, PastLevel, Placed
<1>7. call[c].user \in call[c].pair /\ call[d].user \in call[d].pair
  BY <1>1, <1>2, <1>3, <1>4 DEF Placed
<1> DEFINE p == call[c].pair
<1>8. ASSUME NEW s, rel' = [rel EXCEPT ![p].status = s]
       PROVE  rel'[p].status = s /\ \A q \in Pairs : q # p => rel'[q] = rel[q]
  BY <1>1, <1>6, <1>8 DEF InviteSet
<1>9. ASSUME NEW r, rel' = [rel EXCEPT ![p] = r]
       PROVE  rel'[p] = r /\ \A q \in Pairs : q # p => rel'[q] = rel[q]
  BY <1>1, <1>6, <1>9
<1>10. CASE rel'[call[d].pair] = rel[call[d].pair]
  BY <1>2, <1>10 DEF Claim, Pair
<1>11. CASE rel'[call[d].pair] # rel[call[d].pair]
  <2>1. call[d].pair = call[c].pair
    BY <1>5, <1>6, <1>11, <1>8, <1>9 DEF Relates, WriteInvite, WriteRejection,
         WriteAcceptance, Pay, SetStatus, Pair
  <2>2. call[d].op \notin {"accept", "reject"}
    BY <1>2, <1>4, <1>6, <2>1 DEF Claim, Pair
  <2>3. CASE WriteInvite(c)
    <3>1. rel'[call[c].pair].invitee = TheOther(c)
      BY <1>1, <1>6, <1>11, <2>1, <2>3 DEF WriteInvite, Pair
    <3>2. TheOther(c) = call[d].user
      BY <1>4, <1>6, <1>7, <2>1, TwoUsers DEF TheOther, Pair
    <3> QED BY <2>1, <2>2, <3>1, <3>2 DEF Claim, Pair
  <2>4. CASE WriteRejection(c) \/ WriteAcceptance(c) \/ Pay(c)
    <3>1. rel'[call[c].pair].status \in {"REJECTED", "ACTIVE"}
      BY <1>8, <2>4 DEF WriteRejection, WriteAcceptance, Pay, SetStatus, Pair
    <3> QED BY <2>1, <2>2, <3>1 DEF Claim, Pair
  <2> QED BY <1>5, <2>3, <2>4 DEF Relates
<1> QED BY <1>10, <1>11

LEMMA CalmNext ==
  ASSUME ShapeInv, CalmInv, [RelationNext]_relationVars
  PROVE  CalmInv'
<1>1. ASSUME calm, NEW c \in Calls,
             Begins(c) \/ Scores(c) \/ Checks(c) \/ Caches(c) \/ WriteType(c), rel' = rel
      PROVE  CalmInv'
  <2>1. Sole' /\ Same(c)
    BY <1>1, AloneNext, EachStep DEF CalmInv, CallStep
  <2>2. call'[c].at \in PastLevel => Claim(c)'
    BY <1>1, NoClaim, NewClaim
  <2>3. ASSUME NEW d \in Calls, d # c, call'[d].at \in PastLevel PROVE Claim(d)'
    <3>1. call'[d] = call[d]
      BY <2>1, <2>3 DEF Same
    <3> QED BY <1>1, <2>3, <3>1 DEF CalmInv, Claim, Pair
  <2> QED BY <2>1, <2>2, <2>3 DEF CalmInv
<1>2. ASSUME calm, NEW c \in Calls, Relates(c) PROVE CalmInv'
  <2>1. Sole' /\ Same(c)
    BY <1>2, AloneNext, EachStep DEF CalmInv, CallStep
  <2>2. call'[c].at \notin PastLevel
    BY <1>2, NoClaim
  <2>3. ASSUME NEW d \in Calls, d # c, call'[d].at \in PastLevel PROVE Claim(d)'
    BY <1>2, <2>1, <2>3, ClaimKept DEF Same
  <2> QED BY <2>1, <2>2, <2>3 DEF CalmInv
<1>3. CASE Outside /\ rel' = rel
  <2>1. call' = call /\ calm' = calm
    BY <1>3 DEF Outside, GrowOld, CacheExpires, SpendElsewhere
  <2> QED BY <1>3, <2>1 DEF CalmInv, Sole, Claim, Pair, At
<1>4. CASE UNCHANGED relationVars
  BY <1>4 DEF relationVars, CalmInv, Sole, Claim, Pair, At
<1>5. CASE ~calm /\ RelationNext
  <2>1. calm' = calm
    <3>1. ASSUME NEW c \in Calls,
                 \/ Begins(c) \/ Scores(c) \/ Relates(c) \/ Checks(c) \/ Caches(c) \/ WriteType(c)
          PROVE  calm' = calm
      BY <3>1, BeginCalm, OnCalm
    <3>2. CASE Outside
      BY <3>2 DEF Outside, GrowOld, CacheExpires, SpendElsewhere
    <3> QED BY <1>5, <3>1, <3>2, WhoSteps
  <2> QED BY <1>5, <2>1 DEF CalmInv
<1> QED BY <1>1, <1>2, <1>3, <1>4, <1>5, WhoSteps

\* With one call of a user at a time, and the nightly jobs alone, an answer is written to
\* the invitation it was given to (relationship.service.ts 112-147, 169-188).
THEOREM AnswerMeetsInviteAlways == RelationSpec => []AnswerMeetsInvite
<1>1. RelationInit => ShapeInv /\ CalmInv
  <2> SUFFICES ASSUME RelationInit PROVE CalmInv
    BY ShapeInit
  <2>1. call = [c \in Calls |-> NoCall]
    BY DEF RelationInit, IntimacyInit
  <2> QED BY <2>1, NothingAsked DEF CalmInv, Sole, At, PastLevel
<1>2. ShapeInv /\ CalmInv /\ [RelationNext]_relationVars => (ShapeInv /\ CalmInv)'
  BY ShapeNext, CalmNext
<1>3. CalmInv => AnswerMeetsInvite
  BY DEF CalmInv, AnswerMeetsInvite, Answering, PastLevel, Claim
<1> QED BY <1>1, <1>2, <1>3, PTL DEF RelationSpec
=============================================================================
