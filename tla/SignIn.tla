------------------------------- MODULE SignIn -------------------------------
(***************************************************************************)
(* How users get in (src/src/modules/auth/services/): a code sent to a      *)
(* phone (OtpService), an email and password (EmailAuthService), a Google   *)
(* account (GoogleAuthService); the signup bonus (AntiAbuseService) and the *)
(* devices (DeviceTrackingService) they share; and, from Session, the       *)
(* tokens they end with.  Each service is a line of database calls that are *)
(* not one transaction.                                                     *)
(*                                                                         *)
(* A user is named by the phone or email the row is made with; both are     *)
(* unique in the schema.  The rate limits in front are in RateLimit.        *)
(* isBlocked has no writer, and the phone's AuthProvider row no reader that *)
(* decides anything: both are left out.                                     *)
(***************************************************************************)
EXTENDS Session, Sequences, FiniteSetsExt

CONSTANTS
  Phones, Emails,
  Subs,          \* Google accounts
  VerifiedSubs,  \* those whose email Google has verified
  Devices,       \* device fingerprints
  MaxPerDevice,  \* fraud.maxAccountsPerDevice
  MaxAttempts,   \* otp.maxAttempts
  MaxCodes       \* bound on the codes sent to a phone

ASSUME SignInAssumption ==
  /\ Users = Phones \cup Emails /\ Phones \cap Emails = {}
  /\ Nobody \notin Devices \cup Subs /\ VerifiedSubs \subseteq Subs
  /\ IsFiniteSet(Calls)
  /\ MaxPerDevice \in Nat /\ MaxAttempts \in Nat \ {0} /\ MaxCodes \in Nat

VARIABLES
  account,   \* users: how they were made, from which device, verified or not
  bonus,     \* users whose wallet was made with the signup bonus
  rewards,   \* users with a SIGNUP_BONUS row
  seen,      \* UserDevice rows
  linked,    \* AuthProvider rows of Google
  codes,     \* Otp rows of each phone, oldest first
  form       \* what a request was given and has found out

accountVars == <<account, bonus, rewards, seen, linked, codes>>
vars == <<sessions, holder, chain, expired, ended, closed, call, asks, faults, calm,
          account, bonus, rewards, seen, linked, codes, form>>

NoAccount == [made |-> "none", device |-> Nobody, verified |-> FALSE]
Blank == [device |-> Nobody, sub |-> Nobody, code |-> 0, row |-> 0,
          new |-> FALSE, grant |-> FALSE]
Known == {a \in Users : account[a].made # "none"}

Init ==
  /\ SessionInit
  /\ account = [a \in Users |-> NoAccount]
  /\ bonus = {} /\ rewards = {} /\ seen = {}
  /\ linked = [s \in Subs |-> Nobody]
  /\ codes = [p \in Phones |-> <<>>]
  /\ form = [c \in Calls |-> Blank]

\* A request begins for user a with input f, or is refused at once.
Begin(c, op, a, f, l) ==
  /\ At(c, "idle") /\ Ask
  /\ IF l = "refused" THEN UNCHANGED <<call, form>>
     ELSE /\ call' = [call EXCEPT ![c] = [op |-> op, at |-> l, who |-> a, token |-> Nobody]]
          /\ form' = [form EXCEPT ![c] = f]
  /\ UNCHANGED <<sessionVars, closed, faults, calm>>

Who(c) == call[c].who
Rest == UNCHANGED <<sessionVars, closed, asks, faults, calm>>

-----------------------------------------------------------------------------
(* OtpService *)

SendOtp(p) ==
  /\ Ask /\ Len(codes[p]) < MaxCodes
  /\ codes' = [codes EXCEPT ![p] = Append(@, [attempts |-> 0, state |-> "open", used |-> 0])]
  /\ UNCHANGED <<sessionVars, closed, call, faults, calm,
                 account, bonus, rewards, seen, linked, form>>

ExpireCode(p, k) ==
  /\ Ask /\ codes[p][k].state = "open"
  /\ codes' = [codes EXCEPT ![p][k].state = "expired"]
  /\ UNCHANGED <<sessionVars, closed, call, faults, calm,
                 account, bonus, rewards, seen, linked, form>>

OpenCodes(p) == {k \in DOMAIN codes[p] : codes[p][k].state = "open"}

\* Mutant: one attempt too many.
HasAttemptsOffByOne(o) == o.attempts <= MaxAttempts
HasAttempts(o) == o.attempts < MaxAttempts

Newest(p) == {k \in OpenCodes(p) : \A j \in OpenCodes(p) : j <= k}

\* The newest code that is open is the one to try; k is the code entered, named
\* by its place, 0 if it is none of them.
VerifyOtp(c, p, k, d) ==
  LET f == [Blank EXCEPT !.device = d, !.code = k]
  IN /\ \/ \E row \in Newest(p) :
             HasAttempts(codes[p][row]) /\ Begin(c, "otp", p, [f EXCEPT !.row = row], "attempt")
        \/ /\ \A row \in Newest(p) : ~HasAttempts(codes[p][row])
           /\ Begin(c, "otp", p, f, "refused")
     /\ UNCHANGED accountVars

CountAttempt(c) ==
  /\ At(c, "attempt")
  /\ codes' = [codes EXCEPT ![Who(c)][form[c].row].attempts = @ + 1]
  /\ IF form[c].code = form[c].row THEN Goto(c, "mark") ELSE End(c)
  /\ Rest /\ UNCHANGED <<account, bonus, rewards, seen, linked, form>>

\* Mutant: the code stays open.
LeaveOpen(c) ==
  /\ At(c, "mark")
  /\ codes' = [codes EXCEPT ![Who(c)][form[c].row].used = @ + 1]
  /\ Goto(c, "user")
  /\ Rest /\ UNCHANGED <<account, bonus, rewards, seen, linked, form>>
MarkVerified(c) ==
  /\ At(c, "mark")
  /\ codes' = [codes EXCEPT ![Who(c)][form[c].row].state = "verified",
                            ![Who(c)][form[c].row].used = @ + 1]
  /\ Goto(c, "user")
  /\ Rest /\ UNCHANGED <<account, bonus, rewards, seen, linked, form>>

FindUser(c) ==
  /\ At(c, "user")
  /\ Goto(c, IF Who(c) \in Known THEN "track" ELSE "device")
  /\ Rest /\ UNCHANGED <<accountVars, form>>

UsersOn(d) == {a \in Users : <<a, d>> \in seen}

CountUsersOnDevice(c) ==
  /\ At(c, "device")
  /\ IF form[c].device # Nobody /\ Cardinality(UsersOn(form[c].device)) >= MaxPerDevice
     THEN End(c) ELSE Goto(c, "grant")
  /\ Rest /\ UNCHANGED <<accountVars, form>>

-----------------------------------------------------------------------------
(* EmailAuthService *)

Register(c, e, d) ==
  /\ Begin(c, "register", e, [Blank EXCEPT !.device = d],
           IF e \in Known THEN "refused" ELSE "grant")
  /\ UNCHANGED accountVars

\* With the right password; users that Google made have none.
Login(c, e, d) ==
  /\ Begin(c, "login", e, [Blank EXCEPT !.device = d],
           IF account[e].made = "register" /\ e \notin closed THEN "track" ELSE "refused")
  /\ UNCHANGED accountVars

-----------------------------------------------------------------------------
(* GoogleAuthService *)

\* Google account s shows email e.
GoogleSignIn(c, s, e, d) ==
  LET f == [Blank EXCEPT !.device = d, !.sub = s]
  IN /\ IF linked[s] # Nobody THEN Begin(c, "google", linked[s], f, "track")
        ELSE Begin(c, "google", e, f, "email")
     /\ UNCHANGED accountVars

FindByEmail(c) ==
  /\ At(c, "email")
  /\ Goto(c, IF account[Who(c)].verified THEN "link" ELSE "grant")
  /\ Rest /\ UNCHANGED <<accountVars, form>>

\* One provider row per Google account.
LinkGoogle(c) ==
  /\ At(c, "link")
  /\ IF linked[form[c].sub] = Nobody
     THEN linked' = [linked EXCEPT ![form[c].sub] = Who(c)] /\ Goto(c, "track")
     ELSE UNCHANGED linked /\ End(c)
  /\ Rest /\ UNCHANGED <<account, bonus, rewards, seen, codes, form>>

-----------------------------------------------------------------------------
(* A new user: the bonus, the row with its wallet, the device, the record   *)

RewardsOn(d) == {a \in rewards : account[a].device = d}

\* Mutant: the rewards of the device are not counted.
GrantsAlways(c) == TRUE
Grants(c) ==
  /\ form[c].device # Nobody => Cardinality(RewardsOn(form[c].device)) < MaxPerDevice
  /\ call[c].op = "otp" => Who(c) \notin rewards

ShouldGrantSignupBonus(c) ==
  /\ At(c, "grant")
  /\ form' = [form EXCEPT ![c].grant = Grants(c)]
  /\ Goto(c, "create")
  /\ Rest /\ UNCHANGED accountVars

\* Phone, email and Google account are unique: the later of two creations fails.
CreateUser(c) ==
  LET a == Who(c)
      s == form[c].sub
      google == call[c].op = "google"
  IN /\ At(c, "create")
     /\ IF a \in Known \/ (google /\ linked[s] # Nobody)
        THEN UNCHANGED <<account, bonus, linked, form>> /\ End(c)
        ELSE /\ account' = [account EXCEPT ![a] =
                  [made |-> call[c].op, device |-> form[c].device,
                   verified |-> s \in VerifiedSubs]]
             /\ bonus' = IF form[c].grant THEN bonus \cup {a} ELSE bonus
             /\ linked' = IF google THEN [linked EXCEPT ![s] = a] ELSE linked
             /\ form' = [form EXCEPT ![c].new = TRUE]
             /\ Goto(c, "track")
     /\ Rest /\ UNCHANGED <<rewards, seen, codes>>

Track(c) ==
  /\ At(c, "track")
  /\ seen' = IF form[c].device = Nobody THEN seen ELSE seen \cup {<<Who(c), form[c].device>>}
  /\ Goto(c, IF form[c].new /\ form[c].grant THEN "record" ELSE "issue")
  /\ Rest /\ UNCHANGED <<account, bonus, rewards, linked, codes, form>>

RecordReward(c) ==
  /\ At(c, "record")
  /\ rewards' = rewards \cup {Who(c)}
  /\ Goto(c, "issue")
  /\ Rest /\ UNCHANGED <<account, bonus, seen, linked, codes, form>>

-----------------------------------------------------------------------------

SomeDevice == Devices \cup {Nobody}

SignInNext(c) ==
  \/ \E d \in SomeDevice :
       \/ \E p \in Phones : \E k \in 0..Len(codes[p]) : VerifyOtp(c, p, k, d)
       \/ \E e \in Emails : \/ Register(c, e, d) \/ Login(c, e, d)
                            \/ \E s \in Subs : GoogleSignIn(c, s, e, d)
  \/ CountAttempt(c) \/ MarkVerified(c) \/ FindUser(c) \/ CountUsersOnDevice(c)
  \/ FindByEmail(c) \/ LinkGoogle(c)
  \/ ShouldGrantSignupBonus(c) \/ CreateUser(c) \/ Track(c) \/ RecordReward(c)

Next ==
  \/ SessionNext /\ UNCHANGED <<accountVars, form>>
  \/ \E a \in Known : SoftDelete(a) /\ UNCHANGED <<accountVars, form>>
  \/ \E p \in Phones : SendOtp(p) \/ \E k \in DOMAIN codes[p] : ExpireCode(p, k)
  \/ \E c \in Calls : SignInNext(c)

Spec == Init /\ [][Next]_vars

-----------------------------------------------------------------------------
(* Properties *)

\* A code is tried at most as often as allowed, plus once for every other request
\* that read the counter before it was raised (otp.service.ts 117-125).
TriesBounded ==
  \A p \in Phones : \A k \in DOMAIN codes[p] :
    codes[p][k].attempts <= MaxAttempts + Cardinality(Calls) - 1

\* With one request at a time a code lets its owner in once, also when older or
\* newer codes of the phone are used in between or requests are lost half-way
\* (103-110, 134-137).
CodeUsedOnce ==
  calm => \A p \in Phones : \A k \in DOMAIN codes[p] : codes[p][k].used <= 1

\* With one request at a time no device gets more bonuses than it may have
\* accounts, whichever of the three services the users come through, and one for
\* every request that was lost (anti-abuse.service.ts 19-60): the bonus is
\* counted where it is recorded, not where it is paid.
BonusPerDevice ==
  calm => \A d \in Devices :
    Cardinality({a \in bonus : account[a].device = d}) <= MaxPerDevice + faults
=============================================================================
