-------------------------- MODULE AgencyMembership --------------------------
(***************************************************************************)
(* Who works for which agency (src/src/modules/agency/agency.service.ts):   *)
(* agencies are made, hosts join and leave, owners add and remove them and  *)
(* are told of it over their socket; the gifts of a host climb from the     *)
(* agency its profile names (AgencyCommission).                             *)
(*                                                                         *)
(* Every call checks in one database call and writes, by id, in a later     *)
(* one.  Roles are given outside of this code; only createAgency changes    *)
(* one.  Nothing bans a host's profile, so that check is left out.  A       *)
(* payment's transaction reads one profile, as it begins: to the calls here *)
(* it is one moment.                                                        *)
(***************************************************************************)
EXTENDS AgencyCommission

CONSTANTS
  Hosts,       \* users with the role HOST, some of whom may make an agency
  Calls,       \* requests the server can be busy with
  NoProfile,
  Trees,       \* what agencies there are at first: functions to their parents
  MaxAsks,     \* bound on requests about membership
  MaxCrashes   \* bound on servers lost

ASSUME MembershipAssumption ==
  /\ NoProfile \notin Agencies \cup {None} /\ Hosts \cap {None, NoProfile} = {}
  /\ MaxAsks \in Nat /\ MaxCrashes \in Nat

\* An agency is made under one that is there: nobody is above himself.
ASSUME TreesAssumption ==
  \A t \in Trees :
    /\ DOMAIN t \subseteq Agencies /\ \A a \in DOMAIN t : t[a] \in DOMAIN t \cup {None}
    /\ \A a \in DOMAIN t : \E above \in SUBSET DOMAIN t :
         a \notin above /\ \A b \in above \cup {a} : t[b] # None => t[b] \in above

VARIABLES
  profile,   \* HostProfile.agencyId, or NoProfile
  hosts,     \* users whose role is HOST
  view,      \* the hosts each owner has been told of
  job,       \* where each request is; its agency, and the host or new parent
  asks, crashes,
  calm       \* one request at a time, admins wait too, and nothing fails

memberVars == <<profile, hosts, view, job, asks, crashes, calm>>
allVars == <<vars, memberVars>>

Free == [at |-> "free", whom |-> None, agency |-> None, fresh |-> FALSE]
At(c, l) == job[c].at = l
Quiet == \A c \in Calls : At(c, "free")
Begin(c) == At(c, "free") /\ asks < MaxAsks /\ asks' = asks + 1 /\ (calm => Quiet)
Goto(c, l) == job' = [job EXCEPT ![c].at = l]
Done(c) == job' = [job EXCEPT ![c] = Free]
GoFor(c, l, w, a) ==
  job' = [job EXCEPT ![c] = [at |-> l, whom |-> w, agency |-> a,
                             fresh |-> w \in Hosts /\ profile[w] = NoProfile]]
Agency(c) == job[c].agency
Whom(c) == job[c].whom
NoMoney == UNCHANGED <<books, tx, gifts, taken, aborts>>

Init ==
  /\ \E t \in Trees :
       /\ agencies = DOMAIN t
       /\ parent = [a \in Agencies |-> IF a \in DOMAIN t THEN t[a] ELSE None]
  /\ MoneyInit
  /\ profile \in [Hosts -> {NoProfile, None}]
  /\ hosts = Hosts \ agencies
  /\ view = [a \in Agencies |-> {}]
  /\ job = [c \in Calls |-> Free]
  /\ asks = 0 /\ crashes = 0 /\ calm \in BOOLEAN

-----------------------------------------------------------------------------
(* createAgency: the owner's agency, the parent, the row, the role *)

CheckOwner(c, a, p) ==
  /\ Begin(c) /\ a \notin agencies
  /\ GoFor(c, IF p = None THEN "insert" ELSE "parent", p, a)
  /\ UNCHANGED <<vars, profile, hosts, view, crashes, calm>>

FindParent(c) ==
  /\ At(c, "parent")
  /\ IF Whom(c) \in agencies \ banned THEN Goto(c, "insert") ELSE Done(c)
  /\ UNCHANGED <<vars, profile, hosts, view, asks, crashes, calm>>

InsertAgency(c) ==
  /\ At(c, "insert")
  /\ IF Agency(c) \in agencies THEN Done(c) /\ UNCHANGED <<agencies, parent>>
     ELSE /\ agencies' = agencies \cup {Agency(c)}
          /\ parent' = [parent EXCEPT ![Agency(c)] = Whom(c)]
          /\ Goto(c, "role")
  /\ NoMoney /\ UNCHANGED <<banned, bans, profile, hosts, view, asks, crashes, calm>>

\* Mutant: an owner stays a host.
StayHost(c) ==
  /\ At(c, "role")
  /\ Done(c)
  /\ UNCHANGED <<vars, profile, hosts, view, asks, crashes, calm>>

BecomeAgency(c) ==
  /\ At(c, "role")
  /\ hosts' = hosts \ {Agency(c)}
  /\ Done(c)
  /\ UNCHANGED <<vars, profile, view, asks, crashes, calm>>

-----------------------------------------------------------------------------
(* Hosts *)

AddHostToAgency(c, a, h) ==
  /\ Begin(c)
  /\ IF a \in agencies \ banned THEN GoFor(c, "user", h, a) ELSE UNCHANGED job
  /\ UNCHANGED <<vars, profile, hosts, view, crashes, calm>>

\* Mutant: nobody looks whether the host has an agency.
IsHost(h) == h \in hosts
IsFree(h) == h \in hosts /\ profile[h] \in {None, NoProfile}

FindUser(c) ==
  /\ At(c, "user")
  /\ IF IsFree(Whom(c)) THEN GoFor(c, "write", Whom(c), Agency(c)) ELSE Done(c)
  /\ UNCHANGED <<vars, profile, hosts, view, asks, crashes, calm>>

JoinAgency(c, h, a) ==
  /\ Begin(c)
  /\ IF IsFree(h) THEN GoFor(c, "agency", h, a) ELSE UNCHANGED job
  /\ UNCHANGED <<vars, profile, hosts, view, crashes, calm>>

FindAgency(c) ==
  /\ At(c, "agency")
  /\ IF Agency(c) \in agencies \ banned THEN Goto(c, "write") ELSE Done(c)
  /\ UNCHANGED <<vars, profile, hosts, view, asks, crashes, calm>>

\* A profile that was missing is created, and there can be one only.
WriteAgency(c) ==
  /\ At(c, "write")
  /\ IF job[c].fresh /\ profile[Whom(c)] # NoProfile THEN UNCHANGED profile /\ Done(c)
     ELSE profile' = [profile EXCEPT ![Whom(c)] = Agency(c)] /\ Goto(c, "added")
  /\ UNCHANGED <<vars, hosts, view, asks, crashes, calm>>

EmitAdded(c) ==
  /\ At(c, "added")
  /\ view' = [view EXCEPT ![Agency(c)] = @ \cup {Whom(c)}]
  /\ Done(c)
  /\ UNCHANGED <<vars, profile, hosts, asks, crashes, calm>>

RemoveHostFromAgency(c, a, h) ==
  /\ Begin(c)
  /\ IF a \in agencies THEN GoFor(c, "profile", h, a) ELSE UNCHANGED job
  /\ UNCHANGED <<vars, profile, hosts, view, crashes, calm>>

FindProfile(c) ==
  /\ At(c, "profile")
  /\ IF profile[Whom(c)] = Agency(c) THEN Goto(c, "clear") ELSE Done(c)
  /\ UNCHANGED <<vars, profile, hosts, view, asks, crashes, calm>>

LeaveAgency(c, h) ==
  /\ Begin(c)
  /\ IF profile[h] \in Agencies THEN GoFor(c, "clear", h, profile[h]) ELSE UNCHANGED job
  /\ UNCHANGED <<vars, profile, hosts, view, crashes, calm>>

ClearAgency(c) ==
  /\ At(c, "clear")
  /\ profile' = [profile EXCEPT ![Whom(c)] = None]
  /\ Goto(c, "removed")
  /\ UNCHANGED <<vars, hosts, view, asks, crashes, calm>>

\* Mutant: the owner is not told.
EndRemoved(c) ==
  /\ At(c, "removed")
  /\ Done(c)
  /\ UNCHANGED <<vars, profile, hosts, view, asks, crashes, calm>>

EmitRemoved(c) ==
  /\ At(c, "removed")
  /\ view' = [view EXCEPT ![Agency(c)] = @ \ {Whom(c)}]
  /\ Done(c)
  /\ UNCHANGED <<vars, profile, hosts, asks, crashes, calm>>

\* The server is lost.
Lose(c) ==
  /\ ~At(c, "free") /\ ~calm
  /\ crashes < MaxCrashes /\ crashes' = crashes + 1
  /\ Done(c)
  /\ UNCHANGED <<vars, profile, hosts, view, asks, calm>>

-----------------------------------------------------------------------------

MemberNext ==
  /\ tx = None
  /\ \E c \in Calls :
       \/ \E a \in Agencies :
            \/ \E p \in agencies \cup {None} : CheckOwner(c, a, p)
            \/ \E h \in Hosts : \/ AddHostToAgency(c, a, h) \/ RemoveHostFromAgency(c, a, h)
                                \/ JoinAgency(c, h, a)
       \/ \E h \in Hosts : LeaveAgency(c, h)
       \/ FindParent(c) \/ InsertAgency(c) \/ BecomeAgency(c) \/ FindUser(c)
       \/ FindAgency(c) \/ WriteAgency(c) \/ EmitAdded(c)
       \/ FindProfile(c) \/ ClearAgency(c) \/ EmitRemoved(c) \/ Lose(c)

BanNext == (calm => Quiet) /\ \E a \in Agencies : SetAgencyBanStatus(a)
PayNext ==
  \E h \in Hosts, g \in Gifts, n \in Amounts :
    profile[h] \in Agencies /\ ProcessGiftCommission(g, profile[h], n)

Next ==
  \/ MemberNext
  \/ (BanNext \/ PayNext \/ MoneyNext) /\ UNCHANGED memberVars

Spec == Init /\ [][Next]_allVars

-----------------------------------------------------------------------------
(* Properties *)

\* With one call at a time a host enters an agency from none, and never one that
\* is banned: nobody is taken from one agency into another (agency.service.ts
\* 166-203, 278-303).
EntersFreely ==
  [][calm => \A h \in Hosts : profile'[h] \in Agencies /\ profile'[h] # profile[h] =>
       profile[h] \notin Agencies /\ profile'[h] \notin banned]_allVars

\* With one call at a time an owner has been told of just the hosts it has, when
\* no call is under way (210-213, 244-247, 307-310, 338-343).
OwnersSeeTheirHosts ==
  calm /\ Quiet => \A a \in Agencies : view[a] = {h \in Hosts : profile[h] = a}

\* With one call at a time nobody becomes a host of an agency of his own, and so
\* earns a commission on his own gifts: making one gives the role up (74-77,
\* 180-182, 270-272).
NobodyHostsForHimself == calm => \A h \in Hosts : profile[h] # h
=============================================================================
