------------------------------- MODULE Session -------------------------------
(***************************************************************************)
(* Refresh tokens (TokenService, src/src/modules/auth/services/             *)
(* token.service.ts).  A sign-in issues a token with a Session row; a       *)
(* rotation finds the row of the token it is given, deletes it and issues   *)
(* the next token, in three database calls; a logout deletes the row.       *)
(* A sign-in and the rotations that follow from it are a chain, named by    *)
(* its first token.                                                         *)
(*                                                                         *)
(* cleanupExpiredSessions and revokeAllSessions have no caller.             *)
(***************************************************************************)
EXTENDS Clients

CONSTANT Tokens   \* refresh tokens

ASSUME SessionAssumption == Nobody \notin Tokens

VARIABLES
  sessions,   \* tokens that have a Session row
  holder,     \* whom each token was issued to
  chain,      \* the first token of the chain a token belongs to
  expired,    \* tokens past their expiresAt
  ended,      \* chains whose live token was given to a logout
  closed      \* deleted users

sessionVars == <<sessions, holder, chain, expired, ended>>

\* What a request does, for whom, and with which token.
Idle == [op |-> "none", at |-> "idle", who |-> Nobody, token |-> Nobody]
Issued == {t \in Tokens : holder[t] # Nobody}
End(c) == call' = [call EXCEPT ![c] = Idle]

SessionInit ==
  /\ sessions = {} /\ expired = {} /\ ended = {} /\ closed = {}
  /\ holder = [t \in Tokens |-> Nobody]
  /\ chain  = [t \in Tokens |-> Nobody]
  /\ call = [c \in Calls |-> Idle]
  /\ asks = 0 /\ faults = 0 /\ calm \in BOOLEAN

-----------------------------------------------------------------------------

\* rotateRefreshToken: the row of the token, with its user.
FindSession(c, t) ==
  /\ At(c, "idle") /\ Ask
  /\ IF t \notin sessions \/ (t \notin expired /\ holder[t] \in closed)
     THEN UNCHANGED call
     ELSE call' = [call EXCEPT ![c] =
            [op |-> "rotate", at |-> IF t \in expired THEN "drop" ELSE "delete",
             who |-> holder[t], token |-> t]]
  /\ UNCHANGED <<sessions, holder, chain, expired, ended, closed, faults, calm>>

\* The row of an expired token is deleted; one that is gone is an error too.
DropExpired(c) ==
  /\ At(c, "drop")
  /\ sessions' = sessions \ {call[c].token}
  /\ End(c)
  /\ UNCHANGED <<holder, chain, expired, ended, closed, asks, faults, calm>>

\* Mutant: deleteMany, which does not mind that the row is gone.
DeleteAnySession(c) ==
  /\ At(c, "delete")
  /\ sessions' = sessions \ {call[c].token}
  /\ Goto(c, "issue")
  /\ UNCHANGED <<holder, chain, expired, ended, closed, asks, faults, calm>>

\* The delete is by id and fails when somebody else has deleted the row.
DeleteSession(c) ==
  /\ At(c, "delete")
  /\ sessions' = sessions \ {call[c].token}
  /\ IF call[c].token \in sessions THEN Goto(c, "issue") ELSE End(c)
  /\ UNCHANGED <<holder, chain, expired, ended, closed, asks, faults, calm>>

ChainOf(c, t) == IF call[c].op = "rotate" THEN chain[call[c].token] ELSE t

\* issueTokens, at the end of a rotation and of every sign-in.
IssueTokens(c) ==
  \E t \in Tokens \ Issued :
    /\ At(c, "issue")
    /\ sessions' = sessions \cup {t}
    /\ holder' = [holder EXCEPT ![t] = call[c].who]
    /\ chain'  = [chain EXCEPT ![t] = ChainOf(c, t)]
    /\ End(c)
    /\ UNCHANGED <<expired, ended, closed, asks, faults, calm>>

\* revokeSession: deleteMany, one call.
RevokeSession(t) ==
  /\ t \in Issued /\ Ask
  /\ sessions' = sessions \ {t}
  /\ ended' = IF t \in sessions THEN ended \cup {chain[t]} ELSE ended
  /\ UNCHANGED <<holder, chain, expired, closed, call, faults, calm>>

ExpireToken(t) ==
  /\ t \in Issued \ expired /\ Ask
  /\ expired' = expired \cup {t}
  /\ UNCHANGED <<sessions, holder, chain, ended, closed, call, faults, calm>>

\* UsersService.softDelete: the sessions stay.
SoftDelete(a) ==
  /\ Ask /\ closed' = closed \cup {a}
  /\ UNCHANGED <<sessions, holder, chain, expired, ended, call, faults, calm>>

\* The server or its database connection is lost: the request ends where it is.
Lose(c) ==
  /\ ~At(c, "idle")
  /\ faults < MaxFaults /\ faults' = faults + 1
  /\ End(c)
  /\ UNCHANGED <<sessions, holder, chain, expired, ended, closed, asks, calm>>

SessionNext ==
  \/ \E c \in Calls : \/ \E t \in Issued : FindSession(c, t)
                      \/ DropExpired(c) \/ DeleteSession(c) \/ IssueTokens(c) \/ Lose(c)
  \/ \E t \in Tokens : RevokeSession(t) \/ ExpireToken(t)

-----------------------------------------------------------------------------

\* A chain never has two tokens that work: a rotation that overlaps another one
\* of the same token, a retry of it or a logout comes away with nothing, because
\* the delete by id fails (token.service.ts 105).
OneLiveToken ==
  \A t, u \in sessions : chain[t] = chain[u] => t = u

\* A logout with the token that works ends the chain for good: no rotation that
\* had already found the row brings it back (105, 128-131).
LogoutEndsChain == \A t \in sessions : chain[t] \notin ended
=============================================================================
