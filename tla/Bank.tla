-------------------------------- MODULE Bank --------------------------------
(***************************************************************************)
(* What WalletService promises its callers: every call that takes effect    *)
(* does so in one step, at most once per idempotency key, and only if its   *)
(* user can afford it.  There are no transactions, locks or failures here;  *)
(* a call that fails simply never posts.                                    *)
(***************************************************************************)
EXTENDS Money

CONSTANTS Requests, Calls, OpeningBalance

VARIABLES
  balance,   \* what every user owns
  asked,     \* what each request asks for
  postings   \* the effect of every request that took effect

bvars == <<balance, asked, postings>>

DuplicatePosted(r) ==
  \E q \in DOMAIN postings : asked[r].key # NoKey /\ asked[q].key = asked[r].key

\* d is the base effect of the call plus commission, which is paid in diamonds
\* and for ordinary payments only.
Effect(c, w, d) ==
  \A u \in Users :
    /\ \A f \in Fields \ {"diamonds"} : d[u][f] = BaseChange(c, w, u)[f]
    /\ d[u].diamonds >= BaseChange(c, w, u).diamonds
    /\ c.type # "CHAT_PAYMENT" \/ c.promo =>
         d[u].diamonds = BaseChange(c, w, u).diamonds

BankInit ==
  /\ balance = OpeningBalance
  /\ asked \in [Requests -> Calls]
  /\ postings = [r \in {} |-> NoChange]

\* Request r takes effect: its money moves and its posting is kept for good.
Post(r) ==
  LET c == asked[r] IN
  /\ r \notin DOMAIN postings /\ ~DuplicatePosted(r)
  /\ Valid(c) /\ Affordable(c, balance[c.user])
  /\ DOMAIN postings' = DOMAIN postings \cup {r}
  /\ \A q \in DOMAIN postings : postings'[q] = postings[q]
  /\ Effect(c, balance[c.user], postings'[r])
  /\ balance' = [u \in Users |-> Plus(balance[u], postings'[r][u])]
  /\ UNCHANGED asked

BankNext == \E r \in Requests : Post(r)

BankSpec == BankInit /\ [][BankNext]_bvars
=============================================================================
