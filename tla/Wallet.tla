------------------------------- MODULE Wallet -------------------------------
(***************************************************************************)
(* WalletService (src/src/modules/wallet/wallet.service.ts): concurrent     *)
(* requests that move coins and diamonds between wallet rows in PostgreSQL. *)
(*                                                                         *)
(* A request first looks its idempotency key up, outside any transaction,   *)
(* then runs one interactive transaction: it locks the rows it changes one  *)
(* after the other (SELECT ... FOR UPDATE, or the UPDATE itself), inserts   *)
(* its Transaction row, credits the agency commission and commits.  A       *)
(* transaction that fails is rolled back, and the failure is recorded by a  *)
(* separate write.  Nothing is retried by the server; a client that retries *)
(* is another request with the same key.                                    *)
(*                                                                         *)
(* What PostgreSQL contributes: a row lock is held until the transaction    *)
(* ends; a SERIALIZABLE transaction that wants a row another transaction    *)
(* changed and committed after its own snapshot is aborted (SQLSTATE        *)
(* 40001); one member of a cycle of waiting transactions is aborted; an     *)
(* insert of a unique key waits for an open transaction that inserted it    *)
(* and fails if that one commits.  The CHECK constraints of the manual      *)
(* migration are not used: the code alone has to keep balances legal.       *)
(***************************************************************************)
EXTENDS Money, Sequences, FiniteSets, Functions

CONSTANTS
  Requests,      \* the requests of a run; each makes one call
  None,          \* no request holds the lock
  Calls,         \* the calls clients make in this instance
  Upline,        \* [Users -> Seq([owner, percent])]: who earns on a host's income
  HasWallet,     \* users whose wallet row exists at the start
  OpeningBalance,\* [Users -> Balance]
  MaxFaults      \* bound on timeouts and lost servers in a run

ASSUME RequestsAssumption == None \notin Requests
ASSUME CallsAssumption == Calls \subseteq Call
ASSUME UplineAssumption ==
  Upline \in [Users -> Seq([owner: Users, percent: 1..100])]
ASSUME OpeningAssumption ==
  /\ HasWallet \subseteq Users
  /\ OpeningBalance \in [Users -> Balance]
ASSUME FaultsAssumption == MaxFaults \in Nat

-----------------------------------------------------------------------------
VARIABLES
  wallet,     \* committed balances
  rows,       \* users whose wallet row exists
  call,       \* what each request asks for; never changes
  pc,         \* where each request is
  lock,       \* the request whose open transaction holds a user's row
  delta,      \* what a transaction has added to each row; the posting once committed
  level,      \* next entry of Upline to be paid
  stale,      \* rows changed by others since the transaction's snapshot
  ledger,     \* requests whose COMPLETED Transaction row is committed
  failedLog,  \* FAILED rows: keys, and requests without a key
  faults      \* timeouts and lost servers so far

vars == <<wallet, rows, call, pc, lock, delta, level, stale, ledger,
          failedLog, faults>>

OpenStates  == {"user", "create", "receiver", "record", "commission", "owner"}
EndStates   == {"rejected", "replayed", "completed", "failed", "lost"}
States      == {"idle", "begin", "log"} \cup OpenStates \cup EndStates

InTx(r) == pc[r] \in OpenStates

-----------------------------------------------------------------------------
(* Commission *)

\* The commission of entry i of the payee's upline, and whether one is due.
Share(r, i) == (call[r].diamonds * Upline[call[r].to][i].percent) \div 100
\* Mutant: promo payments earn commission.
CommissionDueOnPromo(r) ==
  /\ call[r].type = "CHAT_PAYMENT"
  /\ level[r] <= Len(Upline[call[r].to]) /\ Share(r, level[r]) > 0

CommissionDue(r) ==
  /\ call[r].type = "CHAT_PAYMENT" /\ ~call[r].promo
  /\ level[r] <= Len(Upline[call[r].to])
  /\ Share(r, level[r]) > 0
Owner(r) == Upline[call[r].to][level[r]].owner

-----------------------------------------------------------------------------
(* Rows, keys and waiting *)

SameKey(r, q) == call[r].key # NoKey /\ call[r].key = call[q].key
KeyPosted(r)  == \E q \in ledger : SameKey(r, q)

\* The transaction has inserted its Transaction row and credits commissions.
Inserted(r) == pc[r] \in {"commission", "owner"}

\* The row the next statement of an open transaction needs.
Wants(r) == CASE pc[r] \in {"user", "create"} -> call[r].user
              [] pc[r] = "receiver"            -> call[r].to
              [] OTHER                         -> Owner(r)
WantsRow(r) == \/ pc[r] \in {"user", "create", "receiver"}
               \/ Inserted(r) /\ CommissionDue(r)
\* Mutant: plain SELECT instead of SELECT ... FOR UPDATE.
AvailableWithoutLock(r, u) == TRUE
Available(r, u) == lock[u] \in {None, r}

\* A SELECT neither sees nor awaits a row that another transaction is making;
\* a create waits for it.
Visible(r, u) == u \in rows \/ lock[u] = r
Creating(r) == pc[r] \in {"create", "owner"}
Waiting(r) == /\ WantsRow(r) /\ ~Available(r, Wants(r))
              /\ Creating(r) \/ Visible(r, Wants(r))

\* Open transactions that have inserted r's key.
KeyHolders(r) == {q \in Requests \ {r} : Inserted(q) /\ SameKey(r, q)}

WaitsFor(r) == CASE Waiting(r) -> {lock[Wants(r)]}
                 [] pc[r] = "record" -> KeyHolders(r)
                 [] OTHER -> {}

\* r lies on a cycle of waiting transactions.
Deadlocked(r) ==
  \E S \in SUBSET Requests :
    /\ r \in S
    /\ \A q \in S : WaitsFor(q) # {}
    /\ UNION {WaitsFor(q) : q \in S} = S

\* A row is created only where there is none: the unique index refuses the
\* second of two that found none.
MayUse(r, u) == /\ Serializable(call[r]) => u \notin stale[r]
                /\ IF Creating(r) THEN u \notin rows ELSE Visible(r, u)

-----------------------------------------------------------------------------
(* Actions *)

Init ==
  /\ wallet = OpeningBalance
  /\ rows = HasWallet
  /\ call \in [Requests -> Calls]
  /\ pc = [r \in Requests |-> "idle"]
  /\ lock = [u \in Users |-> None]
  /\ delta = [r \in Requests |-> NoChange]
  /\ level = [r \in Requests |-> 1]
  /\ stale = [r \in Requests |-> {}]
  /\ ledger = {}
  /\ failedLog = {}
  /\ faults = 0

Goto(r, s) == pc' = [pc EXCEPT ![r] = s]

\* Outcomes decided before any transaction is opened.
Reject(r) ==
  /\ pc[r] = "idle"
  /\ \/ ~Valid(call[r])
     \/ ~KeyPosted(r) /\ ~Convertible(call[r])
  /\ Goto(r, "rejected")
  /\ UNCHANGED <<wallet, rows, call, lock, delta, level, stale, ledger,
                 failedLog, faults>>

Replay(r) ==
  /\ pc[r] = "idle" /\ Valid(call[r]) /\ KeyPosted(r)
  /\ Goto(r, "replayed")
  /\ UNCHANGED <<wallet, rows, call, lock, delta, level, stale, ledger,
                 failedLog, faults>>

Admit(r) ==
  /\ pc[r] = "idle" /\ Valid(call[r]) /\ ~KeyPosted(r) /\ Convertible(call[r])
  /\ Goto(r, "begin")
  /\ UNCHANGED <<wallet, rows, call, lock, delta, level, stale, ledger,
                 failedLog, faults>>

\* The first statement takes the snapshot, then waits for its row;
\* ensureWalletInTx finds the row or is going to create it.
Begin(r) ==
  /\ pc[r] = "begin"
  /\ Goto(r, IF CreatesWallet(call[r]) /\ call[r].user \notin rows
             THEN "create" ELSE "user")
  /\ UNCHANGED <<wallet, rows, call, lock, delta, level, stale, ledger,
                 failedLog, faults>>

\* Lock a row and add d to it inside the transaction.
Touch(r, u, d) ==
  /\ lock' = [lock EXCEPT ![u] = r]
  /\ delta' = [delta EXCEPT ![r][u] = Plus(@, d)]

LockUser(r) ==
  LET c == call[r] IN
  /\ pc[r] \in {"user", "create"}
  /\ Available(r, c.user) /\ MayUse(r, c.user) /\ Affordable(c, wallet[c.user])
  /\ Touch(r, c.user, UserChange(c, wallet[c.user]))
  /\ Goto(r, IF c.type = "CHAT_PAYMENT" THEN "receiver" ELSE "record")
  /\ UNCHANGED <<wallet, rows, call, level, stale, ledger, failedLog, faults>>

LockReceiver(r) ==
  LET c == call[r] IN
  /\ pc[r] = "receiver"
  /\ Available(r, c.to) /\ MayUse(r, c.to)
  /\ Touch(r, c.to, ReceiverChange(c))
  /\ Goto(r, "record")
  /\ UNCHANGED <<wallet, rows, call, level, stale, ledger, failedLog, faults>>

\* Mutant: no unique index on idempotencyKey.
CreateTransactionNoIndex(r) ==
  /\ pc[r] = "record"
  /\ Goto(r, "commission")
  /\ UNCHANGED <<wallet, rows, call, lock, delta, level, stale, ledger,
                 failedLog, faults>>

\* transaction.create: the unique index admits one open or committed row per key.
CreateTransaction(r) ==
  /\ pc[r] = "record"
  /\ KeyHolders(r) = {} /\ ~KeyPosted(r)
  /\ Goto(r, "commission")
  /\ UNCHANGED <<wallet, rows, call, lock, delta, level, stale, ledger,
                 failedLog, faults>>

\* The agency owner has no wallet row yet.
MissOwner(r) ==
  /\ pc[r] = "commission" /\ CommissionDue(r) /\ ~Visible(r, Owner(r))
  /\ Goto(r, "owner")
  /\ UNCHANGED <<wallet, rows, call, lock, delta, level, stale, ledger,
                 failedLog, faults>>

CreditCommission(r) ==
  /\ Inserted(r) /\ CommissionDue(r)
  /\ Available(r, Owner(r)) /\ MayUse(r, Owner(r))
  /\ Touch(r, Owner(r), Of("diamonds", Share(r, level[r])))
  /\ level' = [level EXCEPT ![r] = @ + 1]
  /\ Goto(r, "commission")
  /\ UNCHANGED <<wallet, rows, call, stale, ledger, failedLog, faults>>

Held(r) == {u \in Users : lock[u] = r}
Unlocked(r) == [u \in Users |-> IF lock[u] = r THEN None ELSE lock[u]]

Commit(r) ==
  /\ pc[r] = "commission" /\ ~CommissionDue(r)
  /\ wallet' = [u \in Users |-> Plus(wallet[u], delta[r][u])]
  /\ rows' = rows \cup Held(r)
  /\ ledger' = ledger \cup {r}
  /\ lock' = Unlocked(r)
  /\ stale' = [q \in Requests |->
                 IF InTx(q) /\ q # r THEN stale[q] \cup Held(r) ELSE {}]
  /\ level' = [level EXCEPT ![r] = 1]
  /\ Goto(r, "completed")
  /\ UNCHANGED <<call, delta, failedLog, faults>>

\* Mutants: an error path that does not end the transaction; writes made
\* outside the transaction, which a rollback cannot take back.
RollbackKeepsLocks(r) ==
  /\ delta' = [delta EXCEPT ![r] = NoChange]
  /\ stale' = [stale EXCEPT ![r] = {}]
  /\ level' = [level EXCEPT ![r] = 1]
  /\ UNCHANGED <<wallet, rows, call, ledger, failedLog, lock>>
RollbackKeepsWrites(r) ==
  /\ lock' = Unlocked(r)
  /\ wallet' = [u \in Users |-> Plus(wallet[u], delta[r][u])]
  /\ delta' = [delta EXCEPT ![r] = NoChange]
  /\ stale' = [stale EXCEPT ![r] = {}]
  /\ level' = [level EXCEPT ![r] = 1]
  /\ UNCHANGED <<rows, call, ledger, failedLog>>

\* PostgreSQL forgets everything the transaction did.
Rollback(r) ==
  /\ lock' = Unlocked(r)
  /\ delta' = [delta EXCEPT ![r] = NoChange]
  /\ stale' = [stale EXCEPT ![r] = {}]
  /\ level' = [level EXCEPT ![r] = 1]
  /\ UNCHANGED <<wallet, rows, call, ledger, failedLog>>

Abort(r) == Rollback(r) /\ Goto(r, IF LogsFailure(call[r]) THEN "log" ELSE "failed")

\* The code or the database turns the transaction down: no row, a row changed
\* since the snapshot, a row made meanwhile, too little money, a key already used.
Refused(r) ==
  \/ pc[r] \in {"user", "receiver"} /\ ~Visible(r, Wants(r))
  \/ /\ WantsRow(r) /\ Available(r, Wants(r))
     /\ \/ Serializable(call[r]) /\ Wants(r) \in stale[r]
        \/ Creating(r) /\ Wants(r) \in rows
        \/ pc[r] = "user" /\ ~Affordable(call[r], wallet[call[r].user])
  \/ pc[r] = "record" /\ KeyPosted(r)

Refuse(r) == InTx(r) /\ Refused(r) /\ Abort(r) /\ UNCHANGED faults

BreakDeadlock(r) == InTx(r) /\ Deadlocked(r) /\ Abort(r) /\ UNCHANGED faults

\* maxWait or timeout of $transaction, or an error of the database at any statement.
Timeout(r) ==
  /\ pc[r] = "begin" \/ InTx(r)
  /\ faults < MaxFaults /\ faults' = faults + 1
  /\ Abort(r)

\* logFailedTransaction: a FAILED row of its own, keyed FAILED:<key>; a second
\* row of the same key is refused by the unique index and only logged.
LogFailedTransaction(r) ==
  /\ pc[r] = "log"
  /\ failedLog' = failedLog \cup {IF call[r].key = NoKey THEN r ELSE call[r].key}
  /\ Goto(r, "failed")
  /\ UNCHANGED <<wallet, rows, call, lock, delta, level, stale, ledger,
                 faults>>

\* The server process dies: the connection closes, the client hears nothing.
Crash(r) ==
  /\ pc[r] \in {"begin", "log"} \cup OpenStates
  /\ faults < MaxFaults /\ faults' = faults + 1
  /\ Rollback(r)
  /\ Goto(r, "lost")

Ended == \A r \in Requests : pc[r] \in EndStates
Quiescent == Ended /\ UNCHANGED vars

Step(r) == \/ Reject(r) \/ Replay(r) \/ Admit(r) \/ Begin(r)
           \/ LockUser(r) \/ LockReceiver(r) \/ CreateTransaction(r)
           \/ MissOwner(r) \/ CreditCommission(r) \/ Commit(r)
           \/ Refuse(r) \/ BreakDeadlock(r) \/ LogFailedTransaction(r)

Next == \/ \E r \in Requests : Step(r) \/ Timeout(r) \/ Crash(r)
        \/ Quiescent

Spec == Init /\ [][Next]_vars

\* The event loop runs every ready continuation, PostgreSQL grants a lock
\* that is free and breaks deadlocks; faults are not fair.
FairSpec == Spec /\ \A r \in Requests : WF_vars(Step(r))

-----------------------------------------------------------------------------
(* Properties *)

\* Every variable has its type.
TypeOK ==
  /\ wallet \in [Users -> Change]
  /\ rows \in SUBSET Users
  /\ call \in [Requests -> Calls]
  /\ pc \in [Requests -> States]
  /\ lock \in [Users -> Requests \cup {None}]
  /\ delta \in [Requests -> [Users -> Change]]
  /\ level \in [Requests -> Nat \ {0}]
  /\ stale \in [Requests -> SUBSET Users]
  /\ ledger \in SUBSET Requests
  /\ failedLog \in SUBSET (Keys \cup Requests)
  /\ faults \in 0..MaxFaults

\* No balance is ever negative, whatever payments, conversions and withdrawals
\* run against the same row: the balance checked under the row lock is still
\* there when the deduction commits (wallet.service.ts 258-315, 467-508).
NoOverdraft == \A u \in Users, f \in Fields : wallet[u][f] >= 0

\* At most one request of an idempotency key ever takes effect, although the
\* guard reads outside the transaction (wallet.service.ts 243-249, 351-369).
ExactlyOnce == \A r, q \in ledger : SameKey(r, q) => r = q

\* The wallets are exactly the opening balances plus the committed postings:
\* no update is lost or applied twice, and a posting is applied to every row
\* it names or to none (wallet.service.ts 255-402; wallet-concurrency.test.ts
\* 94-110 checks it on one schedule).
Posted(u, f) == SumFunctionOnSet([r \in ledger |-> delta[r][u][f]], ledger)
LedgerExplainsBalances ==
  \A u \in Users, f \in Fields : wallet[u][f] = OpeningBalance[u][f] + Posted(u, f)

\* Every behaviour of the concurrent service is one of the Bank: a request
\* takes effect in a single step, the commit, or not at all.
TheBank == INSTANCE Bank WITH
  balance <- wallet, asked <- call, postings <- [r \in ledger |-> delta[r]]
ImplementsBank == TheBank!BankSpec
=============================================================================
