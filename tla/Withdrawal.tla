----------------------------- MODULE Withdrawal -----------------------------
(***************************************************************************)
(* WithdrawalService (src/src/modules/withdrawal/withdrawal.service.ts):    *)
(* hosts ask for their diamonds to be paid out, admins approve or reject.   *)
(* The diamonds leave the wallet when the request is made and come back     *)
(* when it is rejected.  Each service method is a chain of separate         *)
(* database calls, and other calls run between them.                        *)
(*                                                                         *)
(* The two wallet methods it calls are single steps here: WalletProofs      *)
(* proves that a wallet call takes effect in one step or not at all.        *)
(***************************************************************************)
EXTENDS Integers, FiniteSets

CONSTANTS
  Hosts,
  Attempts,        \* calls of createWithdrawalRequest; each makes one row at most
  Decisions,       \* calls of approveWithdrawal and rejectWithdrawal
  Nobody,          \* no attempt
  MinWithdrawal,   \* MIN_WITHDRAWAL_DIAMONDS
  Amounts,         \* amounts asked for
  Opening,         \* [Hosts -> Nat]: diamonds at the start
  AdminsInFlight,  \* bound on decisions being made at the same time
  ClockMayStall,   \* may two attempts of a host read the same millisecond
  MaxFaults        \* bound on failed calls and lost servers

ASSUME NobodyAssumption == Nobody \notin Attempts
ASSUME AmountsAssumption == Amounts \subseteq Nat /\ MinWithdrawal \in Nat \ {0}
ASSUME OpeningAssumption == Opening \in [Hosts -> Nat]
ASSUME DecisionsAssumption == IsFiniteSet(Decisions)
ASSUME BoundsAssumption ==
  AdminsInFlight \in Nat \ {0} /\ ClockMayStall \in BOOLEAN /\ MaxFaults \in Nat

VARIABLES
  diamonds,   \* wallets.diamonds of every host
  asked,      \* the host and the amount of each attempt
  at,         \* where each attempt is
  key,        \* the idempotency key of an attempt, or Nobody; a millisecond of
              \* a host is named by the first attempt that read it
  deducted,   \* attempts whose WITHDRAWAL transaction is committed
  status,     \* the row of each attempt
  refunds,    \* REVERSED transactions for each row
  decision,   \* where each decision is, what it decides, on which row
  faults,
  calm        \* admins take turns, the clock moves on, nothing fails; is constant

vars == <<diamonds, asked, at, key, deducted, status, refunds, decision, faults,
          calm>>

AttemptStates == {"idle", "guard", "deduct", "create", "done", "failed"}
Statuses == {"none", "PENDING", "APPROVED", "REJECTED"}
DecisionStates == {"idle", "refund", "update", "done", "failed"}
NoDecision == [at |-> "idle", to |-> "none", row |-> Nobody]

Host(a)   == asked[a].host
Amount(a) == asked[a].amount

Init ==
  /\ diamonds = Opening
  /\ asked \in [Attempts -> [host: Hosts, amount: Amounts]]
  /\ at = [a \in Attempts |-> "idle"]
  /\ key = [a \in Attempts |-> Nobody]
  /\ deducted = {}
  /\ status = [a \in Attempts |-> "none"]
  /\ refunds = [a \in Attempts |-> 0]
  /\ decision = [d \in Decisions |-> NoDecision]
  /\ faults = 0
  /\ calm \in BOOLEAN

-----------------------------------------------------------------------------
(* createWithdrawalRequest *)

AttemptAt(a, s) == at' = [at EXCEPT ![a] = s]

\* Too little is asked for, or nothing.
RefuseAmount(a) ==
  /\ at[a] = "idle" /\ Amount(a) < MinWithdrawal
  /\ AttemptAt(a, "failed")
  /\ UNCHANGED <<diamonds, asked, key, deducted, status, refunds, decision,
                 faults, calm>>

\* The key is the host and Date.now().
ReadClock(a) ==
  /\ at[a] = "idle" /\ Amount(a) >= MinWithdrawal
  /\ \E k \in {a} \cup {key[b] : b \in {b \in Attempts : Host(b) = Host(a)}} :
       /\ k # Nobody /\ (k = a \/ (ClockMayStall /\ ~calm))
       /\ key' = [key EXCEPT ![a] = k]
  /\ AttemptAt(a, "guard")
  /\ UNCHANGED <<diamonds, asked, deducted, status, refunds, decision, faults,
                 calm>>

KeyUsed(a) == \E b \in deducted : key[b] = key[a]

\* checkIdempotency: a used key skips the deduction, and the caller goes on.
Guard(a) ==
  /\ at[a] = "guard"
  /\ AttemptAt(a, IF KeyUsed(a) THEN "create" ELSE "deduct")
  /\ UNCHANGED <<diamonds, asked, key, deducted, status, refunds, decision,
                 faults, calm>>

Deduct(a) ==
  /\ at[a] = "deduct"
  /\ diamonds[Host(a)] >= Amount(a) /\ ~KeyUsed(a)
  /\ diamonds' = [diamonds EXCEPT ![Host(a)] = @ - Amount(a)]
  /\ deducted' = deducted \cup {a}
  /\ AttemptAt(a, "create")
  /\ UNCHANGED <<asked, key, status, refunds, decision, faults, calm>>

\* Too few diamonds, or the unique index of the key refuses the transaction.
RefuseDeduct(a) ==
  /\ at[a] = "deduct"
  /\ diamonds[Host(a)] < Amount(a) \/ KeyUsed(a)
  /\ AttemptAt(a, "failed")
  /\ UNCHANGED <<diamonds, asked, key, deducted, status, refunds, decision,
                 faults, calm>>

\* Mutant: the row is made before the deduction is known to have worked.
CreateFirst(a) ==
  /\ at[a] \in {"deduct", "create"}
  /\ status' = [status EXCEPT ![a] = "PENDING"]
  /\ AttemptAt(a, "done")
  /\ UNCHANGED <<diamonds, asked, key, deducted, refunds, decision, faults,
                 calm>>

CreateRow(a) ==
  /\ at[a] = "create"
  /\ status' = [status EXCEPT ![a] = "PENDING"]
  /\ AttemptAt(a, "done")
  /\ UNCHANGED <<diamonds, asked, key, deducted, refunds, decision, faults,
                 calm>>

-----------------------------------------------------------------------------
(* approveWithdrawal, rejectWithdrawal *)

InFlight == {d \in Decisions : decision[d].at \in {"refund", "update"}}
AtOnce == IF calm THEN 1 ELSE AdminsInFlight
AdminFree == Cardinality(InFlight) < AtOnce
DecisionAt(d, s) == decision' = [decision EXCEPT ![d].at = s]

\* Mutant: the status read is not looked at.
ReadAnyRow(d) ==
  /\ decision[d].at = "idle" /\ AdminFree
  /\ \E a \in Attempts, to \in {"APPROVED", "REJECTED"} :
       /\ status[a] # "none"
       /\ decision' = [decision EXCEPT ![d] =
            [at |-> IF to = "REJECTED" THEN "refund" ELSE "update", to |-> to, row |-> a]]
  /\ UNCHANGED <<diamonds, asked, at, key, deducted, status, refunds, faults,
                 calm>>

\* Mutant: a rejection goes straight to the status update.
ReadRowNoRefund(d) ==
  /\ decision[d].at = "idle" /\ AdminFree
  /\ \E a \in Attempts, to \in {"APPROVED", "REJECTED"} :
       /\ status[a] = "PENDING"
       /\ decision' = [decision EXCEPT ![d] = [at |-> "update", to |-> to, row |-> a]]
  /\ UNCHANGED <<diamonds, asked, at, key, deducted, status, refunds, faults,
                 calm>>

\* The row is read and has to be PENDING; anything else is an error.
ReadRow(d) ==
  /\ decision[d].at = "idle" /\ AdminFree
  /\ \E a \in Attempts, to \in {"APPROVED", "REJECTED"} :
       /\ status[a] # "none"
       /\ decision' = [decision EXCEPT ![d] =
            [at  |-> IF status[a] # "PENDING" THEN "failed"
                     ELSE IF to = "REJECTED" THEN "refund" ELSE "update",
             to  |-> to,
             row |-> a]]
  /\ UNCHANGED <<diamonds, asked, at, key, deducted, status, refunds, faults,
                 calm>>

\* refundWithdrawalDiamonds carries no idempotency key.
RefundDiamonds(d) ==
  LET a == decision[d].row IN
  /\ decision[d].at = "refund"
  /\ diamonds' = [diamonds EXCEPT ![Host(a)] = @ + Amount(a)]
  /\ refunds' = [refunds EXCEPT ![a] = @ + 1]
  /\ DecisionAt(d, "update")
  /\ UNCHANGED <<asked, at, key, deducted, status, faults, calm>>

\* The update names the row by its id alone.
UpdateStatus(d) ==
  /\ decision[d].at = "update"
  /\ status' = [status EXCEPT ![decision[d].row] = decision[d].to]
  /\ DecisionAt(d, "done")
  /\ UNCHANGED <<diamonds, asked, at, key, deducted, refunds, faults, calm>>

-----------------------------------------------------------------------------
\* A database call fails or the server dies: the method stops where it is.
Fail(a) ==
  /\ at[a] \in {"guard", "deduct", "create"}
  /\ ~calm /\ faults < MaxFaults /\ faults' = faults + 1
  /\ AttemptAt(a, "failed")
  /\ UNCHANGED <<diamonds, asked, key, deducted, status, refunds, decision,
                 calm>>

FailDecision(d) ==
  /\ decision[d].at \in {"refund", "update"}
  /\ ~calm /\ faults < MaxFaults /\ faults' = faults + 1
  /\ DecisionAt(d, "failed")
  /\ UNCHANGED <<diamonds, asked, at, key, deducted, status, refunds, calm>>

Ended == /\ \A a \in Attempts : at[a] \in {"done", "failed"}
         /\ \A d \in Decisions : decision[d].at \in {"idle", "done", "failed"}
Quiescent == Ended /\ UNCHANGED vars

AttemptStep(a) == \/ RefuseAmount(a) \/ ReadClock(a) \/ Guard(a)
                  \/ Deduct(a) \/ RefuseDeduct(a) \/ CreateRow(a)
DecisionStep(d) == ReadRow(d) \/ RefundDiamonds(d) \/ UpdateStatus(d)

Next == \/ \E a \in Attempts : AttemptStep(a) \/ Fail(a)
        \/ \E d \in Decisions : DecisionStep(d) \/ FailDecision(d)
        \/ Quiescent

Spec == Init /\ [][Next]_vars

-----------------------------------------------------------------------------
(* Properties *)

\* Every variable has its type.
TypeOK ==
  /\ diamonds \in [Hosts -> Int]
  /\ asked \in [Attempts -> [host: Hosts, amount: Amounts]]
  /\ at \in [Attempts -> AttemptStates]
  /\ key \in [Attempts -> Attempts \cup {Nobody}]
  /\ deducted \in SUBSET Attempts
  /\ status \in [Attempts -> Statuses]
  /\ refunds \in [Attempts -> Nat]
  /\ decision \in [Decisions -> [at: DecisionStates, to: Statuses,
                                 row: Attempts \cup {Nobody}]]
  /\ faults \in 0..MaxFaults /\ calm \in BOOLEAN

Rejecting(a) == \E d \in InFlight : decision[d].row = a /\ decision[d].to = "REJECTED"

\* A row is paid out and refunded at most once for each decision under way at
\* the same time, and once more for each that is cut off: what is read as
\* PENDING and written later is wrong by no more than that, however the steps
\* of the admins fall (withdrawal.service.ts 148-216).
SettlementsBounded ==
  \A a \in Attempts :
    refunds[a] + (IF status[a] = "APPROVED" THEN 1 ELSE 0) <= AtOnce + faults

\* A row shown as REJECTED has its diamonds back: no order of two admins'
\* steps and no lost server shows the rejection first (withdrawal.service.ts
\* 201-216).
RejectedMeansRefunded ==
  \A a \in Attempts : status[a] = "REJECTED" => refunds[a] >= 1

\* While a row waits for an admin its diamonds are out of the wallet, once, and
\* have not come back (withdrawal.service.ts 27-28).
LockedWhilePending == calm =>
  \A a \in Attempts : status[a] = "PENDING" /\ ~Rejecting(a) =>
    a \in deducted /\ refunds[a] = 0

\* Diamonds that left a wallet are returned or paid out, not both, and not
\* twice (withdrawal.service.ts 148-216).
SettledOnce == calm =>
  \A a \in Attempts :
    refunds[a] + (IF status[a] = "APPROVED" THEN 1 ELSE 0)
      <= (IF a \in deducted THEN 1 ELSE 0)
=============================================================================
