-------------------------- MODULE WithdrawalProofs --------------------------
(***************************************************************************)
(* For every set of hosts, attempts and decisions: Withdrawal keeps its     *)
(* types, shows no row as REJECTED before its refund and settles no row     *)
(* more often than decisions overlap or are cut off; and when admins take   *)
(* turns and nothing fails, diamonds are locked while a row waits and are   *)
(* settled once.  Safe and Settling are inductive whatever happens, Careful *)
(* on top of them says what is true of a calm behaviour.                    *)
(***************************************************************************)
EXTENDS Withdrawal, FiniteSetTheorems, TLAPS

\* A decision under way names a row and says what becomes of it.
DecisionInv ==
  \A d \in InFlight :
    /\ decision[d].row \in Attempts
    /\ decision[d].to \in {"APPROVED", "REJECTED"}
    /\ decision[d].at = "refund" => decision[d].to = "REJECTED"

\* A rejection that is about to be written has paid the refund.
RefundedBefore ==
  \A d \in Decisions :
    decision[d].at = "update" /\ decision[d].to = "REJECTED" =>
      refunds[decision[d].row] >= 1

Safe == TypeOK /\ DecisionInv /\ RefundedBefore /\ RejectedMeansRefunded

-----------------------------------------------------------------------------
LEMMA AskedFact ==
  ASSUME TypeOK, NEW a \in Attempts
  PROVE  Host(a) \in Hosts /\ Amount(a) \in Nat
BY AmountsAssumption DEF TypeOK, Host, Amount

LEMMA InitSafe ==
  ASSUME Init
  PROVE  Safe
<1>1. TypeOK
  BY OpeningAssumption, BoundsAssumption
     DEF Init, TypeOK, NoDecision, AttemptStates, Statuses, DecisionStates
<1>2. DecisionInv /\ RefundedBefore
  BY DEF Init, DecisionInv, RefundedBefore, InFlight, NoDecision
<1>3. RejectedMeansRefunded
  BY DEF Init, RejectedMeansRefunded
<1> QED BY <1>1, <1>2, <1>3 DEF Safe

\* Steps that change nothing but where an attempt is, or its key.
LEMMA QuietSafe ==
  ASSUME Safe, UNCHANGED <<diamonds, asked, deducted, status, refunds, decision, calm>>,
         at' \in [Attempts -> AttemptStates],
         key' \in [Attempts -> Attempts \cup {Nobody}], faults' \in 0..MaxFaults
  PROVE  Safe'
<1>1. TypeOK'
  BY DEF Safe, TypeOK
<1>2. DecisionInv' /\ RefundedBefore'
  BY DEF Safe, DecisionInv, RefundedBefore, InFlight
<1>3. RejectedMeansRefunded'
  BY DEF Safe, RejectedMeansRefunded
<1> QED BY <1>1, <1>2, <1>3 DEF Safe

LEMMA DeductSafe ==
  ASSUME Safe, NEW a \in Attempts, Deduct(a)
  PROVE  Safe'
<1>1. /\ Host(a) \in Hosts /\ Amount(a) \in Nat /\ diamonds[Host(a)] \in Int
  BY AskedFact DEF Safe, TypeOK
<1>2. diamonds' \in [Hosts -> Int]
  BY <1>1 DEF Safe, TypeOK, Deduct
<1>3. TypeOK'
  BY <1>2 DEF Safe, TypeOK, Deduct, AttemptAt, AttemptStates
<1>4. DecisionInv' /\ RefundedBefore' /\ RejectedMeansRefunded'
  BY DEF Safe, DecisionInv, RefundedBefore, RejectedMeansRefunded, InFlight, Deduct
<1> QED BY <1>3, <1>4 DEF Safe

LEMMA CreateRowSafe ==
  ASSUME Safe, NEW a \in Attempts, CreateRow(a)
  PROVE  Safe'
<1>1. TypeOK'
  BY DEF Safe, TypeOK, CreateRow, AttemptAt, AttemptStates, Statuses
<1>2. DecisionInv' /\ RefundedBefore'
  BY DEF Safe, DecisionInv, RefundedBefore, InFlight, CreateRow
<1>3. RejectedMeansRefunded'
  BY DEF Safe, TypeOK, RejectedMeansRefunded, CreateRow
<1> QED BY <1>1, <1>2, <1>3 DEF Safe

LEMMA ReadRowSafe ==
  ASSUME Safe, NEW d \in Decisions, ReadRow(d)
  PROVE  Safe'
<1>1. PICK a \in Attempts, to \in {"APPROVED", "REJECTED"},
           s \in {"failed", "refund", "update"} :
        /\ decision' = [decision EXCEPT ![d] = [at |-> s, to |-> to, row |-> a]]
        /\ s = "refund" => to = "REJECTED"
        /\ s = "update" => to # "REJECTED"
  BY DEF ReadRow
<1>2. TypeOK'
  BY <1>1 DEF Safe, TypeOK, ReadRow, DecisionStates, Statuses
<1>3. \A e \in Decisions \ {d} : decision'[e] = decision[e]
  BY <1>1 DEF Safe, TypeOK
<1>4. decision'[d] = [at |-> s, to |-> to, row |-> a]
  BY <1>1 DEF Safe, TypeOK
<1>5. DecisionInv' /\ RefundedBefore'
  BY <1>1, <1>3, <1>4 DEF Safe, DecisionInv, RefundedBefore, InFlight, ReadRow
<1>6. RejectedMeansRefunded'
  BY DEF Safe, RejectedMeansRefunded, ReadRow
<1> QED BY <1>2, <1>5, <1>6 DEF Safe

LEMMA DecisionAtFact ==
  ASSUME TypeOK, NEW d \in Decisions, NEW s \in DecisionStates, DecisionAt(d, s)
  PROVE  /\ decision' \in [Decisions -> [at: DecisionStates, to: Statuses,
                                         row: Attempts \cup {Nobody}]]
         /\ decision'[d].at = s /\ decision'[d].to = decision[d].to
         /\ decision'[d].row = decision[d].row
         /\ \A e \in Decisions \ {d} : decision'[e] = decision[e]
BY DEF TypeOK, DecisionAt

LEMMA RefundSafe ==
  ASSUME Safe, NEW d \in Decisions, RefundDiamonds(d)
  PROVE  Safe'
<1> DEFINE a == decision[d].row
<1>1. a \in Attempts /\ d \in InFlight
  BY DEF Safe, DecisionInv, InFlight, RefundDiamonds
<1>2. Host(a) \in Hosts /\ Amount(a) \in Nat /\ refunds[a] \in Nat
      /\ diamonds[Host(a)] \in Int
  BY <1>1, AskedFact DEF Safe, TypeOK
<1>3. /\ diamonds' = [diamonds EXCEPT ![Host(a)] = @ + Amount(a)]
      /\ refunds' = [refunds EXCEPT ![a] = @ + 1]
  BY DEF RefundDiamonds
<1> HIDE DEF a
<1>4. diamonds' \in [Hosts -> Int] /\ refunds' \in [Attempts -> Nat]
  BY <1>1, <1>2, <1>3 DEF Safe, TypeOK
<1>5. /\ \A b \in Attempts : refunds'[b] >= refunds[b]
      /\ refunds'[a] >= 1
  BY <1>1, <1>2, <1>3 DEF Safe, TypeOK
<1>6. "update" \in DecisionStates /\ DecisionAt(d, "update")
  BY DEF DecisionStates, RefundDiamonds
<1>7. /\ decision' \in [Decisions -> [at: DecisionStates, to: Statuses,
                                      row: Attempts \cup {Nobody}]]
      /\ decision'[d].at = "update" /\ decision'[d].to = decision[d].to
      /\ decision'[d].row = decision[d].row
      /\ \A e \in Decisions \ {d} : decision'[e] = decision[e]
  BY <1>6, DecisionAtFact DEF Safe
<1>8. TypeOK'
  BY <1>4, <1>7 DEF Safe, TypeOK, RefundDiamonds
<1>9. RejectedMeansRefunded'
  BY <1>4, <1>5 DEF Safe, TypeOK, RejectedMeansRefunded, RefundDiamonds
<1>10. DecisionInv'
  BY <1>1, <1>7 DEF Safe, DecisionInv, InFlight
<1>11. RefundedBefore'
  <2> SUFFICES ASSUME NEW e \in Decisions, decision'[e].at = "update",
                      decision'[e].to = "REJECTED"
               PROVE  refunds'[decision'[e].row] >= 1
    BY DEF RefundedBefore
  <2>1. CASE e = d
    BY <2>1, <1>5, <1>7 DEF a
  <2>2. CASE e # d
    <3>1. decision'[e] = decision[e] /\ e \in InFlight
      BY <2>2, <1>7 DEF InFlight
    <3>2. decision[e].row \in Attempts /\ refunds[decision[e].row] >= 1
      BY <3>1 DEF Safe, DecisionInv, RefundedBefore
    <3> QED BY <3>1, <3>2, <1>4, <1>5 DEF Safe, TypeOK
  <2> QED BY <2>1, <2>2
<1> QED BY <1>8, <1>9, <1>10, <1>11 DEF Safe

LEMMA UpdateStatusSafe ==
  ASSUME Safe, NEW d \in Decisions, UpdateStatus(d)
  PROVE  Safe'
<1>1. /\ decision[d].row \in Attempts /\ decision[d].to \in {"APPROVED", "REJECTED"}
      /\ decision[d].to = "REJECTED" => refunds[decision[d].row] >= 1
  BY DEF Safe, DecisionInv, RefundedBefore, InFlight, UpdateStatus
<1>2. "done" \in DecisionStates /\ DecisionAt(d, "done")
  BY DEF DecisionStates, UpdateStatus
<1>3. /\ decision' \in [Decisions -> [at: DecisionStates, to: Statuses,
                                      row: Attempts \cup {Nobody}]]
      /\ decision'[d].at = "done"
      /\ \A e \in Decisions \ {d} : decision'[e] = decision[e]
  BY <1>2, DecisionAtFact DEF Safe
<1>4. TypeOK'
  BY <1>1, <1>3 DEF Safe, TypeOK, Statuses, UpdateStatus
<1>5. DecisionInv' /\ RefundedBefore'
  BY <1>3 DEF Safe, DecisionInv, RefundedBefore, InFlight, UpdateStatus
<1>6. RejectedMeansRefunded'
  BY <1>1 DEF Safe, TypeOK, RejectedMeansRefunded, UpdateStatus
<1> QED BY <1>4, <1>5, <1>6 DEF Safe

LEMMA FailDecisionSafe ==
  ASSUME Safe, NEW d \in Decisions, FailDecision(d)
  PROVE  Safe'
<1>1. "failed" \in DecisionStates /\ DecisionAt(d, "failed")
  BY DEF DecisionStates, FailDecision
<1>2. /\ decision' \in [Decisions -> [at: DecisionStates, to: Statuses,
                                      row: Attempts \cup {Nobody}]]
      /\ decision'[d].at = "failed"
      /\ \A e \in Decisions \ {d} : decision'[e] = decision[e]
  BY <1>1, DecisionAtFact DEF Safe
<1>3. faults' \in 0..MaxFaults
  BY BoundsAssumption DEF Safe, TypeOK, FailDecision
<1>4. TypeOK'
  BY <1>2, <1>3 DEF Safe, TypeOK, FailDecision
<1>5. DecisionInv' /\ RefundedBefore'
  BY <1>2 DEF Safe, DecisionInv, RefundedBefore, InFlight, FailDecision
<1>6. RejectedMeansRefunded'
  BY DEF Safe, RejectedMeansRefunded, FailDecision
<1> QED BY <1>4, <1>5, <1>6 DEF Safe

LEMMA NextSafe ==
  ASSUME Safe, [Next]_vars
  PROVE  Safe'
<1>1. ASSUME NEW a \in Attempts, RefuseAmount(a) \/ Guard(a) \/ RefuseDeduct(a)
      PROVE  Safe'
  <2>1. at' \in [Attempts -> AttemptStates]
    BY <1>1 DEF Safe, TypeOK, RefuseAmount, Guard, RefuseDeduct, AttemptAt, AttemptStates
  <2>2. key' \in [Attempts -> Attempts \cup {Nobody}] /\ faults' \in 0..MaxFaults
    BY <1>1 DEF Safe, TypeOK, RefuseAmount, Guard, RefuseDeduct
  <2>3. UNCHANGED <<diamonds, asked, deducted, status, refunds, decision, calm>>
    BY <1>1 DEF RefuseAmount, Guard, RefuseDeduct
  <2> QED BY <2>1, <2>2, <2>3, QuietSafe
<1>2. ASSUME NEW a \in Attempts, ReadClock(a)
      PROVE  Safe'
  <2>1. at' \in [Attempts -> AttemptStates]
    BY <1>2 DEF Safe, TypeOK, ReadClock, AttemptAt, AttemptStates
  <2>2. key' \in [Attempts -> Attempts \cup {Nobody}]
    BY <1>2 DEF Safe, TypeOK, ReadClock
  <2>3. UNCHANGED <<diamonds, asked, deducted, status, refunds, decision, faults, calm>>
    BY <1>2 DEF ReadClock
  <2> QED BY <2>1, <2>2, <2>3, QuietSafe DEF Safe, TypeOK
<1>3. ASSUME NEW a \in Attempts, Fail(a)
      PROVE  Safe'
  <2>1. at' \in [Attempts -> AttemptStates]
    BY <1>3 DEF Safe, TypeOK, Fail, AttemptAt, AttemptStates
  <2>2. faults' \in 0..MaxFaults
    BY <1>3, BoundsAssumption DEF Safe, TypeOK, Fail
  <2>3. UNCHANGED <<diamonds, asked, key, deducted, status, refunds, decision, calm>>
    BY <1>3 DEF Fail
  <2> QED BY <2>1, <2>2, <2>3, QuietSafe DEF Safe, TypeOK
<1>4. CASE UNCHANGED vars
  BY <1>4, QuietSafe DEF vars, Safe, TypeOK
<1> QED
  BY <1>1, <1>2, <1>3, <1>4, DeductSafe, CreateRowSafe, ReadRowSafe, RefundSafe,
     UpdateStatusSafe, FailDecisionSafe
     DEF Next, AttemptStep, DecisionStep, Quiescent

\* Withdrawals keep the types of their variables (withdrawal.service.ts).
THEOREM TypeCorrect == Spec => []TypeOK
<1>1. Init => Safe
  BY InitSafe
<1>2. Safe /\ [Next]_vars => Safe'
  BY NextSafe
<1>3. Safe => TypeOK
  BY DEF Safe
<1> QED BY <1>1, <1>2, <1>3, PTL DEF Spec

\* No row is shown as REJECTED before its diamonds have come back, whoever else
\* decides it and whatever fails (withdrawal.service.ts 201-216).
THEOREM RefundComesFirst == Spec => []RejectedMeansRefunded
<1>1. Init => Safe
  BY InitSafe
<1>2. Safe /\ [Next]_vars => Safe'
  BY NextSafe
<1>3. Safe => RejectedMeansRefunded
  BY DEF Safe
<1> QED BY <1>1, <1>2, <1>3, PTL DEF Spec

-----------------------------------------------------------------------------
(* How often a row is settled *)

\* The decisions that read row a as PENDING and were not cut off, and those of
\* them that have paid its diamonds back.
Live(a) == {d \in Decisions : decision[d].row = a
                              /\ decision[d].at \in {"refund", "update", "done"}}
Paid(a) == {d \in Live(a) : decision[d].to = "REJECTED" /\ decision[d].at # "refund"}

\* While a row waits no decision on it is done, so they are all under way; once
\* it does not wait, no other joins them.
LiveInv ==
  \A a \in Attempts :
    /\ at[a] # "done" => status[a] = "none"
    /\ at[a] # "done" => Live(a) = {}
    /\ status[a] = "PENDING" => Live(a) \subseteq InFlight
    /\ Cardinality(Live(a)) <= AtOnce
    /\ status[a] = "APPROVED" =>
         \E d \in Live(a) : decision[d].to = "APPROVED" /\ decision[d].at = "done"
PaidInv == \A a \in Attempts : refunds[a] <= Cardinality(Paid(a)) + faults

Settling == LiveInv /\ PaidInv

LEMMA FiniteFact ==
  /\ IsFiniteSet(InFlight) /\ Cardinality(InFlight) \in Nat
  /\ \A a : /\ IsFiniteSet(Live(a)) /\ Cardinality(Live(a)) \in Nat
            /\ IsFiniteSet(Paid(a)) /\ Cardinality(Paid(a)) \in Nat
<1>1. IsFiniteSet(InFlight)
  BY DecisionsAssumption, FS_Subset DEF InFlight
<1>2. ASSUME NEW a
      PROVE  IsFiniteSet(Live(a)) /\ IsFiniteSet(Paid(a))
  <2>1. IsFiniteSet(Live(a))
    BY DecisionsAssumption, FS_Subset DEF Live
  <2> QED BY <2>1, FS_Subset DEF Paid
<1> QED BY <1>1, <1>2, FS_CardinalityType

LEMMA InitSettling ==
  ASSUME Init
  PROVE  Settling
<1>1. \A a \in Attempts : Live(a) = {} /\ Paid(a) = {}
  BY DEF Init, Live, Paid, NoDecision
<1>2. AtOnce \in Nat \ {0}
  BY BoundsAssumption DEF AtOnce
<1>3. \A a \in Attempts : Cardinality(Live(a)) = 0 /\ Cardinality(Paid(a)) = 0
  BY <1>1, FS_EmptySet
<1>4. LiveInv
  <2>1. \A a \in Attempts : Cardinality(Live(a)) <= AtOnce
    BY <1>2, <1>3
  <2> QED BY <1>1, <2>1 DEF Init, LiveInv
<1>5. PaidInv
  <2>1. \A a \in Attempts : refunds[a] <= Cardinality(Paid(a)) + faults
    BY <1>3 DEF Init
  <2> QED BY <2>1 DEF PaidInv
<1> QED BY <1>4, <1>5 DEF Settling

\* Steps that leave the decisions and the refunds alone.
LEMMA AttemptSettling ==
  ASSUME Safe, Settling, UNCHANGED <<decision, refunds, calm>>,
         faults' \in Nat, faults' >= faults,
         NEW a \in Attempts, NEW s \in AttemptStates, at' = [at EXCEPT ![a] = s],
         \/ UNCHANGED status /\ at[a] # "done"
         \/ at[a] # "done" /\ s = "done" /\ status' = [status EXCEPT ![a] = "PENDING"]
  PROVE  Settling'
<1>1. \A b \in Attempts : Live(b)' = Live(b) /\ Paid(b)' = Paid(b)
  BY DEF Live, Paid
<1>2. InFlight' = InFlight /\ AtOnce' = AtOnce
  BY DEF InFlight, AtOnce
<1>3. \A b \in Attempts \ {a} : status'[b] = status[b] /\ at'[b] = at[b]
  BY DEF Safe, TypeOK
<1>4. status[a] = "none" /\ at'[a] = s
      /\ (status'[a] = "none" \/ (s = "done" /\ status'[a] = "PENDING"))
  BY DEF Safe, TypeOK, Settling, LiveInv
<1>5. LiveInv'
  <2> SUFFICES ASSUME NEW b \in Attempts
               PROVE  /\ at'[b] # "done" => status'[b] = "none"
                      /\ at[b] # "done" => Live(b) = {}
                      /\ status'[b] = "PENDING" => Live(b) \subseteq InFlight
                      /\ Cardinality(Live(b)) <= AtOnce
                      /\ status'[b] = "APPROVED" =>
                           \E d \in Live(b) : decision[d].to = "APPROVED" /\ decision[d].at = "done"
    BY <1>1, <1>2 DEF LiveInv
  <2>1. CASE b = a
    BY <2>1, <1>4 DEF Settling, LiveInv
  <2>2. CASE b # a
    BY <2>2, <1>3 DEF Settling, LiveInv
  <2> QED BY <2>1, <2>2
<1>6. PaidInv'
  <2> SUFFICES ASSUME NEW b \in Attempts
               PROVE  refunds[b] <= Cardinality(Paid(b)) + faults'
    BY <1>1 DEF PaidInv
  <2>1. refunds[b] <= Cardinality(Paid(b)) + faults
    BY DEF Settling, PaidInv
  <2>2. refunds[b] \in Nat /\ Cardinality(Paid(b)) \in Nat /\ faults \in Nat
    BY FiniteFact, BoundsAssumption DEF Safe, TypeOK
  <2> QED BY <2>1, <2>2
<1> QED BY <1>5, <1>6 DEF Settling

LEMMA ReadRowSettling ==
  ASSUME Safe, Settling, NEW d \in Decisions, ReadRow(d)
  PROVE  Settling'
<1>1. PICK a \in Attempts, to \in {"APPROVED", "REJECTED"},
           s \in {"failed", "refund", "update"} :
        /\ decision' = [decision EXCEPT ![d] = [at |-> s, to |-> to, row |-> a]]
        /\ s # "failed" => status[a] = "PENDING"
        /\ s = "update" => to # "REJECTED"
  BY DEF ReadRow
<1>2. /\ decision'[d] = [at |-> s, to |-> to, row |-> a]
      /\ \A e \in Decisions \ {d} : decision'[e] = decision[e]
      /\ decision[d].at = "idle"
  BY <1>1 DEF Safe, TypeOK, ReadRow
<1>3. UNCHANGED <<at, status, refunds, faults, calm>> /\ AtOnce' = AtOnce
  BY DEF ReadRow, AtOnce
<1>4. InFlight \subseteq InFlight' /\ d \notin InFlight
  BY <1>2 DEF InFlight
<1>5. \A b \in Attempts : /\ Paid(b)' = Paid(b) /\ d \notin Live(b)
                          /\ Live(b) \subseteq Live(b)'
                          /\ b # a \/ s = "failed" => Live(b)' = Live(b)
                          /\ b = a /\ s # "failed" => Live(b)' = Live(b) \cup {d}
  BY <1>1, <1>2 DEF Live, Paid
<1>6. LiveInv'
  <2> SUFFICES ASSUME NEW b \in Attempts
               PROVE  /\ at[b] # "done" => status[b] = "none"
                      /\ at[b] # "done" => Live(b)' = {}
                      /\ status[b] = "PENDING" => Live(b)' \subseteq InFlight'
                      /\ Cardinality(Live(b)') <= AtOnce
                      /\ status[b] = "APPROVED" =>
                           \E e \in Live(b)' : decision'[e].to = "APPROVED" /\ decision'[e].at = "done"
    BY <1>3 DEF LiveInv
  <2>1. ASSUME status[b] = "APPROVED"
        PROVE  \E e \in Live(b)' : decision'[e].to = "APPROVED" /\ decision'[e].at = "done"
    <3>1. PICK e \in Live(b) : decision[e].to = "APPROVED" /\ decision[e].at = "done"
      BY <2>1 DEF Settling, LiveInv
    <3>2. decision'[e] = decision[e] /\ e \in Live(b)'
      BY <3>1, <1>2, <1>5 DEF Live
    <3> QED BY <3>1, <3>2
  <2>2. CASE b # a \/ s = "failed"
    BY <2>1, <2>2, <1>4, <1>5 DEF Settling, LiveInv
  <2>3. CASE b = a /\ s # "failed"
    <3>1. /\ Live(b) \subseteq InFlight /\ at[b] = "done" /\ status[b] = "PENDING"
          /\ Live(b)' = Live(b) \cup {d} /\ d \notin Live(b)
      BY <2>3, <1>1, <1>5 DEF Settling, LiveInv
    <3>2. d \in InFlight'
      BY <2>3, <1>2 DEF InFlight
    <3>3. Live(b)' \subseteq InFlight'
      BY <3>1, <3>2, <1>4
    <3>4. Cardinality(Live(b)) <= Cardinality(InFlight)
      BY <3>1, FiniteFact, FS_Subset
    <3>5. Cardinality(Live(b) \cup {d}) = Cardinality(Live(b)) + 1
      BY <3>1, FiniteFact, FS_AddElement
    <3>6. Cardinality(InFlight) < AtOnce /\ AtOnce \in Nat
      BY BoundsAssumption DEF ReadRow, AdminFree, AtOnce
    <3>7. Cardinality(Live(b)) \in Nat /\ Cardinality(InFlight) \in Nat
      BY FiniteFact
    <3>8. Cardinality(Live(b)) + 1 <= AtOnce
      BY <3>4, <3>6, <3>7
    <3> QED BY <2>1, <3>1, <3>3, <3>5, <3>8
  <2> QED BY <2>2, <2>3
<1>7. PaidInv'
  BY <1>3, <1>5 DEF Settling, PaidInv
<1> QED BY <1>6, <1>7 DEF Settling

LEMMA RefundSettling ==
  ASSUME Safe, Settling, NEW d \in Decisions, RefundDiamonds(d)
  PROVE  Settling'
<1> DEFINE a == decision[d].row
<1>1. d \in InFlight /\ decision[d].to = "REJECTED" /\ a \in Attempts
      /\ decision[d].at = "refund"
  BY DEF Safe, DecisionInv, InFlight, RefundDiamonds
<1>2. "update" \in DecisionStates /\ DecisionAt(d, "update")
  BY DEF DecisionStates, RefundDiamonds
<1>3. /\ decision'[d].at = "update" /\ decision'[d].to = decision[d].to
      /\ decision'[d].row = decision[d].row
      /\ \A e \in Decisions \ {d} : decision'[e] = decision[e]
  BY <1>2, DecisionAtFact DEF Safe
<1>4. /\ UNCHANGED <<at, status, faults, calm>> /\ AtOnce' = AtOnce
      /\ refunds' = [refunds EXCEPT ![a] = @ + 1]
  BY DEF RefundDiamonds, AtOnce
<1>5. InFlight' = InFlight
  BY <1>1, <1>3 DEF InFlight
<1>6. \A b \in Attempts : /\ Live(b)' = Live(b)
                          /\ b # a => Paid(b)' = Paid(b)
                          /\ b = a => Paid(b)' = Paid(b) \cup {d} /\ d \notin Paid(b)
  BY <1>1, <1>3 DEF Live, Paid
<1> HIDE DEF a
<1>7. LiveInv'
  <2>1. ASSUME NEW b \in Attempts, status[b] = "APPROVED"
        PROVE  \E e \in Live(b) : decision'[e].to = "APPROVED" /\ decision'[e].at = "done"
    <3>1. PICK e \in Live(b) : decision[e].to = "APPROVED" /\ decision[e].at = "done"
      BY <2>1 DEF Settling, LiveInv
    <3>2. decision'[e] = decision[e]
      BY <3>1, <1>1, <1>3 DEF Live
    <3> QED BY <3>1, <3>2
  <2> QED BY <2>1, <1>4, <1>5, <1>6 DEF Settling, LiveInv
<1>8. PaidInv'
  <2> SUFFICES ASSUME NEW b \in Attempts
               PROVE  refunds'[b] <= Cardinality(Paid(b)') + faults
    BY <1>4 DEF PaidInv
  <2>1. refunds[b] <= Cardinality(Paid(b)) + faults
    BY DEF Settling, PaidInv
  <2>2. refunds[b] \in Nat /\ Cardinality(Paid(b)) \in Nat /\ faults \in Nat
    BY FiniteFact, BoundsAssumption DEF Safe, TypeOK
  <2>3. CASE b # a
    BY <2>1, <2>3, <1>4, <1>6 DEF Safe, TypeOK
  <2>4. CASE b = a
    <3>1. Paid(b)' = Paid(b) \cup {d} /\ d \notin Paid(b)
      BY <2>4, <1>6
    <3>2. Cardinality(Paid(b) \cup {d}) = Cardinality(Paid(b)) + 1
      BY <3>1, FiniteFact, FS_AddElement
    <3>3. refunds'[b] = refunds[b] + 1
      BY <2>4, <1>1, <1>4 DEF Safe, TypeOK
    <3> QED BY <2>1, <2>2, <3>1, <3>2, <3>3
  <2> QED BY <2>3, <2>4
<1> QED BY <1>7, <1>8 DEF Settling

LEMMA UpdateStatusSettling ==
  ASSUME Safe, Settling, NEW d \in Decisions, UpdateStatus(d)
  PROVE  Settling'
<1> DEFINE a == decision[d].row
<1>1. d \in InFlight /\ decision[d].to \in {"APPROVED", "REJECTED"} /\ a \in Attempts
      /\ decision[d].at = "update"
  BY DEF Safe, DecisionInv, InFlight, UpdateStatus
<1>2. "done" \in DecisionStates /\ DecisionAt(d, "done")
  BY DEF DecisionStates, UpdateStatus
<1>3. /\ decision'[d].at = "done" /\ decision'[d].to = decision[d].to
      /\ decision'[d].row = decision[d].row
      /\ \A e \in Decisions \ {d} : decision'[e] = decision[e]
  BY <1>2, DecisionAtFact DEF Safe
<1>4. /\ UNCHANGED <<at, refunds, faults, calm>> /\ AtOnce' = AtOnce
      /\ status' = [status EXCEPT ![a] = decision[d].to]
  BY DEF UpdateStatus, AtOnce
<1>5. \A b \in Attempts : /\ Live(b)' = Live(b) /\ Paid(b)' = Paid(b)
                          /\ b # a => d \notin Live(b)
                          /\ b = a => d \in Live(b)
  BY <1>1, <1>3 DEF Live, Paid
<1>6. /\ status'[a] = decision[d].to
      /\ \A b \in Attempts \ {a} : status'[b] = status[b]
  BY <1>1, <1>4 DEF Safe, TypeOK
<1> HIDE DEF a
<1>7. \A b \in Attempts : Live(b) \subseteq InFlight /\ b # a => Live(b) \subseteq InFlight'
  BY <1>3, <1>5 DEF InFlight, Live
<1>8. LiveInv'
  <2> SUFFICES ASSUME NEW b \in Attempts
               PROVE  /\ at[b] # "done" => status'[b] = "none"
                      /\ at[b] # "done" => Live(b) = {}
                      /\ status'[b] = "PENDING" => Live(b) \subseteq InFlight'
                      /\ Cardinality(Live(b)) <= AtOnce
                      /\ status'[b] = "APPROVED" =>
                           \E e \in Live(b) : decision'[e].to = "APPROVED" /\ decision'[e].at = "done"
    BY <1>4, <1>5 DEF LiveInv
  <2>1. Cardinality(Live(b)) <= AtOnce
    BY DEF Settling, LiveInv
  <2>2. CASE b = a
    <3>1. at[a] = "done"
      BY <1>1, <1>5 DEF Settling, LiveInv
    <3> QED BY <2>1, <2>2, <3>1, <1>1, <1>3, <1>5, <1>6
  <2>3. CASE b # a
    <3>1. \A e \in Live(b) : decision'[e] = decision[e]
      BY <2>3, <1>3, <1>5 DEF Live
    <3> QED BY <2>1, <2>3, <3>1, <1>6, <1>7 DEF Settling, LiveInv
  <2> QED BY <2>2, <2>3
<1>9. PaidInv'
  BY <1>4, <1>5 DEF Settling, PaidInv
<1> QED BY <1>8, <1>9 DEF Settling

LEMMA FailDecisionSettling ==
  ASSUME Safe, Settling, NEW d \in Decisions, FailDecision(d)
  PROVE  Settling'
<1>1. "failed" \in DecisionStates /\ DecisionAt(d, "failed")
  BY DEF DecisionStates, FailDecision
<1>2. /\ decision'[d].at = "failed" /\ decision[d].at \in {"refund", "update"}
      /\ \A e \in Decisions \ {d} : decision'[e] = decision[e]
  BY <1>1, DecisionAtFact DEF Safe, FailDecision
<1>3. /\ UNCHANGED <<at, status, refunds, calm>> /\ AtOnce' = AtOnce
      /\ faults' = faults + 1
  BY DEF FailDecision, AtOnce
<1>4. InFlight' = InFlight \ {d}
  BY <1>2 DEF InFlight
<1>5. \A b \in Attempts : Live(b)' = Live(b) \ {d} /\ Paid(b)' = Paid(b) \ {d}
  BY <1>2 DEF Live, Paid
<1>6. LiveInv'
  <2> SUFFICES ASSUME NEW b \in Attempts
               PROVE  /\ at[b] # "done" => status[b] = "none"
                      /\ at[b] # "done" => Live(b)' = {}
                      /\ status[b] = "PENDING" => Live(b)' \subseteq InFlight'
                      /\ Cardinality(Live(b)') <= AtOnce
                      /\ status[b] = "APPROVED" =>
                           \E e \in Live(b)' : decision'[e].to = "APPROVED" /\ decision'[e].at = "done"
    BY <1>3 DEF LiveInv
  <2>1. /\ at[b] # "done" => status[b] = "none"
        /\ at[b] # "done" => Live(b)' = {}
        /\ status[b] = "PENDING" => Live(b)' \subseteq InFlight'
    BY <1>4, <1>5 DEF Settling, LiveInv
  <2>2. ASSUME status[b] = "APPROVED"
        PROVE  \E e \in Live(b)' : decision'[e].to = "APPROVED" /\ decision'[e].at = "done"
    <3>1. PICK e \in Live(b) : decision[e].to = "APPROVED" /\ decision[e].at = "done"
      BY <2>2 DEF Settling, LiveInv
    <3>2. decision'[e] = decision[e] /\ e \in Live(b)'
      BY <3>1, <1>2, <1>5 DEF Live
    <3> QED BY <3>1, <3>2
  <2>3. Cardinality(Live(b) \ {d}) <= Cardinality(Live(b))
    BY FiniteFact, FS_Subset
  <2>4. Cardinality(Live(b)) <= AtOnce /\ AtOnce \in Nat
    BY BoundsAssumption DEF Settling, LiveInv, AtOnce
  <2>5. Cardinality(Live(b) \ {d}) \in Nat /\ Cardinality(Live(b)) \in Nat
    BY FiniteFact, FS_Subset, FS_CardinalityType
  <2> QED BY <2>1, <2>2, <2>3, <2>4, <2>5, <1>5
<1>7. PaidInv'
  <2> SUFFICES ASSUME NEW b \in Attempts
               PROVE  refunds[b] <= Cardinality(Paid(b) \ {d}) + (faults + 1)
    BY <1>3, <1>5 DEF PaidInv
  <2>1. refunds[b] <= Cardinality(Paid(b)) + faults
    BY DEF Settling, PaidInv
  <2>2. refunds[b] \in Nat /\ Cardinality(Paid(b)) \in Nat /\ faults \in Nat
    BY FiniteFact, BoundsAssumption DEF Safe, TypeOK
  <2>3. CASE d \notin Paid(b)
    <3>1. Paid(b) \ {d} = Paid(b)
      BY <2>3
    <3> QED BY <2>1, <2>2, <3>1
  <2>4. CASE d \in Paid(b)
    <3>1. Cardinality(Paid(b) \ {d}) = Cardinality(Paid(b)) - 1
      BY <2>4, FiniteFact, FS_RemoveElement
    <3> QED BY <2>1, <2>2, <3>1
  <2> QED BY <2>3, <2>4
<1> QED BY <1>6, <1>7 DEF Settling

LEMMA NextSettling ==
  ASSUME Safe, Settling, [Next]_vars
  PROVE  Settling'
<1>0. faults \in Nat
  BY DEF Safe, TypeOK
<1>1. ASSUME NEW a \in Attempts, AttemptStep(a) \/ Fail(a)
      PROVE  Settling'
  <2>1. UNCHANGED <<decision, refunds, calm>> /\ faults' \in Nat /\ faults' >= faults
    BY <1>0, <1>1 DEF AttemptStep, RefuseAmount, ReadClock, Guard, Deduct, RefuseDeduct,
                      CreateRow, Fail
  <2>2. PICK s \in AttemptStates :
          /\ at' = [at EXCEPT ![a] = s] /\ at[a] # "done"
          /\ \/ UNCHANGED status
             \/ s = "done" /\ status' = [status EXCEPT ![a] = "PENDING"]
    BY <1>1 DEF AttemptStep, RefuseAmount, ReadClock, Guard, Deduct, RefuseDeduct,
                CreateRow, Fail, AttemptAt, AttemptStates
  <2> QED BY <2>1, <2>2, AttemptSettling
<1>2. CASE UNCHANGED vars
  BY <1>2 DEF vars, Settling, LiveInv, PaidInv, Live, Paid, InFlight, AtOnce
<1> QED
  BY <1>1, <1>2, ReadRowSettling, RefundSettling, UpdateStatusSettling, FailDecisionSettling
     DEF Next, DecisionStep, Quiescent

\* No schedule of any number of admins and cut-offs pays a row out and back
\* more often than decisions overlap and are cut off (withdrawal.service.ts
\* 148-216).
THEOREM SettlementsAreBounded == Spec => []SettlementsBounded
<1>1. Init => Safe /\ Settling
  BY InitSafe, InitSettling
<1>2. Safe /\ Settling /\ [Next]_vars => Safe' /\ Settling'
  BY NextSafe, NextSettling
<1>3. Safe /\ Settling => SettlementsBounded
  <2> SUFFICES ASSUME Safe, Settling, NEW a \in Attempts
               PROVE  refunds[a] + (IF status[a] = "APPROVED" THEN 1 ELSE 0)
                        <= AtOnce + faults
    BY DEF SettlementsBounded
  <2>1. /\ refunds[a] <= Cardinality(Paid(a)) + faults
        /\ Cardinality(Live(a)) <= AtOnce
    BY DEF Settling, PaidInv, LiveInv
  <2>2. /\ refunds[a] \in Nat /\ Cardinality(Paid(a)) \in Nat /\ faults \in Nat
        /\ Cardinality(Live(a)) \in Nat /\ AtOnce \in Nat
    BY FiniteFact, BoundsAssumption DEF Safe, TypeOK, AtOnce
  <2>3. Cardinality(Paid(a)) <= Cardinality(Live(a))
    BY FiniteFact, FS_Subset DEF Paid
  <2>4. CASE status[a] # "APPROVED"
    BY <2>1, <2>2, <2>3, <2>4
  <2>5. CASE status[a] = "APPROVED"
    <3>1. PICK d \in Live(a) : decision[d].to = "APPROVED"
      BY <2>5 DEF Settling, LiveInv
    <3>2. Paid(a) \subseteq Live(a) \ {d}
      BY <3>1 DEF Paid
    <3>3. Cardinality(Live(a) \ {d}) = Cardinality(Live(a)) - 1 /\ IsFiniteSet(Live(a) \ {d})
      BY <3>1, FiniteFact, FS_RemoveElement
    <3>4. Cardinality(Paid(a)) <= Cardinality(Live(a) \ {d})
      BY <3>2, <3>3, FS_Subset
    <3> QED BY <2>1, <2>2, <2>5, <3>3, <3>4
  <2> QED BY <2>4, <2>5
<1> QED BY <1>1, <1>2, <1>3, PTL DEF Spec

-----------------------------------------------------------------------------
(* Calm behaviours *)

\* One decision at a time, on a row that waits for it.
OneAtATime ==
  /\ \A d, e \in InFlight : d = e
  /\ \A d \in InFlight : status[decision[d].row] = "PENDING"

\* Every attempt has a key of its own, so a used key means its own deduction.
OwnKey ==
  /\ \A a \in Attempts : key[a] \in {a, Nobody}
  /\ \A a \in Attempts : at[a] \in {"guard", "deduct", "create", "done"} => key[a] = a
  /\ \A a \in deducted : key[a] = a

\* The diamonds leave before the row is made.
Progress ==
  \A a \in Attempts :
    /\ at[a] \in {"idle", "guard", "deduct", "failed"} => a \notin deducted /\ status[a] = "none"
    /\ at[a] = "create" => a \in deducted /\ status[a] = "none"
    /\ at[a] = "done" => a \in deducted /\ status[a] # "none"

\* What was rejected, or is about to be shown so, was refunded once; nothing
\* else was.
Refunding(a) ==
  \E d \in Decisions :
    decision[d].at = "update" /\ decision[d].to = "REJECTED" /\ decision[d].row = a
RefundInv ==
  \A a \in Attempts :
    refunds[a] = IF status[a] = "REJECTED" \/ Refunding(a) THEN 1 ELSE 0

Careful == calm => OneAtATime /\ OwnKey /\ Progress /\ RefundInv

LEMMA InitCareful ==
  ASSUME Init
  PROVE  Careful
BY DEF Init, Careful, OneAtATime, OwnKey, Progress, RefundInv, Refunding, InFlight, NoDecision

LEMMA AloneFact ==
  ASSUME AdminFree, calm
  PROVE  InFlight = {}
<1>1. IsFiniteSet(InFlight)
  BY DecisionsAssumption, FS_Subset DEF InFlight
<1>2. Cardinality(InFlight) \in Nat /\ Cardinality(InFlight) < 1
  BY <1>1, FS_CardinalityType DEF AdminFree, AtOnce
<1>3. Cardinality(InFlight) = 0
  BY <1>2
<1> QED BY <1>1, <1>3, FS_EmptySet

\* Steps of an attempt leave the decisions and the refunds alone.
LEMMA AttemptCareful ==
  ASSUME Safe, Careful, NEW a \in Attempts, AttemptStep(a)
  PROVE  Careful'
<1> SUFFICES ASSUME calm, calm'
             PROVE  OneAtATime' /\ OwnKey' /\ Progress' /\ RefundInv'
  BY DEF Careful, AttemptStep, RefuseAmount, ReadClock, Guard, Deduct, RefuseDeduct, CreateRow
<1>1. OneAtATime /\ OwnKey /\ Progress /\ RefundInv
  BY DEF Careful
<1>2. UNCHANGED <<decision, refunds>>
  BY DEF AttemptStep, RefuseAmount, ReadClock, Guard, Deduct, RefuseDeduct, CreateRow
<1>3. KeyUsed(a) /\ at[a] = "guard" => a \in deducted
  BY <1>1, NobodyAssumption DEF KeyUsed, OwnKey
<1>4. CASE CreateRow(a)
  <2>1. /\ at[a] = "create" /\ at' = [at EXCEPT ![a] = "done"]
        /\ status' = [status EXCEPT ![a] = "PENDING"] /\ UNCHANGED <<key, deducted>>
    BY <1>4 DEF CreateRow, AttemptAt
  <2>2. status[a] = "none"
    BY <1>1, <2>1 DEF Progress
  <2>3. OneAtATime'
    BY <1>1, <1>2, <2>1, <2>2 DEF Safe, TypeOK, DecisionInv, OneAtATime, InFlight
  <2>4. OwnKey' /\ Progress'
    BY <1>1, <2>1 DEF Safe, TypeOK, OwnKey, Progress
  <2>5. RefundInv'
    BY <1>1, <1>2, <2>1, <2>2 DEF Safe, TypeOK, RefundInv, Refunding
  <2> QED BY <2>3, <2>4, <2>5
<1>5. CASE ~CreateRow(a)
  <2>1. UNCHANGED status
    BY <1>5 DEF AttemptStep, RefuseAmount, ReadClock, Guard, Deduct, RefuseDeduct
  <2>2. OneAtATime' /\ RefundInv'
    BY <1>1, <1>2, <2>1 DEF OneAtATime, RefundInv, Refunding, InFlight
  <2>3. OwnKey' /\ Progress'
    <3>1. CASE RefuseAmount(a) \/ RefuseDeduct(a)
      BY <1>1, <3>1 DEF Safe, TypeOK, OwnKey, Progress, RefuseAmount, RefuseDeduct, AttemptAt
    <3>2. CASE ReadClock(a)
      BY <1>1, <3>2 DEF Safe, TypeOK, OwnKey, Progress, ReadClock, AttemptAt
    <3>3. CASE Guard(a)
      <4>1. ~KeyUsed(a)
        BY <1>1, <1>3, <3>3 DEF Progress, Guard
      <4> QED BY <1>1, <3>3, <4>1 DEF Safe, TypeOK, OwnKey, Progress, Guard, AttemptAt
    <3>4. CASE Deduct(a)
      BY <1>1, <3>4 DEF Safe, TypeOK, OwnKey, Progress, Deduct, AttemptAt
    <3> QED BY <1>5, <3>1, <3>2, <3>3, <3>4 DEF AttemptStep
  <2> QED BY <2>2, <2>3
<1> QED BY <1>4, <1>5

LEMMA ReadRowCareful ==
  ASSUME Safe, Careful, NEW d \in Decisions, ReadRow(d)
  PROVE  Careful'
<1> SUFFICES ASSUME calm, calm'
             PROVE  OneAtATime' /\ OwnKey' /\ Progress' /\ RefundInv'
  BY DEF Careful, ReadRow
<1>1. OneAtATime /\ OwnKey /\ Progress /\ RefundInv
  BY DEF Careful
<1>2. InFlight = {}
  BY AloneFact DEF ReadRow
<1>3. PICK a \in Attempts, to \in {"APPROVED", "REJECTED"},
           s \in {"failed", "refund", "update"} :
        /\ decision' = [decision EXCEPT ![d] = [at |-> s, to |-> to, row |-> a]]
        /\ s # "failed" => status[a] = "PENDING"
        /\ s = "update" => to # "REJECTED"
  BY DEF ReadRow
<1>4. decision'[d] = [at |-> s, to |-> to, row |-> a]
      /\ \A e \in Decisions \ {d} : decision'[e] = decision[e] /\ e \notin InFlight
  BY <1>2, <1>3 DEF Safe, TypeOK
<1>5. UNCHANGED <<at, key, deducted, status, refunds>>
  BY DEF ReadRow
<1>6. OneAtATime'
  BY <1>3, <1>4, <1>5 DEF OneAtATime, InFlight
<1>7. \A b \in Attempts : ~Refunding(b) /\ ~Refunding(b)'
  BY <1>2, <1>3, <1>4 DEF Refunding, InFlight
<1>8. OwnKey' /\ Progress'
  BY <1>1, <1>5 DEF OwnKey, Progress
<1>9. RefundInv'
  BY <1>1, <1>5, <1>7 DEF RefundInv
<1> QED BY <1>6, <1>8, <1>9

LEMMA RefundCareful ==
  ASSUME Safe, Careful, NEW d \in Decisions, RefundDiamonds(d)
  PROVE  Careful'
<1> SUFFICES ASSUME calm, calm'
             PROVE  OneAtATime' /\ OwnKey' /\ Progress' /\ RefundInv'
  BY DEF Careful, RefundDiamonds
<1>1. OneAtATime /\ OwnKey /\ Progress /\ RefundInv
  BY DEF Careful
<1>2. d \in InFlight /\ decision[d].to = "REJECTED" /\ decision[d].row \in Attempts
      /\ status[decision[d].row] = "PENDING" /\ decision[d].at = "refund"
  BY <1>1 DEF Safe, DecisionInv, OneAtATime, InFlight, RefundDiamonds
<1>3. "update" \in DecisionStates /\ DecisionAt(d, "update")
  BY DEF DecisionStates, RefundDiamonds
<1>4. /\ decision'[d].at = "update" /\ decision'[d].to = decision[d].to
      /\ decision'[d].row = decision[d].row
      /\ \A e \in Decisions \ {d} : decision'[e] = decision[e]
  BY <1>3, DecisionAtFact DEF Safe
<1>5. UNCHANGED <<at, key, deducted, status>>
      /\ refunds' = [refunds EXCEPT ![decision[d].row] = @ + 1]
  BY DEF RefundDiamonds
<1>6. \A e \in Decisions \ {d} : e \notin InFlight
  BY <1>1, <1>2 DEF OneAtATime
<1>7. OneAtATime'
  BY <1>2, <1>4, <1>5, <1>6 DEF OneAtATime, InFlight
<1>8. \A b \in Attempts : ~Refunding(b) /\ (Refunding(b)' <=> b = decision[d].row)
  BY <1>2, <1>4, <1>6 DEF Refunding, InFlight
<1>9. RefundInv'
  BY <1>1, <1>2, <1>5, <1>8 DEF Safe, TypeOK, RefundInv
<1>10. OwnKey' /\ Progress'
  BY <1>1, <1>5 DEF OwnKey, Progress
<1> QED BY <1>7, <1>9, <1>10

LEMMA UpdateStatusCareful ==
  ASSUME Safe, Careful, NEW d \in Decisions, UpdateStatus(d)
  PROVE  Careful'
<1> SUFFICES ASSUME calm, calm'
             PROVE  OneAtATime' /\ OwnKey' /\ Progress' /\ RefundInv'
  BY DEF Careful, UpdateStatus
<1> DEFINE a == decision[d].row
           to == decision[d].to
<1>1. OneAtATime /\ OwnKey /\ Progress /\ RefundInv
  BY DEF Careful
<1>2. d \in InFlight /\ to \in {"APPROVED", "REJECTED"} /\ a \in Attempts
      /\ status[a] = "PENDING" /\ decision[d].at = "update"
  BY <1>1 DEF Safe, DecisionInv, OneAtATime, InFlight, UpdateStatus
<1>3. "done" \in DecisionStates /\ DecisionAt(d, "done")
  BY DEF DecisionStates, UpdateStatus
<1>4. decision'[d].at = "done" /\ \A e \in Decisions \ {d} : decision'[e] = decision[e]
  BY <1>3, DecisionAtFact DEF Safe
<1>5. UNCHANGED <<at, key, deducted, refunds>> /\ status' = [status EXCEPT ![a] = to]
  BY DEF UpdateStatus
<1>6. \A e \in Decisions \ {d} : e \notin InFlight
  BY <1>1, <1>2 DEF OneAtATime
<1>7. OneAtATime'
  BY <1>4, <1>6 DEF OneAtATime, InFlight
<1>8. \A b \in Attempts : ~Refunding(b)' /\ (Refunding(b) <=> b = a /\ to = "REJECTED")
  BY <1>2, <1>4, <1>6 DEF Refunding, InFlight
<1> HIDE DEF a, to
<1>9. status'[a] = to /\ \A b \in Attempts \ {a} : status'[b] = status[b]
  BY <1>2, <1>5 DEF Safe, TypeOK
<1>10. RefundInv'
  BY <1>1, <1>2, <1>5, <1>8, <1>9 DEF RefundInv
<1>11. OwnKey' /\ Progress'
  BY <1>1, <1>2, <1>5, <1>9 DEF OwnKey, Progress
<1> QED BY <1>7, <1>10, <1>11

LEMMA NextCareful ==
  ASSUME Safe, Careful, [Next]_vars
  PROVE  Careful'
<1>1. ASSUME NEW a \in Attempts, Fail(a)
      PROVE  Careful'
  BY <1>1 DEF Fail, Careful
<1>2. ASSUME NEW d \in Decisions, FailDecision(d)
      PROVE  Careful'
  BY <1>2 DEF FailDecision, Careful
<1>3. CASE UNCHANGED vars
  BY <1>3 DEF vars, Careful, OneAtATime, OwnKey, Progress, RefundInv, Refunding, InFlight
<1> QED
  BY <1>1, <1>2, <1>3, AttemptCareful, ReadRowCareful, RefundCareful, UpdateStatusCareful
     DEF Next, DecisionStep, Quiescent

\* What waits for an admin is out of the wallet, once, as long as admins take
\* turns and nothing fails (withdrawal.service.ts 27-28).
THEOREM PendingIsLocked == Spec => []LockedWhilePending
<1>1. Init => Safe /\ Careful
  BY InitSafe, InitCareful
<1>2. Safe /\ Careful /\ [Next]_vars => Safe' /\ Careful'
  BY NextSafe, NextCareful
<1>3. Safe /\ Careful => LockedWhilePending
  BY DEF Safe, TypeOK, AttemptStates, Careful, Progress, RefundInv, Refunding, Rejecting,
         InFlight, LockedWhilePending
<1> QED BY <1>1, <1>2, <1>3, PTL DEF Spec

\* And it is settled once: returned or paid out, never both, never twice
\* (withdrawal.service.ts 148-216).
THEOREM SettledOnlyOnce == Spec => []SettledOnce
<1>1. Init => Safe /\ Careful
  BY InitSafe, InitCareful
<1>2. Safe /\ Careful /\ [Next]_vars => Safe' /\ Careful'
  BY NextSafe, NextCareful
<1>3. Safe /\ Careful => SettledOnce
  <2> SUFFICES ASSUME Safe, Careful, calm, NEW a \in Attempts
               PROVE  refunds[a] + (IF status[a] = "APPROVED" THEN 1 ELSE 0)
                        <= (IF a \in deducted THEN 1 ELSE 0)
    BY DEF SettledOnce
  <2>1. status[a] # "none" <=> at[a] = "done"
    BY DEF Safe, TypeOK, AttemptStates, Careful, Progress
  <2>2. Refunding(a) => status[a] = "PENDING"
    BY DEF Careful, OneAtATime, Refunding, InFlight
  <2>3. refunds[a] = IF status[a] = "REJECTED" \/ Refunding(a) THEN 1 ELSE 0
    BY DEF Careful, RefundInv
  <2>4. status[a] # "none" => a \in deducted
    BY <2>1 DEF Careful, Progress
  <2> QED BY <2>2, <2>3, <2>4
<1> QED BY <1>1, <1>2, <1>3, PTL DEF Spec
=============================================================================
