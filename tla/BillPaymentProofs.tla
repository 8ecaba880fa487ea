------------------------- MODULE BillPaymentProofs -------------------------
(***************************************************************************)
(* Theorems about BillPayment, the service fees and the lists of bills,    *)
(* for every household, unit, bill, title, amount and number of payments.  *)
(***************************************************************************)
EXTENDS BillListings, SumTheorems, TLAPS

-----------------------------------------------------------------------------
(* The arithmetic of the service fee.                                      *)

\* What an integer quotient is between.
LEMMA DivisionBounds ==
    ASSUME NEW n \in Nat, NEW t \in Nat, t > 0
    PROVE  (n \div t) \in Nat /\ (n \div t) * t <= n /\ n < (n \div t) * t + t
BY Z3

\* A multiple of the divisor goes through a division.
LEMMA DivisionShifts ==
    ASSUME NEW n \in Nat, NEW t \in Nat, t > 0, NEW p \in Nat
    PROVE  (n + p * t) \div t = (n \div t) + p
BY Z3

\* Products grow with their factors.
LEMMA ProductMonotone ==
    ASSUME NEW p \in Nat, NEW f \in Nat, NEW t \in Nat, f <= t
    PROVE  p * f \in Nat /\ p * f <= p * t
BY Z3

\* Quotients grow with the dividend.
LEMMA DivisionMonotone ==
    ASSUME NEW m \in Nat, NEW n \in Nat, m <= n, NEW t \in Nat, t > 0
    PROVE  (m \div t) <= (n \div t)
BY Z3

\* Whoever bears the fee of a cycle, what the resident is asked for is what the
\* operator and the estate receive together, and the operator gets no more than
\* its fee (service_charge_fees.py:38-71).
THEOREM BreakdownBalances ==
    ASSUME NEW base \in Nat, NEW fee \in Nat, NEW mode \in Modes
    PROVE  LET b == Breakdown(base, fee, mode) IN
           /\ b.resident_total = b.total_fee + b.estate_net
           /\ b.total_fee \in 0..fee
<1>1. (fee + 1) \div 2 \in 0..fee
  BY Z3
<1>2. ResidentFee(fee, mode) \in 0..fee
  BY <1>1 DEF ResidentFee, Modes
<1>3. AbsorbedFee(base, fee, mode) \in 0..(fee - ResidentFee(fee, mode))
  BY <1>2 DEF AbsorbedFee, Smaller, Modes
<1>4. AbsorbedFee(base, fee, mode) <= base
  BY <1>2 DEF AbsorbedFee, Smaller
<1> QED BY <1>2, <1>3, <1>4 DEF Breakdown, Larger

\* Up to the total, the part of a component that is paid is the proportional
\* one, rounded down (payment_service.py:268-273).
LEMMA ComponentIsProportional ==
    ASSUME NEW total \in Nat, total > 0, NEW fee \in Nat, fee <= total,
           NEW x \in Nat, x <= total
    PROVE  ComponentPaid(fee, x, total) = (x * fee) \div total
<1>1. CASE fee = 0 \/ x = 0
  <2>1. x * fee = 0
    BY <1>1, Z3
  <2>2. 0 \div total = 0
    BY Z3
  <2> QED BY <1>1, <2>1, <2>2 DEF ComponentPaid
<1>2. CASE fee > 0 /\ x = total
  <2>1. (0 + fee * total) \div total = (0 \div total) + fee
    BY DivisionShifts
  <2>2. 0 \div total = 0 /\ 0 + fee * total = x * fee
    BY <1>2, Z3
  <2> QED BY <1>2, <2>1, <2>2 DEF ComponentPaid
<1>3. CASE fee > 0 /\ x > 0 /\ x < total
  <2>1. x * fee \in Nat /\ fee * x <= fee * total
    BY ProductMonotone
  <2>2. x * fee = fee * x /\ fee * total \in Nat
    BY Z3
  <2>3. (x * fee) \div total <= (fee * total) \div total
    BY <2>1, <2>2, DivisionMonotone
  <2>4. (0 + fee * total) \div total = (0 \div total) + fee
    BY DivisionShifts
  <2>5. (fee * total) \div total = fee
    BY <2>4, Z3
  <2>6. (x * fee) \div total \in Nat
    BY <2>1, DivisionBounds
  <2> QED BY <1>3, <2>3, <2>5, <2>6 DEF ComponentPaid, Smaller
<1> QED BY <1>1, <1>2, <1>3

\* A further payment covers no less than nothing and no more than itself.
LEMMA PartIsBounded ==
    ASSUME NEW total \in Nat, total > 0, NEW fee \in Nat, fee <= total,
           NEW x \in Nat, NEW y \in Nat, NEW p \in Nat, x <= y, y <= x + p
    PROVE  ((y * fee) \div total) - ((x * fee) \div total) \in 0..p
<1>1. x * fee \in Nat /\ y * fee \in Nat /\ p * total \in Nat /\ p * fee <= p * total
  BY ProductMonotone
<1>2. x * fee <= y * fee
  BY Z3
<1>3. y * fee <= x * fee + p * fee
  BY Z3
<1>4. y * fee <= x * fee + p * total /\ x * fee + p * total \in Nat
  BY <1>1, <1>3
<1>5. (y * fee) \div total <= (x * fee + p * total) \div total
  BY <1>1, <1>4, DivisionMonotone
<1>6. (x * fee + p * total) \div total = ((x * fee) \div total) + p
  BY <1>1, DivisionShifts
<1>7. (x * fee) \div total <= (y * fee) \div total
  BY <1>1, <1>2, DivisionMonotone
<1>8. (x * fee) \div total \in Nat /\ (y * fee) \div total \in Nat
  BY <1>1, DivisionBounds
<1> QED BY <1>5, <1>6, <1>7, <1>8

\* Every instalment of a service charge is divided without remainder, neither
\* share is negative, and its fee is exactly what the paid part of the fee grew
\* by, so that the instalments together carry the whole fee and no more
\* (payment_service.py:276-289).
THEOREM InstalmentIsDivided ==
    ASSUME NEW total \in Nat, NEW configured \in Nat,
           NEW before \in Nat, NEW payment \in Nat, before + payment <= total
    PROVE  LET fee == FeeTotal(total, configured)
               share == FeeShare(fee, before, payment, total)
           IN /\ share \in 0..payment
              /\ share + EstateShare(fee, before, payment, total) = payment
              /\ ComponentPaid(fee, before, total) + share
                   = ComponentPaid(fee, before + payment, total)
<1> DEFINE fee == FeeTotal(total, configured)
           share == FeeShare(fee, before, payment, total)
           old == ComponentPaid(fee, before, total)
           new == ComponentPaid(fee, before + payment, total)
<1>1. fee \in Nat /\ fee <= total
  BY DEF FeeTotal, Larger, Smaller
<1>2. new - old \in 0..payment /\ old \in Nat /\ new \in Nat
  <2> HIDE DEF fee
  <2>1. CASE total = 0
    BY <2>1 DEF ComponentPaid
  <2>2. CASE total > 0
    <3>1. old = (before * fee) \div total /\ new = ((before + payment) * fee) \div total
      BY <1>1, <2>2, ComponentIsProportional
    <3>2. (((before + payment) * fee) \div total) - ((before * fee) \div total) \in 0..payment
      BY <1>1, <2>2, PartIsBounded
    <3>3. before * fee \in Nat /\ (before + payment) * fee \in Nat
      BY <1>1, ProductMonotone
    <3>4. (before * fee) \div total \in Nat /\ ((before + payment) * fee) \div total \in Nat
      BY <2>2, <3>3, DivisionBounds
    <3> HIDE DEF old, new
    <3> QED BY <3>1, <3>2, <3>4
  <2> QED BY <2>1, <2>2
<1>3. share = new - old
  <2> HIDE DEF fee
  <2>1. Smaller(total, before + payment) = before + payment
    BY DEF Smaller
  <2>2. share = Larger(0, new - old)
    BY <2>1 DEF FeeShare
  <2> HIDE DEF share, old, new
  <2> QED BY <1>2, <2>2 DEF Larger
<1>4. EstateShare(fee, before, payment, total) = Larger(0, payment - share)
  BY DEF EstateShare
<1> HIDE DEF fee, share, old, new
<1>5. /\ share \in 0..payment
      /\ share + EstateShare(fee, before, payment, total) = payment
      /\ old + share = new
  BY <1>2, <1>3, <1>4 DEF Larger
<1> QED BY <1>5 DEF fee, share, old, new

-----------------------------------------------------------------------------
(* Sessions that may overlap.                                              *)

\* A session that has planned its payment still holds the balance and the
\* amounts its checks were made on.
PlanCovered ==
    \A p \in Payments : pc[p] \in {"planned", "receipted"} => snap[p] >= amount[p]

PlanFits ==
    \A p \in Payments : pc[p] \in {"planned", "receipted"} =>
        \A a \in Assignments : seen[p].paid[a] + plan[p][a] <= Total[a]

\* A session writes its receipt before or with its debit, and only a service
\* charge is ever between the two.
ReceiptOrder ==
    \A p \in Payments :
        /\ pc[p] \in {"new", "loaded", "planned"} => ~ receipt[p] /\ ~ debited[p]
        /\ pc[p] = "receipted" => receipt[p] /\ ~ debited[p] /\ IsSplit(p)

\* What the sessions must remember for the bills and the wallets to be safe:
\* the properties alone do not say that what was checked is what is written.
BillInv ==
    /\ TypeOK
    /\ PlanCovered /\ WalletNeverOverdrawn
    /\ PlanFits /\ NeverOverpaid
    /\ ReceiptOrder /\ ReceiptsExplainDebits

\* What is read from the tables is a view of them.
LEMMA RowsType == TypeOK => Rows \in View
BY DEF TypeOK, Rows, View

\* Nothing paid is an amount of each assignment.
LEMMA NothingType == Nothing \in [Assignments -> Nat]
BY DEF Nothing

\* The invariant holds at the start.
LEMMA InitHolds == Init => BillInv
<1> SUFFICES ASSUME Init PROVE BillInv
  OBVIOUS
<1> USE BillsAreKobo DEF Init
<1>1. TypeOK
  <2>1. Rows \in View
    BY DEF Rows, View, Nothing, States
  <2> QED BY <2>1 DEF TypeOK, Nothing, States
<1>2. PlanCovered /\ PlanFits /\ WalletNeverOverdrawn /\ NeverOverpaid
  BY DEF PlanCovered, PlanFits, WalletNeverOverdrawn, NeverOverpaid, Nothing
<1>3. ReceiptOrder /\ ReceiptsExplainDebits
  BY DEF ReceiptOrder, ReceiptsExplainDebits
<1> QED BY <1>1, <1>2, <1>3 DEF BillInv

\* Passing the checks keeps the invariant, when every share fits.
LEMMA PlannedHolds ==
    ASSUME BillInv, NEW p \in Payments, NEW n \in Nat,
           NEW shares \in [Assignments -> Nat], NEW type \in Kinds \cup {"none"},
           \A a \in Assignments : shares[a] <= Left(a),
           Planned(p, n, shares, type)
    PROVE  BillInv'
<1> USE DEF BillInv, TypeOK, Planned
<1>1. TypeOK'
  BY RowsType DEF rows
<1>2. PlanCovered' /\ WalletNeverOverdrawn'
  BY DEF PlanCovered, WalletNeverOverdrawn, Covers, rows
<1>3. PlanFits' /\ NeverOverpaid'
  <2>1. \A a \in Assignments : paid[a] + shares[a] <= Total[a]
    BY BillsAreKobo DEF Left
  <2>2. seen'[p].paid = paid /\ plan'[p] = shares
    BY DEF Rows
  <2>3. \A q \in Payments \ {p} : seen'[q] = seen[q] /\ plan'[q] = plan[q] /\ pc'[q] = pc[q]
    OBVIOUS
  <2>4. NeverOverpaid'
    BY DEF NeverOverpaid, rows
  <2> QED BY <2>1, <2>2, <2>3, <2>4 DEF PlanFits
<1>4. ReceiptOrder' /\ ReceiptsExplainDebits'
  <2>1. \A q \in Payments : pc[q] = "receipted" => IsSplit(q)'
    BY DEF ReceiptOrder, IsSplit
  <2>2. \A q \in Payments : receipt[q] => q # p /\ (IsSplit(q) => IsSplit(q)')
    BY DEF ReceiptOrder, IsSplit
  <2> QED BY <2>1, <2>2 DEF ReceiptOrder, ReceiptsExplainDebits
<1> QED BY <1>1, <1>2, <1>3, <1>4

LEMMA PlanHolds ==
    ASSUME BillInv, NEW p \in Payments, Plan(p)
    PROVE  BillInv'
<1> USE BillsAreKobo DEF BillInv, TypeOK
<1>1. ASSUME NEW a \in Assignments, NEW n \in Amounts, NEW type \in Kinds \cup {"none"},
             Fits(a, n), Planned(p, n, OnlyTo(a, n), type)
      PROVE  BillInv'
  <2>1. OnlyTo(a, n) \in [Assignments -> Nat]
    BY DEF OnlyTo, Nothing
  <2>2. \A b \in Assignments : OnlyTo(a, n)[b] <= Left(b)
    BY <1>1 DEF OnlyTo, Nothing, Fits, Left, NeverOverpaid
  <2> HIDE DEF BillInv
  <2> QED BY <1>1, <2>1, <2>2, PlannedHolds
<1>2. ASSUME NEW type \in Kinds, PlanOldestFirst(p, type) PROVE BillInv'
  <2>0. PICK n \in Amounts : \E shares \in [Outstanding(type) -> 0..n] :
           /\ OldestFirst(type, n, shares)
           /\ Planned(p, n, [a \in Assignments |->
                               IF a \in Outstanding(type) THEN shares[a] ELSE 0], type)
    BY <1>2 DEF PlanOldestFirst
  <2>1. PICK shares \in [Outstanding(type) -> 0..n] :
           /\ OldestFirst(type, n, shares)
           /\ Planned(p, n, [a \in Assignments |->
                               IF a \in Outstanding(type) THEN shares[a] ELSE 0], type)
    BY <2>0
  <2> DEFINE all == [a \in Assignments |-> IF a \in Outstanding(type) THEN shares[a] ELSE 0]
  <2>2. all \in [Assignments -> Nat]
    OBVIOUS
  <2>3. \A a \in Assignments : all[a] <= Left(a)
    BY <2>1 DEF OldestFirst, Left, NeverOverpaid
  <2> HIDE DEF BillInv, all
  <2>4. Planned(p, n, all, type)
    BY <2>1 DEF all
  <2> QED BY <2>2, <2>3, <2>4, PlannedHolds
<1>3. CASE PlanRent(p)
  BY <1>1, <1>3 DEF PlanRent, Outstanding, Kinds
<1>4. CASE PlanAssignment(p)
  BY <1>1, <1>4 DEF PlanAssignment
<1> QED BY <1>2, <1>3, <1>4 DEF Plan, PlanServiceCharges, PlanEstateBills, Kinds

\* Writing a plan keeps the types and the totals: either the row already holds
\* the value, or it gets the one that was checked.
LEMMA ApplyHolds ==
    ASSUME BillInv, NEW p \in Payments, ApplyPlan(p), pc[p] \in {"planned", "receipted"}
    PROVE  /\ paid' \in [Assignments -> Nat]
           /\ status' \in [Assignments -> States]
           /\ NeverOverpaid'
<1> USE BillsAreKobo DEF BillInv, TypeOK, ApplyPlan, Flushed, NewPaid
<1>1. seen[p] \in View /\ plan[p] \in [Assignments -> Nat]
  OBVIOUS
<1>2. \A a \in Assignments : seen[p].paid[a] + plan[p][a] \in Nat
  BY <1>1 DEF View
<1>3. paid' \in [Assignments -> Nat]
  BY <1>2
<1>4. status' \in [Assignments -> States]
  BY DEF NewStatus, States
<1>5. NeverOverpaid'
  BY <1>2 DEF NeverOverpaid, PlanFits
<1> QED BY <1>3, <1>4, <1>5

LEMMA DebitHolds ==
    ASSUME BillInv, NEW p \in Payments, DebitPayer(p), pc[p] \in {"planned", "receipted"}
    PROVE  /\ balance' \in [Users -> Int]
           /\ debited' \in [Payments -> BOOLEAN]
           /\ WalletNeverOverdrawn'
<1> USE DEF BillInv, TypeOK
<1> DEFINE new == Flushed(balance[Payer[p]], snap[p], snap[p] - amount[p])
<1>1. Payer[p] \in Users
  BY BillsAreKobo
<1>2. new \in Int /\ new >= 0
  BY <1>1 DEF Flushed, PlanCovered, WalletNeverOverdrawn
<1>3. balance' = [balance EXCEPT ![Payer[p]] = new] /\ debited' = [debited EXCEPT ![p] = TRUE]
  BY DEF DebitPayer
<1> HIDE DEF new
<1> QED BY <1>1, <1>2, <1>3 DEF WalletNeverOverdrawn

LEMMA PayHolds ==
    ASSUME BillInv, NEW p \in Payments, Pay(p)
    PROVE  BillInv'
<1> USE DEF BillInv, TypeOK, Pay
<1>1. nextRentDue' \in Nat
  <2>1. seen[p].next \in Nat
    BY DEF View
  <2>2. \A a \in Assignments : Candidate(p, a) \in Nat
    BY <2>1, BillsAreKobo DEF Candidate
  <2>3. CASE \E a \in Assignments : PaysOff(p, a)
    <3>1. (CHOOSE a \in Assignments : PaysOff(p, a)) \in Assignments
      BY <2>3
    <3> QED BY <2>2, <2>3, <3>1 DEF Flushed
  <2> QED BY <2>3
<1>2. TypeOK' /\ WalletNeverOverdrawn' /\ NeverOverpaid'
  BY <1>1, ApplyHolds, DebitHolds
<1>3. PlanCovered' /\ PlanFits'
  BY DEF PlanCovered, PlanFits
<1>4. ReceiptOrder' /\ ReceiptsExplainDebits'
  <2>1. \A q \in Payments : IsSplit(q)' = IsSplit(q)
    BY DEF IsSplit
  <2>2. receipt'[p] /\ debited'[p]
    BY DEF DebitPayer
  <2>3. \A q \in Payments \ {p} : debited'[q] = debited[q] /\ receipt'[q] = receipt[q] /\ pc'[q] = pc[q]
    BY DEF DebitPayer
  <2> HIDE DEF IsSplit
  <2> QED BY <2>1, <2>2, <2>3 DEF ReceiptOrder, ReceiptsExplainDebits
<1> QED BY <1>2, <1>3, <1>4

LEMMA FinalizeHolds ==
    ASSUME BillInv, NEW p \in Payments, FinalizeSplit(p)
    PROVE  BillInv'
<1> USE DEF BillInv, TypeOK, FinalizeSplit
<1>1. TypeOK' /\ WalletNeverOverdrawn' /\ NeverOverpaid'
  BY ApplyHolds, DebitHolds
<1>2. PlanCovered' /\ PlanFits'
  BY DEF PlanCovered, PlanFits
<1>3. ReceiptOrder' /\ ReceiptsExplainDebits'
  <2>1. \A q \in Payments : IsSplit(q)' = IsSplit(q)
    BY DEF IsSplit
  <2>2. receipt'[p] /\ debited'[p]
    BY DEF DebitPayer, ReceiptOrder
  <2>3. \A q \in Payments \ {p} : debited'[q] = debited[q] /\ receipt'[q] = receipt[q] /\ pc'[q] = pc[q]
    BY DEF DebitPayer
  <2> HIDE DEF IsSplit
  <2> QED BY <2>1, <2>2, <2>3 DEF ReceiptOrder, ReceiptsExplainDebits
<1> QED BY <1>1, <1>2, <1>3

LEMMA OtherStepsHold ==
    ASSUME BillInv, NEW p \in Payments, Load(p) \/ PrepareSplit(p) \/ Abandon(p)
    PROVE  BillInv'
<1> USE DEF BillInv, TypeOK, rows
<1>1. \A q \in Payments : IsSplit(q)' = IsSplit(q)
  BY DEF IsSplit, Load, PrepareSplit, Abandon
<1>2. CASE Load(p)
  BY <1>1, <1>2, BillsAreKobo
     DEF Load, PlanCovered, PlanFits, WalletNeverOverdrawn, NeverOverpaid,
         ReceiptOrder, ReceiptsExplainDebits
<1>3. CASE PrepareSplit(p)
  BY <1>1, <1>3
     DEF PrepareSplit, PlanCovered, PlanFits, WalletNeverOverdrawn, NeverOverpaid,
         ReceiptOrder, ReceiptsExplainDebits
<1>4. CASE Abandon(p)
  BY <1>1, <1>4
     DEF Abandon, PlanCovered, PlanFits, WalletNeverOverdrawn, NeverOverpaid,
         ReceiptOrder, ReceiptsExplainDebits
<1> QED BY <1>2, <1>3, <1>4

\* Every step keeps the invariant.
LEMMA StepHolds == BillInv /\ [Next]_vars => BillInv'
<1> SUFFICES ASSUME BillInv, [Next]_vars PROVE BillInv'
  OBVIOUS
<1>1. CASE UNCHANGED vars
  BY <1>1 DEF vars, rows, session, BillInv, TypeOK, PlanCovered, PlanFits,
     WalletNeverOverdrawn, NeverOverpaid, ReceiptOrder, ReceiptsExplainDebits, IsSplit
<1>2. ASSUME NEW p \in Payments,
             \/ Load(p) \/ Plan(p) \/ Abandon(p)
             \/ Pay(p) \/ PrepareSplit(p) \/ FinalizeSplit(p)
      PROVE  BillInv'
  BY <1>2, PlanHolds, PayHolds, FinalizeHolds, OtherStepsHold
<1> QED BY <1>1, <1>2 DEF Next

\* It holds of every behaviour.
LEMMA BillsAreSafe == Spec => []BillInv
BY InitHolds, StepHolds, PTL DEF Spec

\* Rows and sessions keep their types.
THEOREM BillTypes == Spec => []TypeOK
BY BillsAreSafe, PTL DEF BillInv

\* However many payments of a household overlap, no assignment is ever paid
\* beyond its total: each session writes the sum it checked against the total
\* (payment_service.py:162, 493, 631, 724).
THEOREM NoBillIsOverpaid == Spec => []NeverOverpaid
BY BillsAreSafe, PTL DEF BillInv

\* Nor is any wallet overdrawn: each session writes the difference it checked
\* (payment_service.py:176, 380, 523, 735).
THEOREM NoWalletIsOverdrawn == Spec => []WalletNeverOverdrawn
BY BillsAreSafe, PTL DEF BillInv

\* A debit has its receipt, and a receipt without a debit is one that a service
\* charge left between its two commits (payment_service.py:346, 426).
THEOREM DebitsHaveReceipts == Spec => []ReceiptsExplainDebits
BY BillsAreSafe, PTL DEF BillInv

-----------------------------------------------------------------------------
(* Sessions that do not overlap.                                           *)

\* Only one session is in flight, and what it read is what is stored.
SerialInv ==
    /\ ~ Overlap
    /\ \A p, q \in Payments : InFlight(p) /\ InFlight(q) => p = q
    /\ \A p \in Payments : pc[p] \in {"planned", "receipted"} => seen[p] = Rows

\* Payments do not overlap.
Serial == ~ Overlap

\* Bills ask for something.
BillsAsk == \A a \in Assignments : Total[a] > 0

LEMMA SerialInit == Init /\ Serial => SerialInv
BY DEF Init, Serial, SerialInv, InFlight

LEMMA StatusInit == Init /\ BillsAsk => StatusTellsPaid
BY BillsAreKobo DEF Init, BillsAsk, StatusTellsPaid, Nothing

LEMMA SerialNext == BillInv /\ SerialInv /\ [Next]_vars => SerialInv'
<1> SUFFICES ASSUME BillInv, SerialInv, [Next]_vars PROVE SerialInv'
  OBVIOUS
<1> USE DEF SerialInv, InFlight
<1>t. TypeOK
  BY DEF BillInv
<1>1. CASE UNCHANGED vars
  BY <1>1 DEF vars, rows, session, Rows
<1>2. ASSUME NEW p \in Payments, Load(p) PROVE SerialInv'
  BY <1>2, <1>t DEF Load, TypeOK, rows, Rows
<1>3. ASSUME NEW p \in Payments, Abandon(p) PROVE SerialInv'
  BY <1>3, <1>t DEF Abandon, TypeOK, rows, Rows
<1>4. ASSUME NEW p \in Payments, NEW n, NEW shares, NEW type,
             Planned(p, n, shares, type)
      PROVE  SerialInv'
  BY <1>4, <1>t DEF Planned, TypeOK, rows, Rows
<1>5. ASSUME NEW p \in Payments, Plan(p) PROVE SerialInv'
  BY <1>4, <1>5 DEF Plan, PlanRent, PlanServiceCharges, PlanEstateBills, PlanAssignment, PlanOldestFirst
<1>6. ASSUME NEW p \in Payments, PrepareSplit(p) PROVE SerialInv'
  BY <1>6, <1>t DEF PrepareSplit, TypeOK, rows, Rows
<1>7. ASSUME NEW p \in Payments, Pay(p) \/ FinalizeSplit(p) PROVE SerialInv'
  <2>1. pc[p] \in {"planned", "receipted"} /\ pc' = [pc EXCEPT ![p] = "done"]
    BY <1>7 DEF Pay, FinalizeSplit
  <2>2. \A q \in Payments : pc'[q] \notin {"loaded", "planned", "receipted"}
    BY <2>1, <1>t DEF TypeOK
  <2> QED BY <2>2
<1> QED BY <1>1, <1>2, <1>3, <1>5, <1>6, <1>7 DEF Next

\* A payment that read the stored amounts leaves a status that tells them.
LEMMA ApplyTellsPaid ==
    ASSUME BillInv, SerialInv, BillsAsk, StatusTellsPaid,
           NEW p \in Payments, pc[p] \in {"planned", "receipted"}, ApplyPlan(p)
    PROVE  StatusTellsPaid'
<1> SUFFICES ASSUME NEW a \in Assignments
             PROVE  /\ status'[a] = "PAID" <=> paid'[a] = Total[a]
                    /\ status'[a] = "PENDING" <=> paid'[a] = 0
  BY DEF StatusTellsPaid
<1>1. /\ seen[p].paid = paid /\ seen[p].status = status
      /\ plan[p][a] \in Nat /\ paid[a] \in Nat /\ Total[a] \in Nat
      /\ paid[a] + plan[p][a] <= Total[a] /\ Total[a] > 0
  BY BillsAreKobo DEF BillInv, TypeOK, SerialInv, BillsAsk, Rows, PlanFits
<1>2. CASE plan[p][a] = 0
  BY <1>1, <1>2 DEF ApplyPlan, StatusTellsPaid
<1>3. CASE plan[p][a] > 0
  <2>1. paid'[a] = paid[a] + plan[p][a]
    BY <1>1, <1>3 DEF ApplyPlan, Flushed, NewPaid
  <2>2. status'[a] = IF paid[a] + plan[p][a] >= Total[a] THEN "PAID" ELSE "PARTIAL"
    BY <1>1, <1>3 DEF ApplyPlan, Flushed, NewStatus, NewPaid
  <2> QED BY <1>1, <1>3, <2>1, <2>2
<1> QED BY <1>1, <1>2, <1>3

LEMMA StatusNext ==
    BillInv /\ SerialInv /\ BillsAsk /\ StatusTellsPaid /\ [Next]_vars => StatusTellsPaid'
<1> SUFFICES ASSUME BillInv, SerialInv, BillsAsk, StatusTellsPaid, [Next]_vars
             PROVE  StatusTellsPaid'
  OBVIOUS
<1>1. ASSUME UNCHANGED rows PROVE StatusTellsPaid'
  BY <1>1 DEF rows, StatusTellsPaid
<1>2. CASE UNCHANGED vars
  BY <1>1, <1>2 DEF vars
<1>3. ASSUME NEW p \in Payments, Load(p) \/ Plan(p) \/ Abandon(p) \/ PrepareSplit(p)
      PROVE  StatusTellsPaid'
  BY <1>1, <1>3 DEF Load, Abandon, PrepareSplit, Plan, PlanRent, PlanServiceCharges,
     PlanEstateBills, PlanAssignment, PlanOldestFirst, Planned
<1>4. ASSUME NEW p \in Payments, Pay(p) \/ FinalizeSplit(p) PROVE StatusTellsPaid'
  BY <1>4, ApplyTellsPaid DEF Pay, FinalizeSplit
<1> QED BY <1>2, <1>3, <1>4 DEF Next

\* Without overlap, a bill is shown as PAID exactly when it is paid in full and
\* as PENDING exactly when nothing is (payment_service.py:182-186, 404-409).
THEOREM StatusIsRight == ASSUME BillsAsk PROVE Spec /\ Serial => []StatusTellsPaid
<1>1. Init => StatusTellsPaid
  BY StatusInit
<1>2. BillInv /\ SerialInv /\ StatusTellsPaid /\ [Next]_vars => StatusTellsPaid'
  BY StatusNext
<1>3. Spec /\ Serial => [](SerialInv /\ StatusTellsPaid)
  BY <1>1, <1>2, BillsAreSafe, SerialInit, SerialNext, PTL DEF Spec
<1> QED BY <1>3, PTL

LEMMA RentDateStep ==
    BillInv /\ SerialInv /\ [Next]_vars => [nextRentDue' >= nextRentDue]_vars
<1> SUFFICES ASSUME BillInv, SerialInv, [Next]_vars PROVE nextRentDue' >= nextRentDue
  OBVIOUS
<1>t. nextRentDue \in Nat /\ NextDue \in [Assignments -> Nat]
  BY BillsAreKobo DEF BillInv, TypeOK
<1>1. CASE nextRentDue' = nextRentDue
  BY <1>1, <1>t
<1>2. ASSUME NEW p \in Payments, Pay(p) PROVE nextRentDue' >= nextRentDue
  <2>1. seen[p].next = nextRentDue
    BY <1>2 DEF Pay, SerialInv, Rows
  <2>2. \A a \in Assignments : Candidate(p, a) \in Nat /\ Candidate(p, a) >= nextRentDue
    BY <2>1, <1>t DEF Candidate
  <2>3. CASE \E a \in Assignments : PaysOff(p, a)
    <3>1. (CHOOSE a \in Assignments : PaysOff(p, a)) \in Assignments
      BY <2>3
    <3> QED BY <1>2, <1>t, <2>2, <2>3, <3>1 DEF Pay, Flushed
  <2> QED BY <1>2, <1>t, <2>3 DEF Pay
<1>3. ASSUME NEW p \in Payments,
             Load(p) \/ Plan(p) \/ Abandon(p) \/ PrepareSplit(p) \/ FinalizeSplit(p)
      PROVE  nextRentDue' = nextRentDue
  BY <1>3 DEF Load, Abandon, PrepareSplit, FinalizeSplit, Plan, PlanRent, PlanServiceCharges,
     PlanEstateBills, PlanAssignment, PlanOldestFirst, Planned, rows
<1> QED BY <1>1, <1>2, <1>3 DEF Next, vars, rows

\* Without overlap, paying an old rent late never moves the unit's next rent
\* date back (payment_service.py:850).
THEOREM RentDateOnlyAdvances == Spec /\ Serial => RentDateNeverMovesBack
BY BillsAreSafe, SerialInit, SerialNext, RentDateStep, PTL DEF Spec, RentDateNeverMovesBack

-----------------------------------------------------------------------------
(* Sums over the sessions that were debited.                               *)

\* The sessions of which a wallet was debited, those of the wallet of u, and
\* what was debited from it.
Booked == {p \in Payments : debited[p]}
BookedOf(u) == {p \in Booked : Payer[p] = u}
SpentBy(u) == SumFunctionOnSet(amount, BookedOf(u))

\* What a session read as paid was debited by then; what it read of the balance
\* lacks no more than was debited.
SeenIsBacked ==
    \A p \in Payments : pc[p] \in {"planned", "receipted"} =>
        \A a \in Assignments : seen[p].paid[a] <= DebitedFor(a)

\* What a payment under way has read of a balance is short of no more than was
\* spent.
SnapNotOvercharged ==
    \A p \in Payments : InFlight(p) => snap[p] >= Opening[Payer[p]] - SpentBy(Payer[p])

\* The inductive invariant of the payments booked.
BackedInv == PaidIsBacked /\ SeenIsBacked /\ WalletNotOvercharged /\ SnapNotOvercharged

\* The sums are numbers.
LEMMA SumsAreInt ==
    ASSUME TypeOK
    PROVE  /\ IsFiniteSet(Booked) /\ \A u \in Users : IsFiniteSet(BookedOf(u))
           /\ \A a \in Assignments : DebitedFor(a) \in Int
           /\ \A u \in Users : SpentBy(u) \in Int
<1>1. IsFiniteSet(Booked) /\ \A u \in Users : IsFiniteSet(BookedOf(u))
  BY BillsAreKobo, FS_Subset DEF Booked, BookedOf
<1>2. ASSUME NEW a \in Assignments PROVE DebitedFor(a) \in Int
  <2>1. \A p \in Booked : [q \in Payments |-> plan[q][a]][p] \in Int
    BY DEF TypeOK, Booked
  <2> QED  BY <1>1, <2>1, SumIsInt DEF DebitedFor, Booked
<1>3. ASSUME NEW u \in Users PROVE SpentBy(u) \in Int
  <2>1. \A p \in BookedOf(u) : amount[p] \in Int
    BY DEF TypeOK, Booked, BookedOf
  <2> QED  BY <1>1, <2>1, SumIsInt DEF SpentBy
<1> QED  BY <1>1, <1>2, <1>3

\* The sums stay when no session is booked and the plans of those that were
\* booked stay.
LEMMA SumsStay ==
    ASSUME TypeOK, debited' = debited,
           \A p \in Booked : plan'[p] = plan[p] /\ amount'[p] = amount[p]
    PROVE  /\ \A a \in Assignments : DebitedFor(a)' = DebitedFor(a)
           /\ \A u \in Users : SpentBy(u)' = SpentBy(u)
<1>1. Booked' = Booked /\ \A u \in Users : BookedOf(u)' = BookedOf(u)
  BY DEF Booked, BookedOf
<1>2. ASSUME NEW a \in Assignments PROVE DebitedFor(a)' = DebitedFor(a)
  <2> DEFINE f == [q \in Payments |-> plan[q][a]]
             h == [q \in Payments |-> plan'[q][a]]
  <2>1. \A p \in Booked : f[p] = h[p]  BY DEF Booked
  <2>2. DebitedFor(a) = SumFunctionOnSet(f, Booked) /\ DebitedFor(a)' = SumFunctionOnSet(h, Booked)
    BY <1>1 DEF DebitedFor, Booked
  <2> HIDE DEF f, h
  <2> QED  BY <2>1, <2>2, SumsAreInt, SumAgrees
<1>3. ASSUME NEW u \in Users PROVE SpentBy(u)' = SpentBy(u)
  <2>1. \A p \in BookedOf(u) : amount[p] = amount'[p]  BY DEF BookedOf
  <2>2. SpentBy(u)' = SumFunctionOnSet(amount', BookedOf(u))  BY <1>1 DEF SpentBy
  <2> QED  BY <2>1, <2>2, SumsAreInt, SumAgrees DEF SpentBy
<1> QED  BY <1>2, <1>3

\* Booking a session adds its plan.
LEMMA SumsGrow ==
    ASSUME TypeOK, NEW p \in Payments, ~ debited[p], debited' = [debited EXCEPT ![p] = TRUE],
           plan' = plan, amount' = amount
    PROVE  /\ Booked' = Booked \cup {p}
           /\ \A a \in Assignments : DebitedFor(a)' = DebitedFor(a) + plan[p][a]
           /\ SpentBy(Payer[p])' = SpentBy(Payer[p]) + amount[p]
           /\ \A u \in Users \ {Payer[p]} : SpentBy(u)' = SpentBy(u)
<1>1. Booked' = Booked \cup {p} /\ p \notin Booked
  BY DEF TypeOK, Booked
<1>2. IsFiniteSet(Booked') /\ Booked' \ {p} = Booked
  BY <1>1, SumsAreInt, FS_AddElement
<1>3. ASSUME NEW a \in Assignments PROVE DebitedFor(a)' = DebitedFor(a) + plan[p][a]
  <2> DEFINE f == [q \in Payments |-> plan[q][a]]
  <2>1. \A q \in Booked' : f[q] \in Int  BY <1>1 DEF TypeOK, Booked
  <2>2. DebitedFor(a) = SumFunctionOnSet(f, Booked) /\ DebitedFor(a)' = SumFunctionOnSet(f, Booked')
    <3>1. DebitedFor(a) = SumFunctionOnSet(f, Booked)  BY DEF DebitedFor, Booked
    <3>2. [q \in Payments |-> plan'[q][a]] = f  OBVIOUS
    <3>3. DebitedFor(a)' = SumFunctionOnSet([q \in Payments |-> plan'[q][a]], Booked')
      BY DEF DebitedFor, Booked
    <3> QED  BY <3>1, <3>2, <3>3
  <2>3. f[p] = plan[p][a]  OBVIOUS
  <2> HIDE DEF f
  <2>4. SumFunctionOnSet(f, Booked') = SumFunctionOnSet(f, Booked) + f[p]
    BY <1>1, <1>2, <2>1, SumGrows
  <2> QED  BY <2>2, <2>3, <2>4
<1>4. SpentBy(Payer[p])' = SpentBy(Payer[p]) + amount[p]
  <2> DEFINE D == BookedOf(Payer[p])
             E == D \cup {p}
  <2>1. BookedOf(Payer[p])' = E /\ E \ {p} = D /\ p \in E
    BY <1>1 DEF BookedOf
  <2>2. IsFiniteSet(E) /\ \A q \in E : amount[q] \in Int
    <3>1. Payer[p] \in Users  BY BillsAreKobo
    <3>2. IsFiniteSet(D)  BY <3>1, SumsAreInt
    <3> HIDE DEF D
    <3>3. IsFiniteSet(E)  BY <3>2, FS_AddElement
    <3>4. \A q \in D : amount[q] \in Int  BY DEF D, TypeOK, BookedOf, Booked
    <3> QED  BY <3>3, <3>4 DEF TypeOK
  <2>3. SumFunctionOnSet(amount, E) = SumFunctionOnSet(amount, E \ {p}) + amount[p]
    <3> HIDE DEF E
    <3> QED  BY <2>1, <2>2, SumGrows
  <2> QED  BY <2>1, <2>3 DEF SpentBy
<1>5. ASSUME NEW u \in Users \ {Payer[p]} PROVE SpentBy(u)' = SpentBy(u)
  <2>1. BookedOf(u)' = BookedOf(u)  BY <1>1 DEF BookedOf
  <2>2. SpentBy(u)' = SumFunctionOnSet(amount, BookedOf(u)')  BY DEF SpentBy
  <2> QED  BY <2>1, <2>2 DEF SpentBy
<1> QED  BY <1>1, <1>3, <1>4, <1>5

\* It holds at the start.
LEMMA BackedInit == Init => BackedInv
<1> SUFFICES ASSUME Init PROVE BackedInv
  OBVIOUS
<1>1. Booked = {} /\ \A u \in Users : BookedOf(u) = {}
  BY DEF Init, Booked, BookedOf
<1>2. \A a \in Assignments : DebitedFor(a) = 0
  BY <1>1, SumOfNone DEF DebitedFor, Booked
<1>3. \A u \in Users : SpentBy(u) = 0
  BY <1>1, SumOfNone DEF SpentBy
<1>4. \A u \in Users : {p \in Payments : debited[p] /\ Payer[p] = u} = BookedOf(u)
  BY DEF BookedOf, Booked
<1>5. PaidIsBacked /\ SeenIsBacked /\ SnapNotOvercharged
  BY <1>2 DEF PaidIsBacked, SeenIsBacked, SnapNotOvercharged, Init, Nothing, InFlight
<1>6. WalletNotOvercharged
  <2>1. \A u \in Users : balance[u] >= Opening[u] - SpentBy(u)
    BY <1>3, BillsAreKobo DEF Init
  <2> QED  BY <1>4, <2>1 DEF WalletNotOvercharged, SpentBy
<1> QED  BY <1>5, <1>6 DEF BackedInv

\* Steps that neither book nor write keep it: what is read is what is stored.
LEMMA ReadsAreBacked ==
    ASSUME TypeOK, BackedInv, UNCHANGED <<balance, paid, debited>>,
           \A p \in Booked : plan'[p] = plan[p] /\ amount'[p] = amount[p],
           \A p \in Payments :
              /\ pc'[p] \in {"planned", "receipted"} =>
                    \/ seen'[p].paid = paid
                    \/ seen'[p] = seen[p] /\ pc[p] \in {"planned", "receipted"}
              /\ InFlight(p)' =>
                    \/ snap'[p] = balance[Payer[p]]
                    \/ snap'[p] = snap[p] /\ InFlight(p)
    PROVE  BackedInv'
<1>1. /\ \A a \in Assignments : DebitedFor(a)' = DebitedFor(a)
      /\ \A u \in Users : SpentBy(u)' = SpentBy(u)
  BY SumsStay
<1>2. \A u \in Users : {p \in Payments : debited[p] /\ Payer[p] = u} = BookedOf(u)
  BY DEF BookedOf, Booked
<1>3. \A u \in Users : balance[u] >= Opening[u] - SpentBy(u)
  BY <1>2 DEF BackedInv, WalletNotOvercharged, SpentBy
<1>4. PaidIsBacked' /\ SeenIsBacked'
  BY <1>1 DEF BackedInv, PaidIsBacked, SeenIsBacked
<1>5. WalletNotOvercharged'
  <2>1. \A u \in Users : SumFunctionOnSet(amount, {p \in Payments : debited[p] /\ Payer[p] = u})'
                            = SpentBy(u)'
    BY DEF SpentBy, BookedOf, Booked
  <2> QED  BY <1>1, <1>3, <2>1 DEF WalletNotOvercharged
<1>6. SnapNotOvercharged'
  BY <1>1, <1>3, BillsAreKobo DEF BackedInv, SnapNotOvercharged
<1> QED  BY <1>4, <1>5, <1>6 DEF BackedInv

\* The step that writes a plan.
LEMMA BookingIsBacked ==
    ASSUME BillInv, BackedInv, NEW p \in Payments, pc[p] \in {"planned", "receipted"},
           ApplyPlan(p), DebitPayer(p), pc' = [pc EXCEPT ![p] = "done"],
           UNCHANGED <<snap, seen, amount, plan>>
    PROVE  BackedInv'
<1>t. TypeOK /\ ~ debited[p] /\ Payer[p] \in Users
  BY BillsAreKobo DEF BillInv, ReceiptOrder
<1>1. /\ \A a \in Assignments : DebitedFor(a)' = DebitedFor(a) + plan[p][a]
      /\ SpentBy(Payer[p])' = SpentBy(Payer[p]) + amount[p]
      /\ \A u \in Users \ {Payer[p]} : SpentBy(u)' = SpentBy(u)
  BY <1>t, SumsGrow DEF DebitPayer
<1>2. /\ \A a \in Assignments : DebitedFor(a) \in Int /\ plan[p][a] \in Nat
      /\ \A u \in Users : SpentBy(u) \in Int
      /\ amount[p] \in Nat
  BY <1>t, SumsAreInt DEF TypeOK
<1>3. PaidIsBacked'
  <2> SUFFICES ASSUME NEW a \in Assignments PROVE paid'[a] <= DebitedFor(a)'
    BY DEF PaidIsBacked
  <2>1. paid[a] \in Nat /\ paid[a] <= DebitedFor(a) /\ seen[p].paid[a] \in Nat
        /\ seen[p].paid[a] <= DebitedFor(a)
    BY <1>t DEF BackedInv, PaidIsBacked, SeenIsBacked, TypeOK, View
  <2>2. paid'[a] = paid[a] \/ paid'[a] = seen[p].paid[a] + plan[p][a]
    BY DEF ApplyPlan, Flushed, NewPaid
  <2> QED  BY <1>1, <1>2, <2>1, <2>2
<1>4. SeenIsBacked'
  <2> SUFFICES ASSUME NEW q \in Payments, pc'[q] \in {"planned", "receipted"},
                      NEW a \in Assignments
               PROVE  seen[q].paid[a] <= DebitedFor(a)'
    BY DEF SeenIsBacked
  <2>1. pc[q] \in {"planned", "receipted"}
    BY <1>t DEF TypeOK
  <2>2. seen[q].paid[a] \in Nat /\ seen[q].paid[a] <= DebitedFor(a)
    BY <1>t, <2>1 DEF BackedInv, SeenIsBacked, TypeOK, View
  <2> QED  BY <1>1, <1>2, <2>2
<1>5. \A u \in Users : SpentBy(u)' >= SpentBy(u)
  BY <1>1, <1>2
<1>6. WalletNotOvercharged'
  <2>1. \A u \in Users : {q \in Payments : debited[q] /\ Payer[q] = u} = BookedOf(u)
                         /\ {q \in Payments : debited'[q] /\ Payer[q] = u} = BookedOf(u)'
    BY DEF BookedOf, Booked
  <2> SUFFICES ASSUME NEW u \in Users PROVE balance'[u] >= Opening[u] - SpentBy(u)'
    BY <2>1 DEF WalletNotOvercharged, SpentBy
  <2>2. balance[u] >= Opening[u] - SpentBy(u) /\ balance[u] \in Int /\ Opening[u] \in Int
    BY <1>t, <2>1, BillsAreKobo DEF BackedInv, WalletNotOvercharged, SpentBy, TypeOK
  <2>3. CASE u # Payer[p] \/ balance'[u] = balance[u]
    <3>1. balance'[u] = balance[u]  BY <1>t, <2>3 DEF DebitPayer, TypeOK
    <3>2. SpentBy(u)' \in Int  BY <1>1, <1>2, <1>t
    <3> QED  BY <1>2, <1>5, <2>2, <3>1, <3>2
  <2>4. CASE u = Payer[p] /\ balance'[u] # balance[u]
    <3>1. balance'[u] = snap[p] - amount[p]
      BY <1>t, <2>4 DEF DebitPayer, TypeOK, Flushed
    <3>2. snap[p] \in Int /\ snap[p] >= Opening[u] - SpentBy(u)
      BY <1>t, <2>4 DEF BackedInv, SnapNotOvercharged, InFlight, TypeOK
    <3> QED  BY <1>1, <1>2, <2>2, <2>4, <3>1, <3>2
  <2> QED  BY <2>3, <2>4
<1>7. SnapNotOvercharged'
  <2> SUFFICES ASSUME NEW q \in Payments, InFlight(q)'
               PROVE  snap[q] >= Opening[Payer[q]] - SpentBy(Payer[q])'
    BY DEF SnapNotOvercharged
  <2>1. InFlight(q) /\ Payer[q] \in Users
    BY <1>t, BillsAreKobo DEF InFlight, TypeOK
  <2>2. snap[q] \in Int /\ snap[q] >= Opening[Payer[q]] - SpentBy(Payer[q])
        /\ Opening[Payer[q]] \in Int
    BY <1>t, <2>1, BillsAreKobo DEF BackedInv, SnapNotOvercharged, TypeOK
  <2>3. SpentBy(Payer[q])' \in Int /\ SpentBy(Payer[q])' >= SpentBy(Payer[q])
    BY <1>1, <1>2, <1>5, <1>t, <2>1
  <2> QED  BY <1>2, <2>1, <2>2, <2>3
<1> QED  BY <1>3, <1>4, <1>6, <1>7 DEF BackedInv

\* Every step keeps it.
LEMMA BackedStep == BillInv /\ BackedInv /\ [Next]_vars => BackedInv'
<1> SUFFICES ASSUME BillInv, BackedInv, [Next]_vars PROVE BackedInv'
  OBVIOUS
<1>t. TypeOK /\ \A p \in Payments : p \in Booked => pc[p] = "done"
  BY DEF BillInv, ReceiptOrder, TypeOK, Booked
<1>1. CASE UNCHANGED vars
  BY <1>t, <1>1, ReadsAreBacked DEF vars, rows, session, InFlight
<1>2. ASSUME NEW p \in Payments, Load(p) \/ Abandon(p) \/ PrepareSplit(p) PROVE BackedInv'
  BY <1>t, <1>2, ReadsAreBacked DEF TypeOK, Load, Abandon, PrepareSplit, rows, InFlight
<1>3. ASSUME NEW p \in Payments, NEW n, NEW shares, NEW type,
             Planned(p, n, shares, type)
      PROVE  BackedInv'
  BY <1>t, <1>3, ReadsAreBacked DEF TypeOK, Planned, rows, InFlight, Rows
<1>4. ASSUME NEW p \in Payments, Plan(p) PROVE BackedInv'
  BY <1>3, <1>4 DEF Plan, PlanRent, PlanServiceCharges, PlanEstateBills, PlanAssignment, PlanOldestFirst
<1>5. ASSUME NEW p \in Payments, Pay(p) \/ FinalizeSplit(p) PROVE BackedInv'
  BY <1>5, BookingIsBacked DEF Pay, FinalizeSplit
<1> QED  BY <1>1, <1>2, <1>4, <1>5 DEF Next

\* It holds of every behaviour.
LEMMA BillsAreBacked == Spec => []BackedInv
BY BillsAreSafe, BackedInit, BackedStep, PTL DEF Spec

\* Whatever overlaps, what an assignment shows as paid was debited for it: a
\* payment may be lost, none is invented (payment_service.py:182, 404).
THEOREM NoPaymentIsInvented == Spec => []PaidIsBacked
BY BillsAreBacked, PTL DEF BackedInv

\* Whatever overlaps, a wallet is short of no more than what was debited from it:
\* a debit may be lost, none is made twice (payment_service.py:189, 426).
THEOREM NoDebitIsDoubled == Spec => []WalletNotOvercharged
BY BillsAreBacked, PTL DEF BackedInv

-----------------------------------------------------------------------------
(* Where the money is, when sessions do not overlap.                       *)

\* A session still holds the balance that is stored, and divides the amount.
PlanIsExact ==
    /\ \A p \in Payments : InFlight(p) => snap[p] = balance[Payer[p]]
    /\ \A p \in Payments : pc[p] \in {"planned", "receipted"} =>
          SumFunctionOnSet(plan[p], Assignments) = amount[p]

\* The inductive invariant of the money of a household.
MoneyInv == PlanIsExact /\ MoneyIsConserved

\* Conservation, as sums over all residents and assignments.
LEMMA SumsOfRows ==
    TypeOK => MoneyIsConserved =
        (SumFunctionOnSet(balance, Users) + SumFunctionOnSet(paid, Assignments)
            = SumFunctionOnSet(Opening, Users))
<1> SUFFICES ASSUME TypeOK
             PROVE  /\ DOMAIN balance = Users /\ DOMAIN paid = Assignments
                    /\ DOMAIN Opening = Users
  BY DEF MoneyIsConserved, SumFunction
<1> QED  BY BillsAreKobo DEF TypeOK

\* It holds at the start.
LEMMA MoneyInit == Init => MoneyInv
<1> SUFFICES ASSUME Init PROVE MoneyInv
  OBVIOUS
<1>1. PlanIsExact  BY DEF Init, PlanIsExact, InFlight
<1>2. SumFunctionOnSet(paid, Assignments) = 0
  BY BillsAreKobo, SumOfZeros DEF Init, Nothing
<1>3. SumFunctionOnSet(Opening, Users) \in Int
  BY BillsAreKobo, SumIsInt
<1>4. TypeOK  BY InitHolds DEF BillInv
<1>5. SumFunctionOnSet(balance, Users) + SumFunctionOnSet(paid, Assignments)
        = SumFunctionOnSet(Opening, Users)
  BY <1>2, <1>3 DEF Init
<1> QED  BY <1>1, <1>4, <1>5, SumsOfRows DEF MoneyInv

\* What goes to one assignment, or to the outstanding ones of a type, is the
\* amount.
LEMMA OnlyToIsTheAmount ==
    ASSUME NEW a \in Assignments, NEW n \in Nat
    PROVE  SumFunctionOnSet(OnlyTo(a, n), Assignments) = n
<1>1. SumFunctionOnSet(Nothing, Assignments) = 0
  BY BillsAreKobo, SumOfZeros DEF Nothing
<1>2. /\ \A b \in Assignments : Nothing[b] \in Int /\ OnlyTo(a, n)[b] \in Int
      /\ \A b \in Assignments \ {a} : OnlyTo(a, n)[b] = Nothing[b]
      /\ Nothing[a] = 0 /\ OnlyTo(a, n)[a] = n
  BY DEF Nothing, OnlyTo
<1>3. SumFunctionOnSet(OnlyTo(a, n), Assignments)
        = SumFunctionOnSet(Nothing, Assignments) - Nothing[a] + OnlyTo(a, n)[a]
  <2>1. IsFiniteSet(Assignments)  BY BillsAreKobo
  <2> DEFINE f == Nothing
             h == OnlyTo(a, n)
  <2>2. /\ \A b \in Assignments : f[b] \in Int /\ h[b] \in Int
        /\ \A b \in Assignments \ {a} : h[b] = f[b]
    BY <1>2
  <2> HIDE DEF f, h
  <2>3. SumFunctionOnSet(h, Assignments) = SumFunctionOnSet(f, Assignments) - f[a] + h[a]
    BY <2>1, <2>2, SumUpdates
  <2> QED  BY <2>3 DEF f, h
<1> QED  BY <1>1, <1>2, <1>3

\* Shares of some assignments add up to the same over all of them.
LEMMA SharesAreTheAmount ==
    ASSUME NEW S \in SUBSET Assignments, NEW n \in Nat, NEW shares \in [S -> 0..n]
    PROVE  SumFunctionOnSet([a \in Assignments |-> IF a \in S THEN shares[a] ELSE 0], Assignments)
              = SumFunction(shares)
<1> DEFINE all == [a \in Assignments |-> IF a \in S THEN shares[a] ELSE 0]
<1>1. /\ \A a \in Assignments : all[a] \in Int
      /\ \A a \in Assignments \ S : all[a] = 0
      /\ \A a \in S : all[a] = shares[a]
  OBVIOUS
<1>2. IsFiniteSet(S)  BY BillsAreKobo, FS_Subset
<1> HIDE DEF all
<1>3. SumFunctionOnSet(all, Assignments) = SumFunctionOnSet(all, S)
  BY <1>1, BillsAreKobo, SumExtends
<1>4. SumFunctionOnSet(all, S) = SumFunctionOnSet(shares, S)
  BY <1>1, <1>2, SumAgrees
<1>5. SumFunction(shares) = SumFunctionOnSet(shares, S)
  BY DEF SumFunction
<1> QED  BY <1>3, <1>4, <1>5 DEF all

\* A payment plans what it was asked to pay.
LEMMA PlannedIsExact ==
    ASSUME BillInv, MoneyInv, NEW p \in Payments, NEW n \in Nat,
           NEW shares, SumFunctionOnSet(shares, Assignments) = n,
           NEW type, Planned(p, n, shares, type)
    PROVE  MoneyInv'
<1>0. \A q \in Payments \ {p} : pc'[q] = pc[q] /\ plan'[q] = plan[q] /\ amount'[q] = amount[q]
  BY DEF Planned
<1>1. PlanIsExact'
  <2>1. pc[p] = "loaded" /\ plan'[p] = shares /\ amount'[p] = n
    BY DEF Planned, BillInv, TypeOK
  <2>2. snap' = snap /\ balance' = balance  BY DEF Planned, rows
  <2>3. \A q \in Payments : InFlight(q)' => InFlight(q)
    BY <1>0, <2>1 DEF InFlight
  <2> QED  BY <1>0, <2>1, <2>2, <2>3 DEF MoneyInv, PlanIsExact
<1>2. MoneyIsConserved'
  BY DEF MoneyInv, MoneyIsConserved, Planned, rows
<1> QED  BY <1>1, <1>2 DEF MoneyInv

\* So it does in every way of paying.
LEMMA PlanKeepsMoney ==
    ASSUME BillInv, MoneyInv, NEW p \in Payments, Plan(p)
    PROVE  MoneyInv'
<1>n. Amounts \subseteq Nat  BY BillsAreKobo
<1>1. ASSUME NEW a \in Assignments, NEW n \in Amounts, NEW type,
             Planned(p, n, OnlyTo(a, n), type)
      PROVE  MoneyInv'
  <2>1. n \in Nat  BY <1>n
  <2> QED  BY <1>1, <2>1, OnlyToIsTheAmount, PlannedIsExact
<1>2. ASSUME NEW type, PlanOldestFirst(p, type) PROVE MoneyInv'
  <2> DEFINE S == Outstanding(type)
             all(shares) == [a \in Assignments |-> IF a \in S THEN shares[a] ELSE 0]
  <2>0. PICK n \in Amounts : \E shares \in [S -> 0..n] :
           OldestFirst(type, n, shares) /\ Planned(p, n, all(shares), type)
    BY <1>2 DEF PlanOldestFirst
  <2>1. PICK shares \in [S -> 0..n] : OldestFirst(type, n, shares) /\ Planned(p, n, all(shares), type)
    BY <2>0
  <2>2. n \in Nat /\ S \in SUBSET Assignments  BY <1>n DEF Outstanding
  <2>3. SumFunction(shares) = n  BY <2>1 DEF OldestFirst
  <2> HIDE DEF S
  <2>4. SumFunctionOnSet(all(shares), Assignments) = n
    BY <2>2, <2>3, SharesAreTheAmount
  <2>5. Planned(p, n, all(shares), type)  BY <2>1
  <2> HIDE DEF all
  <2> QED  BY <2>2, <2>4, <2>5, PlannedIsExact
<1>3. CASE PlanRent(p)  BY <1>1, <1>3 DEF PlanRent, Outstanding
<1>4. CASE PlanAssignment(p)  BY <1>1, <1>4 DEF PlanAssignment
<1> QED  BY <1>2, <1>3, <1>4 DEF Plan, PlanServiceCharges, PlanEstateBills

\* The step that writes a plan moves the amount.
LEMMA BookingMovesMoney ==
    ASSUME BillInv, SerialInv, MoneyInv, NEW p \in Payments, pc[p] \in {"planned", "receipted"},
           ApplyPlan(p), DebitPayer(p), pc' = [pc EXCEPT ![p] = "done"]
    PROVE  MoneyInv'
<1>t. /\ TypeOK /\ Payer[p] \in Users /\ amount[p] \in Nat /\ InFlight(p)
      /\ plan[p] \in [Assignments -> Nat]
      /\ IsFiniteSet(Users) /\ IsFiniteSet(Assignments)
  BY BillsAreKobo DEF BillInv, TypeOK, InFlight
<1>1. PlanIsExact'
  <2>1. \A q \in Payments : ~ InFlight(q)'
    BY <1>t DEF SerialInv, InFlight, TypeOK
  <2> QED  BY <2>1 DEF PlanIsExact, InFlight
<1>2. SumFunctionOnSet(balance', Users) = SumFunctionOnSet(balance, Users) - amount[p]
  <2>1. /\ balance'[Payer[p]] = balance[Payer[p]] - amount[p]
        /\ \A u \in Users \ {Payer[p]} : balance'[u] = balance[u]
        /\ \A u \in Users : balance[u] \in Int /\ balance'[u] \in Int
    BY <1>t DEF MoneyInv, PlanIsExact, DebitPayer, Flushed, TypeOK
  <2>2. SumFunctionOnSet(balance', Users) = SumFunctionOnSet(balance, Users) - balance[Payer[p]]
            + balance'[Payer[p]]
    <3> DEFINE u == Payer[p]
    <3>1. /\ \A y \in Users : balance[y] \in Int /\ balance'[y] \in Int
          /\ \A y \in Users \ {u} : balance'[y] = balance[y]
      BY <2>1
    <3>2. u \in Users  BY <1>t
    <3>3. IsFiniteSet(Users)  BY <1>t
    <3> HIDE DEF u
    <3>4. SumFunctionOnSet(balance', Users)
            = SumFunctionOnSet(balance, Users) - balance[u] + balance'[u]
      BY <3>1, <3>2, <3>3, SumUpdates
    <3> QED  BY <3>4 DEF u
  <2>3. SumFunctionOnSet(balance, Users) \in Int
    BY <1>t, <2>1, SumIsInt
  <2> QED  BY <1>t, <2>1, <2>2, <2>3
<1>3. SumFunctionOnSet(paid', Assignments) = SumFunctionOnSet(paid, Assignments) + amount[p]
  <2>1. \A a \in Assignments :
           paid[a] \in Int /\ plan[p][a] \in Int /\ paid'[a] = paid[a] + plan[p][a]
    <3> SUFFICES ASSUME NEW a \in Assignments
                 PROVE  paid[a] \in Int /\ plan[p][a] \in Int /\ paid'[a] = paid[a] + plan[p][a]
      OBVIOUS
    <3>1. seen[p].paid[a] = paid[a]  BY DEF SerialInv, Rows
    <3>2. paid[a] \in Nat /\ plan[p][a] \in Nat  BY <1>t DEF TypeOK
    <3> QED  BY <3>1, <3>2 DEF ApplyPlan, Flushed, NewPaid
  <2> QED  BY <1>t, <2>1, SumAdds DEF MoneyInv, PlanIsExact
<1>4. /\ SumFunctionOnSet(balance, Users) \in Int /\ SumFunctionOnSet(paid, Assignments) \in Int
      /\ SumFunctionOnSet(balance, Users) + SumFunctionOnSet(paid, Assignments)
            = SumFunctionOnSet(Opening, Users)
  <2>1. (\A u \in Users : balance[u] \in Int) /\ \A a \in Assignments : paid[a] \in Int
    BY <1>t DEF TypeOK
  <2>2. SumFunctionOnSet(balance, Users) \in Int /\ SumFunctionOnSet(paid, Assignments) \in Int
    BY <1>t, <2>1, SumIsInt
  <2>3. MoneyIsConserved  BY DEF MoneyInv
  <2> QED  BY <1>t, <2>2, <2>3, SumsOfRows
<1>5. DOMAIN balance' = Users /\ DOMAIN paid' = Assignments /\ DOMAIN Opening = Users
  BY <1>t, BillsAreKobo DEF DebitPayer, ApplyPlan, TypeOK
<1>6. SumFunctionOnSet(balance', Users) + SumFunctionOnSet(paid', Assignments)
        = SumFunctionOnSet(Opening, Users)
  BY <1>t, <1>2, <1>3, <1>4
<1>7. MoneyIsConserved'
  BY <1>5, <1>6 DEF MoneyIsConserved, SumFunction
<1> QED  BY <1>1, <1>7 DEF MoneyInv

\* Every step of serial payments keeps it.
LEMMA MoneyStep == BillInv /\ SerialInv /\ MoneyInv /\ [Next]_vars => MoneyInv'
<1> SUFFICES ASSUME BillInv, SerialInv, MoneyInv, [Next]_vars PROVE MoneyInv'
  OBVIOUS
<1>1. CASE UNCHANGED vars
  BY <1>1 DEF vars, rows, session, MoneyInv, PlanIsExact, MoneyIsConserved, InFlight
<1>2. ASSUME NEW p \in Payments, Load(p) \/ Abandon(p) \/ PrepareSplit(p) PROVE MoneyInv'
  BY <1>2 DEF Load, Abandon, PrepareSplit, rows, MoneyInv, PlanIsExact, MoneyIsConserved,
              InFlight, BillInv, TypeOK
<1>3. ASSUME NEW p \in Payments, Pay(p) \/ FinalizeSplit(p) PROVE MoneyInv'
  BY <1>3, BookingMovesMoney DEF Pay, FinalizeSplit
<1> QED  BY <1>1, <1>2, <1>3, PlanKeepsMoney DEF Next

\* Payments that do not overlap move money from the wallets to the bills and
\* nowhere else (payment_service.py:182-190, 404-428).
THEOREM MoneyStaysInTheHousehold == Spec /\ Serial => []MoneyIsConserved
<1>1. Spec /\ Serial => [](SerialInv /\ MoneyInv)
  BY BillsAreSafe, SerialInit, SerialNext, MoneyInit, MoneyStep, PTL DEF Spec
<1> QED  BY <1>1, PTL DEF MoneyInv

-----------------------------------------------------------------------------
(* The fees of service charges, when sessions do not overlap.              *)

\* What each booked payment has brought the operator and the estate from an
\* assignment, and the fee that what is paid of it covers.
FeesOf(a) == [p \in Booked |-> Allocation(p, a).fee]
EstatesOf(a) == [p \in Booked |-> Allocation(p, a).estate]
FeePaid(a) == ComponentPaid(FeeTotal(Total[a], Fee[a]), paid[a], Total[a])

\* Every allocation that was booked is a division of what was paid.
SharesAreInt ==
    \A p \in Booked, a \in Assignments :
        Allocation(p, a).fee \in Int /\ Allocation(p, a).estate \in Int

\* Fees of an assignment add up to the fee covered, and with what the estate
\* received to what was paid.
FeesAddUp ==
    \A a \in Assignments :
        /\ SumFunctionOnSet(FeesOf(a), Booked) = FeePaid(a)
        /\ SumFunctionOnSet(FeesOf(a), Booked) + SumFunctionOnSet(EstatesOf(a), Booked) = paid[a]

\* The inductive invariant of the fees.
FeeInv == SharesAreInt /\ FeesAddUp

\* This says more than the property: of every assignment, what splits would have
\* carried had every payment of it been split.
LEMMA FeesAddUpIsEnough == FeesAddUp => FeeFollowsPayments
<1> SUFFICES ASSUME FeesAddUp, NEW a \in Assignments
             PROVE  /\ SumFunction(FeesOf(a)) = FeePaid(a)
                    /\ SumFunction(FeesOf(a)) + SumFunction(EstatesOf(a)) = paid[a]
  BY DEF FeeFollowsPayments, FeesOf, EstatesOf, Booked, FeePaid
<1>1. DOMAIN FeesOf(a) = Booked /\ DOMAIN EstatesOf(a) = Booked
  BY DEF FeesOf, EstatesOf
<1> QED  BY <1>1 DEF FeesAddUp, SumFunction

\* It holds at the start.
LEMMA FeeInit == Init => FeeInv
<1> SUFFICES ASSUME Init PROVE FeeInv
  OBVIOUS
<1>1. Booked = {}  BY DEF Init, Booked
<1>2. \A a \in Assignments : paid[a] = 0  BY DEF Init, Nothing
<1>3. \A a \in Assignments : FeePaid(a) = 0
  BY <1>2 DEF FeePaid, ComponentPaid
<1> QED  BY <1>1, <1>2, <1>3, SumOfNone DEF FeeInv, SharesAreInt, FeesAddUp

\* Nothing changes as long as nothing is booked or paid and what was booked is
\* remembered.
LEMMA FeesStay ==
    ASSUME TypeOK, FeeInv, UNCHANGED <<paid, debited>>,
           \A p \in Booked : seen'[p] = seen[p] /\ plan'[p] = plan[p]
    PROVE  FeeInv'
<1>1. Booked' = Booked  BY DEF Booked
<1>2. \A p \in Booked, a \in Assignments : Allocation(p, a)' = Allocation(p, a)
  BY DEF Allocation
<1>3. \A a \in Assignments : FeesOf(a)' = FeesOf(a) /\ EstatesOf(a)' = EstatesOf(a)
  BY <1>1, <1>2 DEF FeesOf, EstatesOf
<1>4. \A a \in Assignments : FeePaid(a)' = FeePaid(a)  BY DEF FeePaid
<1> QED  BY <1>1, <1>2, <1>3, <1>4 DEF FeeInv, SharesAreInt, FeesAddUp

\* The step that writes a plan adds its shares.
LEMMA BookingAddsShares ==
    ASSUME BillInv, SerialInv, FeeInv, NEW p \in Payments, pc[p] \in {"planned", "receipted"},
           ApplyPlan(p), DebitPayer(p), UNCHANGED <<seen, plan>>
    PROVE  FeeInv'
<1>t. TypeOK /\ ~ debited[p] /\ IsFiniteSet(Booked)
  BY SumsAreInt DEF BillInv, ReceiptOrder
<1>1. Booked' = Booked \cup {p} /\ p \notin Booked
  BY <1>t DEF DebitPayer, TypeOK, Booked
<1>2. IsFiniteSet(Booked') /\ Booked' \ {p} = Booked /\ p \in Booked'
  BY <1>t, <1>1, FS_AddElement
<1>3. \A q \in Booked', a \in Assignments : Allocation(q, a)' = Allocation(q, a)
  BY DEF Allocation
<1>4. ASSUME NEW a \in Assignments
      PROVE  /\ Allocation(p, a).fee \in Int /\ Allocation(p, a).estate \in Int
             /\ paid'[a] = paid[a] + plan[p][a] /\ paid[a] \in Int /\ plan[p][a] \in Int
             /\ FeePaid(a)' = FeePaid(a) + Allocation(p, a).fee
             /\ Allocation(p, a).fee + Allocation(p, a).estate = plan[p][a]
  <2> DEFINE fee == FeeTotal(Total[a], Fee[a])
  <2>1. /\ seen[p].paid[a] = paid[a] /\ paid[a] \in Nat /\ plan[p][a] \in Nat
        /\ Total[a] \in Nat /\ Fee[a] \in Nat /\ paid[a] + plan[p][a] <= Total[a]
    BY <1>t, BillsAreKobo DEF SerialInv, Rows, TypeOK, BillInv, PlanFits
  <2>2. paid'[a] = paid[a] + plan[p][a]
    BY <2>1 DEF ApplyPlan, Flushed, NewPaid
  <2>3. /\ FeeShare(fee, paid[a], plan[p][a], Total[a]) \in 0..plan[p][a]
        /\ FeeShare(fee, paid[a], plan[p][a], Total[a])
              + EstateShare(fee, paid[a], plan[p][a], Total[a]) = plan[p][a]
        /\ ComponentPaid(fee, paid[a], Total[a]) + FeeShare(fee, paid[a], plan[p][a], Total[a])
              = ComponentPaid(fee, paid[a] + plan[p][a], Total[a])
    BY <2>1, InstalmentIsDivided
  <2>4. /\ Allocation(p, a).fee = FeeShare(fee, paid[a], plan[p][a], Total[a])
        /\ Allocation(p, a).estate = EstateShare(fee, paid[a], plan[p][a], Total[a])
    BY <2>1 DEF Allocation
  <2>5. FeePaid(a)' = ComponentPaid(fee, paid[a] + plan[p][a], Total[a])
    BY <2>2 DEF FeePaid
  <2>6. FeePaid(a) = ComponentPaid(fee, paid[a], Total[a])
    BY DEF FeePaid
  <2>7. EstateShare(fee, paid[a], plan[p][a], Total[a]) \in Int
    BY <2>1, <2>3 DEF EstateShare, Larger
  <2> HIDE DEF fee
  <2> QED  BY <2>1, <2>2, <2>3, <2>4, <2>5, <2>6, <2>7
<1>5. SharesAreInt'
  <2>1. \A q \in Booked', a \in Assignments :
            Allocation(q, a).fee \in Int /\ Allocation(q, a).estate \in Int
    BY <1>1, <1>4 DEF FeeInv, SharesAreInt
  <2> QED  BY <1>3, <2>1 DEF SharesAreInt
<1>6. ASSUME NEW a \in Assignments
      PROVE  /\ SumFunctionOnSet(FeesOf(a)', Booked')
                    = SumFunctionOnSet(FeesOf(a), Booked) + Allocation(p, a).fee
             /\ SumFunctionOnSet(EstatesOf(a)', Booked')
                    = SumFunctionOnSet(EstatesOf(a), Booked) + Allocation(p, a).estate
  <2> DEFINE f == FeesOf(a)'
             e == EstatesOf(a)'
  <2>1. /\ \A q \in Booked' : f[q] = Allocation(q, a).fee /\ e[q] = Allocation(q, a).estate
        /\ \A q \in Booked : FeesOf(a)[q] = Allocation(q, a).fee
                             /\ EstatesOf(a)[q] = Allocation(q, a).estate
    BY <1>3 DEF FeesOf, EstatesOf
  <2>2. \A q \in Booked' : f[q] \in Int /\ e[q] \in Int
    BY <1>1, <1>4, <2>1 DEF FeeInv, SharesAreInt
  <2>3. \A q \in Booked : f[q] = FeesOf(a)[q] /\ e[q] = EstatesOf(a)[q]
    BY <1>1, <2>1
  <2> HIDE DEF f, e
  <2>4. /\ SumFunctionOnSet(f, Booked') = SumFunctionOnSet(f, Booked) + f[p]
        /\ SumFunctionOnSet(e, Booked') = SumFunctionOnSet(e, Booked) + e[p]
    BY <1>2, <2>2, SumGrows
  <2>5. /\ SumFunctionOnSet(f, Booked) = SumFunctionOnSet(FeesOf(a), Booked)
        /\ SumFunctionOnSet(e, Booked) = SumFunctionOnSet(EstatesOf(a), Booked)
    BY <1>t, <2>3, SumAgrees
  <2>6. f[p] = Allocation(p, a).fee /\ e[p] = Allocation(p, a).estate
    BY <1>2, <2>1
  <2> QED  BY <2>4, <2>5, <2>6 DEF f, e
<1>7. ASSUME NEW a \in Assignments
      PROVE  /\ SumFunctionOnSet(FeesOf(a)', Booked') = FeePaid(a)'
             /\ SumFunctionOnSet(FeesOf(a)', Booked') + SumFunctionOnSet(EstatesOf(a)', Booked')
                    = paid'[a]
  <2>1. /\ SumFunctionOnSet(FeesOf(a), Booked) = FeePaid(a)
        /\ SumFunctionOnSet(FeesOf(a), Booked) + SumFunctionOnSet(EstatesOf(a), Booked) = paid[a]
    BY DEF FeeInv, FeesAddUp
  <2>2. /\ SumFunctionOnSet(FeesOf(a), Booked) \in Int
        /\ SumFunctionOnSet(EstatesOf(a), Booked) \in Int
    <3>1. \A q \in Booked : FeesOf(a)[q] \in Int /\ EstatesOf(a)[q] \in Int
      BY DEF FeeInv, SharesAreInt, FeesOf, EstatesOf
    <3> QED  BY <1>t, <3>1, SumIsInt
  <2> QED  BY <1>4, <1>6, <2>1, <2>2
<1> QED  BY <1>5, <1>7 DEF FeeInv, FeesAddUp

\* Every step of serial payments keeps it.
LEMMA FeeStep == BillInv /\ SerialInv /\ FeeInv /\ [Next]_vars => FeeInv'
<1> SUFFICES ASSUME BillInv, SerialInv, FeeInv, [Next]_vars PROVE FeeInv'
  OBVIOUS
<1>t. TypeOK /\ \A p \in Payments : p \in Booked => pc[p] = "done"
  BY DEF BillInv, ReceiptOrder, TypeOK, Booked
<1>1. CASE UNCHANGED vars
  BY <1>t, <1>1, FeesStay DEF vars, rows, session
<1>2. ASSUME NEW p \in Payments, Load(p) \/ Abandon(p) \/ PrepareSplit(p) PROVE FeeInv'
  BY <1>t, <1>2, FeesStay DEF Load, Abandon, PrepareSplit, rows
<1>3. ASSUME NEW p \in Payments, NEW n, NEW shares, NEW type,
             Planned(p, n, shares, type)
      PROVE  FeeInv'
  BY <1>t, <1>3, FeesStay DEF Planned, rows
<1>4. ASSUME NEW p \in Payments, Plan(p) PROVE FeeInv'
  BY <1>3, <1>4 DEF Plan, PlanRent, PlanServiceCharges, PlanEstateBills, PlanAssignment, PlanOldestFirst
<1>5. ASSUME NEW p \in Payments, Pay(p) \/ FinalizeSplit(p) PROVE FeeInv'
  BY <1>5, BookingAddsShares DEF Pay, FinalizeSplit
<1> QED  BY <1>1, <1>2, <1>4, <1>5 DEF Next

\* Without overlap, the instalments of what was only paid as a service charge
\* together carry exactly the fee that is due on what is paid, and leave the rest
\* to the estate, however it was divided (payment_service.py:276-289).
THEOREM FeesAreCarried == Spec /\ Serial => []FeeFollowsPayments
<1>1. Spec /\ Serial => [](SerialInv /\ FeeInv)
  BY BillsAreSafe, SerialInit, SerialNext, FeeInit, FeeStep, PTL DEF Spec
<1>2. FeeInv => FeeFollowsPayments
  BY FeesAddUpIsEnough DEF FeeInv
<1> QED  BY <1>1, <1>2, PTL

-----------------------------------------------------------------------------
(* Lists of bills: titles.                                                 *)

\* A bill is in the list of the type that its title gives it, and in the list
\* of another type only because of a keyword (bills.py:29, billing.py:151).
THEOREM BillsAreListed ==
    ASSUME NEW title \in Titles, InferType(title) # "none"
    PROVE  /\ Clause(InferType(title), title)
           /\ \A type \in Kinds :
                 Clause(type, title) /\ type # InferType(title) => type \in title.words
  BY DEF Titles, Kinds, InferType, Clause

\* A title that build_bill_title made of a label without keywords of other
\* types is in one list, that of its type (billing.py:126).
THEOREM BuiltTitlesAreListedOnce ==
    ASSUME NEW type \in Kinds, NEW label \in Titles, label.words \subseteq {type}
    PROVE  /\ InferType(BuildTitle(type, label)) = type
           /\ \A other \in Kinds : Clause(other, BuildTitle(type, label)) <=> other = type
<1> DEFINE title == BuildTitle(type, label)
<1>1. title.prefix = type /\ title.words \subseteq {type}
  BY DEF BuildTitle
<1>2. type # "none"  BY DEF Kinds
<1> QED  BY <1>1, <1>2 DEF InferType, Clause

-----------------------------------------------------------------------------
(* Lists of bills: amounts and summaries.                                  *)

\* A bill is open exactly as long as an amount is left of it.
LeftIsOwed == \A a \in Assignments : status[a] # "PAID" <=> AmountLeft(a) > 0

\* A summary says paid exactly when nothing is left of any bill of its list.
PaidSummariesOweNothing ==
    \A type \in Kinds, now \in Nat :
        SummaryStatus(type, now) = "paid"
            <=> \A a \in Assignments : type \in Lists[a] => AmountLeft(a) = 0

\* What a summary lists is what a payment of its type is spread over, whatever
\* words its titles have: the two services have the same clauses
\* (bills.py:29, payment_service.py:101).
THEOREM ListedIsPayable ==
    ASSUME NEW type \in Kinds
    PROVE  Listed(type) = Outstanding(type)
  BY TitlesDecide DEF Listed, Outstanding

\* A true status tells whether an amount is left.
LEMMA StatusTellsLeft == TypeOK /\ NeverOverpaid /\ StatusTellsPaid => LeftIsOwed
<1> SUFFICES ASSUME TypeOK, NeverOverpaid, StatusTellsPaid, NEW a \in Assignments
             PROVE  status[a] # "PAID" <=> AmountLeft(a) > 0
  BY DEF LeftIsOwed
<1>1. Total[a] \in Nat /\ paid[a] \in Nat  BY BillsAreKobo DEF TypeOK
<1>2. paid[a] <= Total[a] /\ (status[a] = "PAID" <=> paid[a] = Total[a])
  BY DEF NeverOverpaid, StatusTellsPaid
<1> QED  BY <1>1, <1>2 DEF AmountLeft, AtLeastZero

\* True statuses make true summaries.
LEMMA SummaryTellsLeft ==
    TypeOK /\ LeftIsOwed => PaidSummariesOweNothing
<1> SUFFICES ASSUME TypeOK, LeftIsOwed, NEW type \in Kinds, NEW now \in Nat
             PROVE  SummaryStatus(type, now) = "paid"
                        <=> \A a \in Assignments : type \in Lists[a] => AmountLeft(a) = 0
  BY DEF PaidSummariesOweNothing
<1>1. SummaryStatus(type, now) = "paid" <=> Listed(type) = {}
  BY DEF SummaryStatus
<1>2. \A a \in Assignments : a \in Listed(type) <=> status[a] # "PAID" /\ type \in Lists[a]
  BY ListedIsPayable DEF Outstanding
<1>3. \A a \in Assignments : AmountLeft(a) \in Nat
  <2> SUFFICES ASSUME NEW a \in Assignments PROVE AmountLeft(a) \in Nat
    OBVIOUS
  <2>1. Total[a] \in Nat /\ paid[a] \in Nat  BY BillsAreKobo DEF TypeOK
  <2> QED  BY <2>1 DEF AmountLeft, AtLeastZero
<1>4. \A a \in Assignments : a \in Listed(type) <=> type \in Lists[a] /\ AmountLeft(a) # 0
  BY <1>2, <1>3 DEF LeftIsOwed
<1> QED  BY <1>1, <1>4 DEF Listed

\* While payments do not overlap, a bill is open exactly as long as the list
\* shows an amount that is left of it (bills.py:63, 64).
THEOREM OpenBillsShowWhatIsLeft == ASSUME BillsAsk PROVE Spec /\ Serial => []LeftIsOwed
<1>1. Spec /\ Serial => [](TypeOK /\ NeverOverpaid /\ StatusTellsPaid)
  BY BillTypes, NoBillIsOverpaid, StatusIsRight, PTL
<1> QED  BY <1>1, StatusTellsLeft, PTL

\* And a summary says "paid" exactly when nothing is left of any bill of its
\* list, those in several lists included (bills.py:110, 232, 312).
THEOREM PaidMeansNothingIsLeft ==
    ASSUME BillsAsk
    PROVE  Spec /\ Serial => []PaidSummariesOweNothing
<1>1. Spec /\ Serial => [](TypeOK /\ LeftIsOwed)
  BY BillTypes, OpenBillsShowWhatIsLeft, PTL
<1>2. TypeOK /\ LeftIsOwed => PaidSummariesOweNothing
  BY SummaryTellsLeft
<1> QED  BY <1>1, <1>2, PTL

\* Whoever may pay a rent, an estate bill or a single bill has it in his list
\* (bills.py:457, 378, 418, 508).
LEMMA PayersSeeTheirBills ==
    ASSUME NEW u \in Users, NEW a \in Assignments, InferType(Title[a]) # "none",
           NEW n \in Nat, PayRent(u, n) \cup PayEstateBill(u, n) \cup PayBillFromWallet(u, n) # {}
    PROVE  a \in MyBills(u)
  BY DEF PayRent, PayEstateBill, PayBillFromWallet, ManagersPay, MyBills
=============================================================================
