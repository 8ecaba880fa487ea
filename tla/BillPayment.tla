----------------------------- MODULE BillPayment -----------------------------
(***************************************************************************)
(* Paying the bills of one unit from the wallets of its household          *)
(* (client/core/services/payment_service.py, client/routes/bills.py):      *)
(*                                                                         *)
(*   process_rent_payment             the oldest outstanding rent          *)
(*   process_service_charge_payment   outstanding charges, oldest first    *)
(*   process_estate_bill_payment      outstanding bills, oldest first      *)
(*   process_bill_payment             one assignment of any type           *)
(*                                                                         *)
(* A payment is one database session: it loads its payer, loads the        *)
(* assignments and the unit, and writes what it computed from them.  A     *)
(* service charge takes two commits, its receipt first.  Sessions of the   *)
(* same wallet and of the same unit may overlap.                           *)
(***************************************************************************)
EXTENDS Integers, FiniteSets, Functions, UnitOfWork, ServiceChargeFees

CONSTANTS
    Users,          \* the household members who may pay
    Payments,       \* payment requests
    Payer,          \* Payer[p]: the user who sends p
    Assignments,    \* the bill assignments of the unit
    Type,           \* Type[a]: infer_bill_type of its title
    Lists,          \* Lists[a]: the types whose clause selects its title
    Total,          \* Total[a]: assignment_total_amount_kobo
    Fee,            \* Fee[a]: its configured service fee
    Rank,           \* Rank[a]: its place by due date and creation
    NextDue,        \* NextDue[a]: the due date after its cycle
    Opening,        \* Opening[u]: the balance of u before the first payment
    Amounts,        \* the amounts that are tried
    Overlap         \* may sessions overlap?

Kinds == {"bill", "rent", "service_charge"}

ASSUME BillsAreKobo ==
    /\ IsFiniteSet(Users) /\ IsFiniteSet(Payments) /\ IsFiniteSet(Assignments)
    /\ Payer \in [Payments -> Users]
    /\ Type \in [Assignments -> Kinds \cup {"none"}]
    /\ Lists \in [Assignments -> SUBSET Kinds]
    /\ Total \in [Assignments -> Nat]
    /\ Fee \in [Assignments -> Nat]
    /\ Rank \in [Assignments -> Nat]
    /\ \A a, b \in Assignments : Rank[a] = Rank[b] => a = b
    /\ Opening \in [Users -> Nat]
    /\ NextDue \in [Assignments -> Nat]
    /\ Amounts \subseteq Nat \ {0}
    /\ Overlap \in BOOLEAN

VARIABLES
    balance,        \* users.wallet_balance
    paid,           \* bill_assignments.amount_paid
    status,         \* bill_assignments.status
    nextRentDue,    \* units.next_rent_due, 0 for NULL
    receipt,        \* has p a transactions row (always inserted as success)?
    debited,        \* has p a wallet_history row (inserted with the debit)?
    pc, snap,       \* of the session: where it is, the balance it loaded,
    seen,           \* the assignments and the unit it loaded,
    amount, plan,   \* the amount, what it will add to each assignment,
    kind            \* and as what it pays them

rows == <<balance, paid, status, nextRentDue>>
session == <<pc, snap, seen, amount, plan, kind>>
vars == <<rows, receipt, debited, session>>

-----------------------------------------------------------------------------
States == {"PENDING", "PARTIAL", "PAID"}

View == [paid : [Assignments -> Nat], status : [Assignments -> States], next : Nat]

TypeOK ==
    /\ balance \in [Users -> Int]
    /\ paid \in [Assignments -> Nat]
    /\ status \in [Assignments -> States]
    /\ nextRentDue \in Nat
    /\ receipt \in [Payments -> BOOLEAN]
    /\ debited \in [Payments -> BOOLEAN]
    /\ pc \in [Payments -> {"new", "loaded", "planned", "receipted", "done"}]
    /\ snap \in [Payments -> Int]
    /\ seen \in [Payments -> View]
    /\ amount \in [Payments -> Nat]
    /\ plan \in [Payments -> [Assignments -> Nat]]
    /\ kind \in [Payments -> Kinds \cup {"none"}]

Nothing == [a \in Assignments |-> 0]
Rows == [paid |-> paid, status |-> status, next |-> nextRentDue]

Init ==
    /\ balance = Opening
    /\ paid = Nothing
    /\ status = [a \in Assignments |-> "PENDING"]
    /\ nextRentDue = 0
    /\ receipt = [p \in Payments |-> FALSE]
    /\ debited = [p \in Payments |-> FALSE]
    /\ pc = [p \in Payments |-> "new"]
    /\ snap = [p \in Payments |-> 0]
    /\ seen = [p \in Payments |-> Rows]
    /\ amount = [p \in Payments |-> 0]
    /\ plan = [p \in Payments |-> Nothing]
    /\ kind = [p \in Payments |-> "none"]

-----------------------------------------------------------------------------
InFlight(p) == pc[p] \in {"loaded", "planned", "receipted"}

\* get_current_user loads the payer.
Load(p) ==
    /\ pc[p] = "new"
    /\ Overlap \/ \A q \in Payments : ~ InFlight(q)
    /\ pc' = [pc EXCEPT ![p] = "loaded"]
    /\ snap' = [snap EXCEPT ![p] = balance[Payer[p]]]
    /\ UNCHANGED <<rows, receipt, debited, seen, amount, plan, kind>>

Left(a) == Total[a] - paid[a]

\* The clauses go by keywords too: an assignment may be outstanding as several
\* types, and as another than its own.
Outstanding(type) == {a \in Assignments : type \in Lists[a] /\ status[a] # "PAID"}

\* All of n goes to assignment a, which must not be paid beyond its total.
FitsUnchecked(a, n) == TRUE
Fits(a, n) == n <= Left(a)
OnlyTo(a, n) == [Nothing EXCEPT ![a] = n]

\* n is spread over the outstanding assignments of a type, oldest first: one is
\* only paid when the older ones are paid in full.
OldestFirst(type, n, shares) ==
    /\ SumFunction(shares) = n
    /\ \A a \in Outstanding(type) : shares[a] <= Left(a)
    /\ \A a, b \in Outstanding(type) :
          Rank[a] < Rank[b] /\ shares[b] > 0 => shares[a] = Left(a)

\* The loaded balance covers the amount.
CoversUnchecked(p, n) == TRUE
Covers(p, n) == snap[p] >= n

\* The session has read the assignments and the unit, and all checks passed.
Planned(p, n, shares, type) ==
    /\ pc[p] = "loaded"
    /\ Covers(p, n)
    /\ pc' = [pc EXCEPT ![p] = "planned"]
    /\ seen' = [seen EXCEPT ![p] = Rows]
    /\ amount' = [amount EXCEPT ![p] = n]
    /\ plan' = [plan EXCEPT ![p] = shares]
    /\ kind' = [kind EXCEPT ![p] = type]
    /\ UNCHANGED <<rows, receipt, debited, snap>>

PlanRent(p) ==
    \E n \in Amounts, a \in Outstanding("rent") :
        /\ \A b \in Outstanding("rent") : Rank[a] <= Rank[b]
        /\ Fits(a, n)
        /\ Planned(p, n, OnlyTo(a, n), "rent")

PlanOldestFirst(p, type) ==
    \E n \in Amounts : \E shares \in [Outstanding(type) -> 0..n] :
        /\ OldestFirst(type, n, shares)
        /\ Planned(p, n, [a \in Assignments |->
                            IF a \in Outstanding(type) THEN shares[a] ELSE 0], type)

PlanServiceCharges(p) == PlanOldestFirst(p, "service_charge")

PlanEstateBills(p) == PlanOldestFirst(p, "bill")

\* One assignment, whatever its status, as the type that its title says.
PlanAssignment(p) ==
    \E n \in Amounts, a \in Assignments :
        Fits(a, n) /\ Planned(p, n, OnlyTo(a, n), Type[a])

-----------------------------------------------------------------------------
NewPaid(p, a) == seen[p].paid[a] + plan[p][a]

NewStatusMisspelt(p, a) == IF NewPaid(p, a) >= Total[a] THEN "PAID" ELSE "PARTIALLY_PAID"
NewStatusLate(p, a) == IF NewPaid(p, a) > Total[a] THEN "PAID" ELSE "PARTIAL"
NewStatus(p, a) == IF NewPaid(p, a) >= Total[a] THEN "PAID" ELSE "PARTIAL"

\* The assignment that this payment pays off as a rent.
PaysOff(p, a) == plan[p][a] > 0 /\ kind[p] = "rent" /\ NewStatus(p, a) = "PAID"

\* _update_unit_next_rent_due_from_assignment: only forward of what was loaded.
CandidateAlways(p, a) == NextDue[a]
Candidate(p, a) == IF NextDue[a] > seen[p].next THEN NextDue[a] ELSE seen[p].next

\* The columns of the assignments this session changed.
ApplyPlan(p) ==
    /\ paid' = [a \in Assignments |->
                  IF plan[p][a] > 0 THEN Flushed(paid[a], seen[p].paid[a], NewPaid(p, a))
                  ELSE paid[a]]
    /\ status' = [a \in Assignments |->
                  IF plan[p][a] > 0 THEN Flushed(status[a], seen[p].status[a], NewStatus(p, a))
                  ELSE status[a]]

DebitPayer(p) ==
    /\ balance' = [balance EXCEPT ![Payer[p]] = Flushed(@, snap[p], snap[p] - amount[p])]
    /\ debited' = [debited EXCEPT ![p] = TRUE]

\* Is it paid as service charges, which are split with the operator?
IsSplit(p) == kind[p] = "service_charge"

\* The row of payment_allocations for assignment a in the receipt of p.
Allocation(p, a) ==
    LET fee == FeeTotal(Total[a], Fee[a]) IN
    [gross  |-> plan[p][a],
     fee    |-> FeeShare(fee, seen[p].paid[a], plan[p][a], Total[a]),
     estate |-> EstateShare(fee, seen[p].paid[a], plan[p][a], Total[a])]

\* Everything in one commit.
Pay(p) ==
    /\ pc[p] = "planned"
    /\ ~ IsSplit(p)
    /\ pc' = [pc EXCEPT ![p] = "done"]
    /\ ApplyPlan(p)
    /\ DebitPayer(p)
    /\ nextRentDue' = IF \E a \in Assignments : PaysOff(p, a)
                      THEN Flushed(nextRentDue, seen[p].next,
                                   Candidate(p, CHOOSE a \in Assignments : PaysOff(p, a)))
                      ELSE nextRentDue
    /\ receipt' = [receipt EXCEPT ![p] = TRUE]
    /\ UNCHANGED <<snap, seen, amount, plan, kind>>

\* A first commit that already holds the assignments, or the debit.
PrepareSplitApplied(p) ==
    /\ pc[p] = "planned"
    /\ IsSplit(p)
    /\ pc' = [pc EXCEPT ![p] = "receipted"]
    /\ ApplyPlan(p)
    /\ receipt' = [receipt EXCEPT ![p] = TRUE]
    /\ UNCHANGED <<balance, nextRentDue, debited, snap, seen, amount, plan, kind>>
PrepareSplitCharged(p) ==
    /\ pc[p] = "planned"
    /\ IsSplit(p)
    /\ pc' = [pc EXCEPT ![p] = "receipted"]
    /\ balance' = [balance EXCEPT ![Payer[p]] = Flushed(@, snap[p], snap[p] - amount[p])]
    /\ receipt' = [receipt EXCEPT ![p] = TRUE]
    /\ UNCHANGED <<paid, status, nextRentDue, debited, snap, seen, amount, plan, kind>>

\* The receipt and the allocations of a service charge, as success.
PrepareSplit(p) ==
    /\ pc[p] = "planned"
    /\ IsSplit(p)
    /\ pc' = [pc EXCEPT ![p] = "receipted"]
    /\ receipt' = [receipt EXCEPT ![p] = TRUE]
    /\ UNCHANGED <<rows, debited, snap, seen, amount, plan, kind>>

\* Then the debit and the assignments, from what was loaded before.
FinalizeSplit(p) ==
    /\ pc[p] = "receipted"
    /\ pc' = [pc EXCEPT ![p] = "done"]
    /\ ApplyPlan(p)
    /\ DebitPayer(p)
    /\ UNCHANGED <<nextRentDue, receipt, snap, seen, amount, plan, kind>>

\* The request is rejected, or its process dies; nothing uncommitted survives.
Abandon(p) ==
    /\ InFlight(p)
    /\ pc' = [pc EXCEPT ![p] = "done"]
    /\ UNCHANGED <<rows, receipt, debited, snap, seen, amount, plan, kind>>

Plan(p) == PlanRent(p) \/ PlanServiceCharges(p) \/ PlanEstateBills(p) \/ PlanAssignment(p)

Next ==
    \E p \in Payments :
        \/ Load(p) \/ Plan(p) \/ Abandon(p)
        \/ Pay(p) \/ PrepareSplit(p) \/ FinalizeSplit(p)

Spec == Init /\ [][Next]_vars

-----------------------------------------------------------------------------
(* Properties.                                                             *)

\* What wallets have been debited for assignment a.
DebitedFor(a) == SumFunctionOnSet([p \in Payments |-> plan[p][a]],
                                  {p \in Payments : debited[p]})

\* No assignment is paid beyond its total, whatever overlaps
\* (payment_service.py:162, 493, 631, 724).
NeverOverpaid == \A a \in Assignments : paid[a] <= Total[a]

\* No wallet is overdrawn by paying bills (payment_service.py:176, 380, 523, 735).
WalletNeverOverdrawn == \A u \in Users : balance[u] >= 0

\* Every kobo an assignment shows as paid was debited from some wallet:
\* overlapping payments may lose a payment, never invent one.
PaidIsBacked == \A a \in Assignments : paid[a] <= DebitedFor(a)

\* A wallet never loses more than the payments that were debited from it:
\* overlapping debits may be lost, never doubled.
WalletNotOvercharged ==
    \A u \in Users :
        balance[u] >= Opening[u]
            - SumFunctionOnSet(amount, {p \in Payments : debited[p] /\ Payer[p] = u})

\* A debit always has a receipt; a receipt that ended without a debit is one of
\* a service charge (payment_service.py:384 commits it before the debit).
ReceiptsExplainDebits ==
    \A p \in Payments :
        /\ debited[p] => receipt[p]
        /\ receipt[p] /\ ~ debited[p] => IsSplit(p)

\* Payments that do not overlap move money from the wallets to the bills.
MoneyIsConserved ==
    SumFunction(balance) + SumFunction(paid) = SumFunction(Opening)

\* The status says how much is paid (payment_service.py:182-186, 404-409).
StatusTellsPaid ==
    \A a \in Assignments :
        /\ status[a] = "PAID" <=> paid[a] = Total[a]
        /\ status[a] = "PENDING" <=> paid[a] = 0

\* The instalments of an assignment that was only ever paid as a service charge
\* carry exactly the fee that is due on what is paid, so that no rounding is lost
\* or charged twice, and leave the rest to the estate (payment_service.py:276-289).
FeeFollowsPayments ==
    \A a \in Assignments :
        LET booked == {p \in Payments : debited[p]}
            fees == SumFunction([p \in booked |-> Allocation(p, a).fee])
            estate == SumFunction([p \in booked |-> Allocation(p, a).estate])
        IN (\A p \in booked : plan[p][a] > 0 => IsSplit(p)) =>
              /\ fees = ComponentPaid(FeeTotal(Total[a], Fee[a]), paid[a], Total[a])
              /\ fees + estate = paid[a]

\* The next rent date of the unit is never moved back (payment_service.py:850).
RentDateNeverMovesBack == [][nextRentDue' >= nextRentDue]_vars
=============================================================================
