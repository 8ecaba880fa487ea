---------------------------- MODULE BillListings ----------------------------
(***************************************************************************)
(* What a household is shown of the bills of BillPayment, and what it may  *)
(* ask to pay (client/routes/bills.py, titles: client/core/billing.py).    *)
(*                                                                         *)
(* Lists go by title patterns, each bill is typed by its title, and a      *)
(* payment is asked for in float naira.                                    *)
(***************************************************************************)
EXTENDS BillPayment

CONSTANTS
    Title,      \* Title[a]: the title of the bill of a
    Due,        \* Due[a]: its due date, a set of at most one
    Roles       \* Roles[u]: the roles on the links of u to the unit

-----------------------------------------------------------------------------
(* Titles.                                                                 *)

\* The words are the types whose keywords a title contains, at any place: so
\* has "[BILL] Current levy" the keyword of rent.
Titles == [prefix : Kinds \cup {"none"}, words : SUBSET Kinds]

\* build_bill_title; the prefix "[RENT]" has the keyword of rent in it.
BuildTitle(type, label) ==
    [prefix |-> type,
     words |-> label.words \cup IF type = "rent" THEN {"rent"} ELSE {}]

\* A cycle of a recurring bill adds a month or a year to the label.
RecurringTitle(type, label) == BuildTitle(type, label)

\* _bill_type_clause: the prefix of the type or one of its keywords.
Clause(type, title) == title.prefix = type \/ type \in title.words

\* infer_bill_type: the prefix, or else the first type of which it has a keyword.
InferType(title) ==
    IF title.prefix # "none" THEN title.prefix
    ELSE IF "bill" \in title.words THEN "bill"
    ELSE IF "rent" \in title.words THEN "rent"
    ELSE IF "service_charge" \in title.words THEN "service_charge" ELSE "none"

\* A payment of one assignment goes by the type of its title, and a payment of
\* a list by the clauses, which are the same in both services.
ASSUME TitlesDecide ==
    /\ Title \in [Assignments -> Titles]
    /\ \A a \in Assignments :
          /\ Type[a] = InferType(Title[a])
          /\ Lists[a] = {type \in Kinds : Clause(type, Title[a])}

-----------------------------------------------------------------------------
(* Summaries.                                                              *)

AtLeastZero(n) == IF n > 0 THEN n ELSE 0

AmountLeft(a) == AtLeastZero(Total[a] - paid[a])

Listed(type) == {a \in Assignments : status[a] # "PAID" /\ Clause(type, Title[a])}

TotalPaid(type) == SumFunctionOnSet(paid, Listed(type))
TotalBilled(type) == SumFunctionOnSet(Total, Listed(type))

SummaryStatus(type, now) ==
    IF Listed(type) = {} THEN "paid"
    ELSE IF \E a \in Listed(type) : \E due \in Due[a] : due < now THEN "overdue"
    ELSE IF \E a \in Listed(type) : status[a] = "PARTIAL" THEN "partial"
    ELSE "due"

\* The due date on top of the list: assignments without one come last.
OldestDue(type) ==
    {due \in UNION {Due[a] : a \in Listed(type)} :
        \A b \in Listed(type) : \A other \in Due[b] : due <= other}

ServiceCharge(now) ==
    [outstanding |-> AtLeastZero(TotalBilled("service_charge") - TotalPaid("service_charge")),
     paid |-> TotalPaid("service_charge"), status |-> SummaryStatus("service_charge", now),
     oldest |-> OldestDue("service_charge")]

EstateBill(now) ==
    [outstanding |-> AtLeastZero(TotalBilled("bill") - TotalPaid("bill")),
     paid |-> TotalPaid("bill"), status |-> SummaryStatus("bill", now),
     oldest |-> OldestDue("bill")]

\* Of rent, an overpaid total would show as negative; without outstanding rent
\* the date of the unit is shown.
RentDetails(now) ==
    [outstanding |-> TotalBilled("rent") - TotalPaid("rent"),
     paid |-> TotalPaid("rent"), status |-> SummaryStatus("rent", now),
     oldest |-> IF Listed("rent") = {} THEN {nextRentDue} ELSE OldestDue("rent")]

-----------------------------------------------------------------------------
(* Who sees and pays what.                                                 *)

Manages(u) == Roles[u] \cap {"admin", "sub_admin"} # {}

\* Paid bills are in the list too.
MyBills(u) ==
    IF Manages(u) THEN {a \in Assignments : InferType(Title[a]) # "none"} ELSE {}

\* int(naira * 100) may fall one kobo short.
Kobo(n) == {n, n - 1} \cap Nat

\* The amounts with which the payment of n kobo is begun; none when it is refused.
ManagersPay(u, n) == IF Manages(u) THEN Kobo(n) ELSE {}
PayServiceCharge(u, n) == IF Roles[u] # {} THEN Kobo(n) ELSE {}
PayEstateBill(u, n) == ManagersPay(u, n)
PayRent(u, n) == ManagersPay(u, n)
PayBillFromWallet(u, n) == ManagersPay(u, n)
=============================================================================
