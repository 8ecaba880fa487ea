---------------------------- MODULE MCBillPayment ----------------------------
(* BillPayment with a household of two and its bills, for TLC.             *)
EXTENDS BillListings, TLC

CONSTANTS u1, u2, p1, p2, p3, r1, r2, s1, s2, b1

\* Two rents and two service charges, so that oldest first and instalments
\* show, and one other bill.  The second service charge is "current", which has
\* "rent" in it, and the label of the bill has "service charge" in it.
MCTitle == (r1 :> BuildTitle("rent", [words |-> {}]))
        @@ (r2 :> [prefix |-> "none", words |-> {"rent"}])
        @@ (s1 :> BuildTitle("service_charge", [words |-> {"service_charge"}]))
        @@ (s2 :> BuildTitle("service_charge", [words |-> {"rent"}]))
        @@ (b1 :> BuildTitle("bill", [words |-> {"service_charge"}]))
MCType == (r1 :> "rent") @@ (r2 :> "rent") @@ (s1 :> "service_charge")
            @@ (s2 :> "service_charge") @@ (b1 :> "bill")
MCLists == (r1 :> {"rent"}) @@ (r2 :> {"rent"}) @@ (s1 :> {"service_charge"})
            @@ (s2 :> {"service_charge", "rent"}) @@ (b1 :> {"bill", "service_charge"})
MCTotal == (r1 :> 2) @@ (r2 :> 1) @@ (s1 :> 3) @@ (s2 :> 2) @@ (b1 :> 2)
MCFee == (r1 :> 0) @@ (r2 :> 0) @@ (s1 :> 2) @@ (s2 :> 1) @@ (b1 :> 0)
MCRank == (r1 :> 1) @@ (r2 :> 2) @@ (s1 :> 3) @@ (s2 :> 4) @@ (b1 :> 5)
MCNextDue == (r1 :> 1) @@ (r2 :> 2) @@ (s1 :> 0) @@ (s2 :> 1) @@ (b1 :> 0)
MCPayer == (p1 :> u1) @@ (p2 :> u2) @@ (p3 :> u1)
MCOpening == (u1 :> 3) @@ (u2 :> 2)
MCRoles == (u1 :> {"admin"}) @@ (u2 :> {"member"})

TitleOf == [a \in Assignments |-> MCTitle[a]]
TypeOf == [a \in Assignments |-> MCType[a]]
ListsOf == [a \in Assignments |-> MCLists[a]]
TotalOf == [a \in Assignments |-> MCTotal[a]]
FeeOf == [a \in Assignments |-> MCFee[a]]
RankOf == [a \in Assignments |-> MCRank[a]]
NextDueOf == [a \in Assignments |-> MCNextDue[a]]
DueOf == [a \in Assignments |-> {}]
PayerOf == [p \in Payments |-> MCPayer[p]]
OpeningOf == [u \in Users |-> MCOpening[u]]
RolesOf == [u \in Users |-> MCRoles[u]]
=============================================================================
