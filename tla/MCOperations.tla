---------------------------- MODULE MCOperations ----------------------------
(***************************************************************************)
(* What the service does by itself or with its providers, for TLC: each    *)
(* behaviour is one of one part, since the parts share no state that       *)
(* changes.                                                                *)
(***************************************************************************)
EXTENDS LiveUpdates, RecurringBilling, WalletSetup, TLC

VARIABLE part

\* Three months of three, one and three days, over and over.
MCMonthLength == (0 :> 3) @@ (1 :> 1) @@ (2 :> 3)

vars == <<part, liveVars, billingVars, setupVars>>

Init ==
    /\ part \in {"live", "billing", "setup"}
    /\ LiveInit /\ BillingInit /\ SetupInit

Next ==
    /\ UNCHANGED part
    /\ \/ part = "live" /\ LiveNext /\ UNCHANGED <<billingVars, setupVars>>
       \/ part = "billing" /\ BillingNext /\ UNCHANGED <<liveVars, setupVars>>
       \/ part = "setup" /\ SetupNext /\ UNCHANGED <<liveVars, billingVars>>

Spec == Init /\ [][Next]_vars /\ LiveFairness /\ BillingFairness

\* Every variable of every part stays within its type.
TypeOK == LiveTypeOK /\ BillingTypeOK /\ SetupTypeOK

\* What is published to a listening worker comes to its streams (events.py:
\* 78-111), and an active setup is billed up to the date (recurring_billing.py:
\* 97-157).
WorkGetsDone == DueIsDelivered /\ CyclesCatchUp
=============================================================================
