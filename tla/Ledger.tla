------------------------------- MODULE Ledger -------------------------------
(***************************************************************************)
(* What a wallet promises its owner: every settled money movement is       *)
(* booked on the balance exactly once, whole, and nothing else moves it.   *)
(* Wallet implements this when the sessions of one user do not overlap.    *)
(***************************************************************************)
EXTENDS Integers

CONSTANTS
    Entries,    \* the movements that may be booked
    Effect,     \* Effect[e]: signed amount of entry e, in kobo
    Opening     \* the balance before the first entry

VARIABLES
    balance,
    booked      \* the entries booked so far

Init ==
    /\ balance = Opening
    /\ booked = {}

Book(e) ==
    /\ e \notin booked
    /\ booked' = booked \cup {e}
    /\ balance' = balance + Effect[e]

Next == \E e \in Entries : Book(e)

Spec == Init /\ [][Next]_<<balance, booked>>
=============================================================================
