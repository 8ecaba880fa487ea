------------------------------ MODULE MCWallet ------------------------------
(* Wallet with one or two references of each kind, for TLC.                *)
EXTENDS Wallet, TLC

CONSTANTS t1, t2, u1, f1, w1, w2

\* A transfer and a utility payment the opening balance covers one at a time
\* only, and a deposit that lets it cover both.
MCAmount == (t1 :> 3) @@ (t2 :> 2) @@ (u1 :> 2) @@ (f1 :> 1)
AmountOf == [r \in Refs |-> MCAmount[r]]

Symmetry == Permutations(Workers)
=============================================================================
