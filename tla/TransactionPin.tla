--------------------------- MODULE TransactionPin ---------------------------
(***************************************************************************)
(* The PIN that authorises the payments of one user (client/routes/user.py *)
(* change_pin and forgot_pin, core/security.py verify_transaction_pin).    *)
(*                                                                         *)
(* A changed PIN is one the user has chosen; a forgotten one is replaced   *)
(* by the service, stored, and then mailed.  Mails may be lost, and two    *)
(* requests may store and mail in different orders.                        *)
(***************************************************************************)
EXTENDS Integers, UnitOfWork

CONSTANTS
    Changes,    \* requests the service works on at a time
    MaxPins     \* bound on the PINs of a behaviour

ASSUME PinsAreBounded == MaxPins \in Nat

VARIABLES
    pin,        \* users.transaction_pin_hash, 0: not set
    known,      \* the PIN the user has chosen or read last
    change,     \* the requests under way
    pins,       \* PINs made so far
    lost,       \* history: PINs whose mail never came
    mixed       \* history: two requests have been under way at once

transactionPinVars == <<pin, known, change, pins, lost, mixed>>

-----------------------------------------------------------------------------
Settled == [op |-> "settled"]
Change == [op : {"change", "forgot", "mail"}, seen : 0..MaxPins, new : 1..MaxPins]

TransactionPinTypeOK ==
    /\ pin \in 0..pins /\ known \in 0..pins /\ pins \in 0..MaxPins
    /\ change \in [Changes -> {Settled} \cup Change]
    /\ lost \subseteq 1..pins
    /\ mixed \in BOOLEAN

TransactionPinInit ==
    /\ pin = 0 /\ known = 0 /\ pins = 0
    /\ change = [c \in Changes |-> Settled]
    /\ lost = {}
    /\ mixed = FALSE

\* Changing a PIN takes the old one, if there is one; the user gives the one he
\* knows.  Forgetting takes none.
Verified(given) == pin \in {0, given}

PinLoad(c, op) ==
    /\ change[c] = Settled
    /\ op = "change" => Verified(known)
    /\ pins < MaxPins
    /\ pins' = pins + 1
    /\ change' = [change EXCEPT ![c] = [op |-> op, seen |-> pin, new |-> pins + 1]]
    /\ mixed' = (mixed \/ \E other \in Changes : change[other] # Settled)
    /\ UNCHANGED <<pin, known, lost>>

ChangePin(c) ==
    /\ change[c].op = "change"
    /\ pin' = Flushed(pin, change[c].seen, change[c].new)
    /\ known' = change[c].new
    /\ change' = [change EXCEPT ![c] = Settled]
    /\ UNCHANGED <<pins, lost, mixed>>

\* A service that mails the PIN and then stores it.
ForgotPinMailedFirst(c) ==
    /\ change[c].op = "forgot"
    /\ known' = change[c].new
    /\ change' = [change EXCEPT ![c].op = "change"]
    /\ UNCHANGED <<pin, pins, lost, mixed>>

ForgotPin(c) ==
    /\ change[c].op = "forgot"
    /\ pin' = Flushed(pin, change[c].seen, change[c].new)
    /\ change' = [change EXCEPT ![c].op = "mail"]
    /\ UNCHANGED <<known, pins, lost, mixed>>

\* The mail goes out after the commit.
MailPin(c) ==
    /\ change[c].op = "mail"
    /\ known' = change[c].new
    /\ change' = [change EXCEPT ![c] = Settled]
    /\ UNCHANGED <<pin, pins, lost, mixed>>

\* The mail fails, or the process dies: before the commit the old PIN stays,
\* after it nobody knows the new one.
LosePin(c) ==
    /\ change[c] # Settled
    /\ lost' = IF change[c].op = "mail" THEN lost \cup {change[c].new} ELSE lost
    /\ change' = [change EXCEPT ![c] = Settled]
    /\ UNCHANGED <<pin, known, pins, mixed>>

TransactionPinNext ==
    \E c \in Changes :
        \/ \E op \in {"change", "forgot"} : PinLoad(c, op)
        \/ ChangePin(c) \/ ForgotPin(c) \/ MailPin(c) \/ LosePin(c)

TransactionPinSpec == TransactionPinInit /\ [][TransactionPinNext]_transactionPinVars

-----------------------------------------------------------------------------
(* Properties.                                                             *)

\* The PIN a user knows is the one that authorises his payments, unless the mail
\* with the stored one is still to come or was lost, or requests overlapped
\* (user.py:302-366).
KnownPinWorks ==
    \/ mixed \/ pin = known \/ pin \in lost
    \/ \E c \in Changes : change[c].op = "mail" /\ change[c].new = pin
=============================================================================
