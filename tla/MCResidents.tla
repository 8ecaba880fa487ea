---------------------------- MODULE MCResidents -----------------------------
(***************************************************************************)
(* What residents do beside paying, for TLC: each behaviour is one of one  *)
(* part, since the parts share no state that changes.                      *)
(***************************************************************************)
EXTENDS Accounts, Membership, ResetCodes, TransactionPin, Messaging, Feed,
        Paging, TLC

CONSTANTS
    u1, u2,         \* residents
    r1, r2,         \* requests the service works on
    i1, i2, m1,     \* devices, conversations and posts; a message
    p1, p2,         \* people, of whom p1 signs up
    t1, t2, t3, e1, e2  \* units and their estates

VARIABLE part

MCEstateOf == (t1 :> e1) @@ (t2 :> e1) @@ (t3 :> e2)

accessVars == <<accountsVars, membershipVars>>
secretVars == <<resetCodesVars, transactionPinVars>>
socialVars == <<messagingVars, feedVars, pagingVars>>
vars == <<part, accessVars, secretVars, socialVars>>

Init ==
    /\ part \in {"accounts", "membership", "codes", "pin", "messages", "feed",
                "lists"}
    /\ AccountsInit /\ MembershipInit /\ ResetCodesInit /\ TransactionPinInit
    /\ MessagingInit /\ FeedInit /\ PagingInit

Next ==
    /\ UNCHANGED part
    /\ \/ /\ part = "accounts" /\ AccountsNext
          /\ UNCHANGED <<membershipVars, secretVars, socialVars>>
       \/ /\ part = "membership" /\ MembershipNext
          /\ UNCHANGED <<accountsVars, secretVars, socialVars>>
       \/ /\ part = "codes" /\ ResetCodesNext
          /\ UNCHANGED <<accessVars, transactionPinVars, socialVars>>
       \/ /\ part = "pin" /\ TransactionPinNext
          /\ UNCHANGED <<accessVars, resetCodesVars, socialVars>>
       \/ /\ part = "messages" /\ MessagingNext
          /\ UNCHANGED <<accessVars, secretVars, feedVars, pagingVars>>
       \/ /\ part = "feed" /\ FeedNext
          /\ UNCHANGED <<accessVars, secretVars, messagingVars, pagingVars>>
       \/ /\ part = "lists" /\ PagingNext
          /\ UNCHANGED <<accessVars, secretVars, messagingVars, feedVars>>

Spec == Init /\ [][Next]_vars

\* The cfg gives the residents of all parts one set, and so the requests, and
\* the devices, conversations and posts: a permutation is one of them all.
Symmetry ==
    Permutations(Users) \cup Permutations(Requests) \cup Permutations(Devices)

\* Every variable of every part stays within its type.
TypeOK ==
    /\ AccountsTypeOK /\ MembershipTypeOK /\ ResetCodesTypeOK /\ TransactionPinTypeOK
    /\ MessagingTypeOK /\ FeedTypeOK /\ PagingTypeOK
=============================================================================
