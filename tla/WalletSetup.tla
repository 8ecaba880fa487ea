---------------------------- MODULE WalletSetup -----------------------------
(***************************************************************************)
(* Setting up the wallet of one resident (client/core/wallet_setup.py) at  *)
(* the provider, Nomba, through the client of client/core/nomba.py.        *)
(*                                                                         *)
(* A submission loads the wallet profile, has Nomba create a virtual       *)
(* account under a reference, and stores what Nomba answers.  Nothing is   *)
(* locked while Nomba is asked, and a new reference is stored only with    *)
(* the account that Nomba made for it.                                     *)
(***************************************************************************)
EXTENDS Integers, FiniteSets, UnitOfWork

CONSTANTS
    Submissions,    \* submissions under way at a time
    References,     \* account references: a bound on those ever made up
    NoReference     \* a profile without one

ASSUME ReferencesAreNamed == NoReference \notin References

VARIABLES
    profile,        \* the row of wallet_profiles
    submission,     \* the submissions under way
    used,           \* references made up so far
    accounts,       \* external: the references Nomba has an account for
    token,          \* the access token the client keeps
    strays,         \* history: accounts whose details did not come back
    together        \* history: two submissions have been under way at once

setupVars == <<profile, submission, used, accounts, token, strays, together>>

-----------------------------------------------------------------------------
NoProfile == [status |-> "none", ref |-> NoReference]
Profile == [status : {"account_creation_failed", "active"},
            ref : References \cup {NoReference}]

NoSubmission == [step |-> "none"]
Submission == [step : {"asking", "created", "incomplete", "refused"},
               row : {NoProfile} \cup Profile, ref : References]

SetupTypeOK ==
    /\ profile \in {NoProfile} \cup Profile
    /\ submission \in [Submissions -> {NoSubmission} \cup Submission]
    /\ used \subseteq References /\ accounts \subseteq References
    /\ token \in {"none", "valid", "expired"}
    /\ strays \subseteq References
    /\ together \in BOOLEAN

SetupInit ==
    /\ profile = NoProfile
    /\ submission = [s \in Submissions |-> NoSubmission]
    /\ used = {} /\ accounts = {}
    /\ token = "none"
    /\ strays = {}
    /\ together = FALSE

\* The details of an account are stored together with its reference.
HasAccount(p) == p.ref # NoReference

\* _map_wallet_status and the reader of the account details.
WalletStatus(p) ==
    CASE p.status = "none"                    -> "wallet_setup_required"
      [] p.status = "account_creation_failed" -> "wallet_setup_failed"
      [] p.status = "active"                  -> "active"
AccountIsShown(p) == WalletStatus(p) = "active" /\ HasAccount(p)

Forget(s) == submission' = [submission EXCEPT ![s] = NoSubmission]
Step(s, step) == submission' = [submission EXCEPT ![s].step = step]

-----------------------------------------------------------------------------
\* A wallet that is active is left as it is; a stored reference is used again.
SubmitLoad(s) ==
    /\ submission[s] = NoSubmission
    /\ ~(profile.status = "active" /\ HasAccount(profile))
    /\ \E r \in References :
          /\ IF HasAccount(profile) THEN r = profile.ref ELSE r \notin used
          /\ submission' = [submission EXCEPT ![s] = [step |-> "asking", row |-> profile,
                                                      ref |-> r]]
          /\ used' = used \cup {r}
    /\ together' = (together \/ \E o \in Submissions : submission[o] # NoSubmission)
    /\ UNCHANGED <<profile, accounts, token, strays>>

\* The token is fetched once, and never again when it has expired.
Authenticate(s) ==
    /\ submission[s].step = "asking" /\ token = "none"
    /\ \/ token' = "valid" /\ UNCHANGED submission
       \/ Step(s, "refused") /\ UNCHANGED token
    /\ UNCHANGED <<profile, used, accounts, strays, together>>

\* External: Nomba makes the account, and its answer has all details of it,
\* lacks some, or is lost, which ends the submission with nothing stored.
Create(s) ==
    /\ submission[s].step = "asking" /\ token = "valid"
    /\ accounts' = accounts \cup {submission[s].ref}
    /\ \/ Step(s, "created") /\ UNCHANGED strays
       \/ Step(s, "incomplete") /\ strays' = strays \cup {submission[s].ref}
       \/ Forget(s) /\ strays' = strays \cup {submission[s].ref}
    /\ UNCHANGED <<profile, used, token, together>>

\* Nomba refuses the data, the reference or the token.
Refuse(s) ==
    /\ submission[s].step = "asking" /\ token # "none"
    /\ Step(s, "refused")
    /\ UNCHANGED <<profile, used, accounts, token, strays, together>>

\* The one row of the user: a second insert is refused.
Stored(s, status, ref) ==
    LET row == submission[s].row IN
    IF row = NoProfile /\ profile # NoProfile THEN profile
    ELSE [status |-> Flushed(profile.status, row.status, status),
          ref    |-> Flushed(profile.ref, row.ref, ref)]

KeepRefMadeUp(s) == submission[s].ref
KeepRef(s) == submission[s].row.ref

\* The details are stored, and with them the reference they belong to.
Succeed(s) ==
    /\ submission[s].step = "created"
    /\ profile' = Stored(s, "active", submission[s].ref)
    /\ Forget(s)
    /\ UNCHANGED <<used, accounts, token, strays, together>>

\* The failure is stored; a reference that was made up is not.
Failed(s) ==
    /\ submission[s].step \in {"incomplete", "refused"}
    /\ profile' = Stored(s, "account_creation_failed", KeepRef(s))
    /\ Forget(s)
    /\ UNCHANGED <<used, accounts, token, strays, together>>

\* The process dies: its token goes as well, the account may have been made.
Die ==
    /\ token # "none" \/ \E s \in Submissions : submission[s] # NoSubmission
    /\ submission' = [s \in Submissions |-> NoSubmission]
    /\ token' = "none"
    /\ strays' = strays \cup {submission[s].ref : s \in {o \in Submissions :
                                submission[o].step = "created"}}
    /\ UNCHANGED <<profile, used, accounts, together>>

TokenExpires ==
    /\ token = "valid"
    /\ token' = "expired"
    /\ UNCHANGED <<profile, submission, used, accounts, strays, together>>

SetupNext ==
    \/ \E s \in Submissions :
          \/ SubmitLoad(s) \/ Authenticate(s) \/ Create(s) \/ Refuse(s)
          \/ Succeed(s) \/ Failed(s)
    \/ Die \/ TokenExpires

SetupSpec == SetupInit /\ [][SetupNext]_setupVars

-----------------------------------------------------------------------------
(* Properties.                                                             *)

\* The account shown to the resident exists at Nomba.  Unless two submissions
\* overlapped, a wallet with an account is active, and every other account at
\* Nomba is one whose details never came back (wallet_setup.py:80-144).
WalletIsSetUp ==
    /\ AccountIsShown(profile) => profile.ref \in accounts
    /\ ~together =>
          /\ HasAccount(profile) => profile.status = "active"
          /\ accounts \subseteq strays \cup {profile.ref}
                \cup {submission[s].ref : s \in {o \in Submissions :
                                                    submission[o].step = "created"}}
=============================================================================
