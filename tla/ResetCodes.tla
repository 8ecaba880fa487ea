----------------------------- MODULE ResetCodes -----------------------------
(***************************************************************************)
(* The codes that reset the password of one account (client/routes/auth.py *)
(* request_password_reset and reset_password, core/otp_hardening.py).      *)
(*                                                                         *)
(* A request counts the codes issued of late and then issues one; another  *)
(* one looks for a good code and then sets the password.  Neither holds a  *)
(* lock between the two; `rushed' and `shared' tell when that mattered.    *)
(***************************************************************************)
EXTENDS Integers, Sequences, FiniteSets, UnitOfWork

CONSTANTS
    Asks,          \* requests the service works on at a time
    Cooldown,      \* OTP_RESEND_COOLDOWN_SECONDS
    Hour,          \* the window of the limit below
    HourlyLimit,   \* OTP_HOURLY_LIMIT
    Life,          \* how long a code is good
    MaxTime,       \* bound: the clock stops here
    MaxCodes       \* bound on the codes of a behaviour

ASSUME ResetCodesAreBounded ==
    /\ {Cooldown, Hour, HourlyLimit, Life, MaxTime, MaxCodes} \subseteq Nat
    /\ Cooldown <= Hour

VARIABLES
    time,
    codes,      \* otp_codes of this address, type "reset"
    password,   \* the code the password was set with, 0: the first password
    ask,        \* the requests under way
    rushed,     \* history: codes issued while another request counted
    resets,     \* history: how often each code has set the password
    shared      \* history: codes that two requests have found good at once

resetCodesVars == <<time, codes, password, ask, rushed, resets, shared>>

-----------------------------------------------------------------------------
Code == [at : 0..MaxTime, used : BOOLEAN]
Quiet == [op |-> "quiet"]
Ask == [op : {"issue"}, at : 0..MaxTime, together : BOOLEAN]
       \cup [op : {"reset"}, code : 1..MaxCodes]

ResetCodesTypeOK ==
    /\ time \in 0..MaxTime
    /\ codes \in Seq(Code) /\ Len(codes) <= MaxCodes
    /\ password \in 0..Len(codes)
    /\ ask \in [Asks -> {Quiet} \cup Ask]
    /\ rushed \subseteq 1..MaxCodes /\ shared \subseteq 1..MaxCodes
    /\ resets \in [1..MaxCodes -> Nat]

ResetCodesInit ==
    /\ time = 0
    /\ codes = << >>
    /\ password = 0
    /\ ask = [a \in Asks |-> Quiet]
    /\ rushed = {}
    /\ resets = [i \in 1..MaxCodes |-> 0]
    /\ shared = {}

TimePasses ==
    /\ time < MaxTime
    /\ time' = time + 1
    /\ UNCHANGED <<codes, password, ask, rushed, resets, shared>>

\* The codes issued at a time not before t.
IssuedSince(t) == {i \in DOMAIN codes : codes[i].at >= t}

\* A pause after each code, and only so many in an hour.
CanIssueAfterCooldown == IssuedSince(time - Cooldown) = {}
CanIssue ==
    /\ IssuedSince(time - Cooldown) = {}
    /\ Cardinality(IssuedSince(time - Hour)) < HourlyLimit

Others(a, op) == {other \in Asks \ {a} : ask[other].op = op}

IssueLoad(a) ==
    /\ ask[a] = Quiet
    /\ CanIssue
    /\ ask' = [other \in Asks |->
                  IF other = a
                  THEN [op |-> "issue", at |-> time, together |-> Others(a, "issue") # {}]
                  ELSE IF ask[other].op = "issue" THEN [ask[other] EXCEPT !.together = TRUE]
                  ELSE ask[other]]
    /\ UNCHANGED <<time, codes, password, rushed, resets, shared>>

\* The row bears the time its transaction began.  The mail that follows may be
\* lost, which leaves a code that nobody knows.
IssueCode(a) ==
    /\ ask[a].op = "issue"
    /\ Len(codes) < MaxCodes
    /\ codes' = Append(codes, [at |-> ask[a].at, used |-> FALSE])
    /\ rushed' = IF ask[a].together THEN rushed \cup {Len(codes) + 1} ELSE rushed
    /\ ask' = [ask EXCEPT ![a] = Quiet]
    /\ UNCHANGED <<time, password, resets, shared>>

Good(i) == ~codes[i].used /\ time < codes[i].at + Life

ResetLoad(a, i) ==
    /\ ask[a] = Quiet
    /\ Good(i)
    /\ ask' = [ask EXCEPT ![a] = [op |-> "reset", code |-> i]]
    /\ shared' = IF \E other \in Others(a, "reset") : ask[other].code = i
                 THEN shared \cup {i} ELSE shared
    /\ UNCHANGED <<time, codes, password, rushed, resets>>

\* The password and the code are written by one commit.
Reset(a) ==
    /\ ask[a].op = "reset"
    /\ LET i == ask[a].code IN
          /\ password' = i
          /\ codes' = [codes EXCEPT ![i].used = Flushed(@, FALSE, TRUE)]
          /\ resets' = [resets EXCEPT ![i] = @ + 1]
    /\ ask' = [ask EXCEPT ![a] = Quiet]
    /\ UNCHANGED <<time, rushed, shared>>

Fail(a) ==
    /\ ask[a] # Quiet
    /\ ask' = [ask EXCEPT ![a] = Quiet]
    /\ UNCHANGED <<time, codes, password, rushed, resets, shared>>

ResetCodesNext ==
    \/ TimePasses
    \/ \E a \in Asks :
          \/ IssueLoad(a) \/ IssueCode(a) \/ Reset(a) \/ Fail(a)
          \/ \E i \in DOMAIN codes : ResetLoad(a, i)

ResetCodesSpec == ResetCodesInit /\ [][ResetCodesNext]_resetCodesVars

-----------------------------------------------------------------------------
(* Properties.                                                             *)

\* Codes are at least the pause apart and at most the limit in an hour, and a
\* code sets the password once (otp_hardening.py:42-78, auth.py:519-541),
\* except for codes that requests overlapping each other issued or used.
CodesAreLimited ==
    LET calm == DOMAIN codes \ rushed IN
    /\ \A i, j \in calm : i < j => codes[j].at > codes[i].at + Cooldown
    /\ \A i \in calm :
          Cardinality({j \in calm : codes[j].at \in codes[i].at..(codes[i].at + Hour)})
             <= HourlyLimit
    /\ \A i \in DOMAIN codes \ shared : resets[i] <= 1
=============================================================================
