------------------------------- MODULE Wallet -------------------------------
(***************************************************************************)
(* The wallet of one resident: users.wallet_balance, the transactions rows *)
(* that explain it, and the four handlers that move money through Nomba:   *)
(*                                                                         *)
(*   POST /wallet/transfer-out   client/routes/wallet.py      transfer_out *)
(*   POST /services/pay          client/core/services/payment_service.py   *)
(*                               process_external_utility_payment          *)
(*   POST /webhooks/nomba        client/routes/webhooks.py                 *)
(*                               _apply_transfer_out_webhook               *)
(*                               _apply_wallet_funding_webhook             *)
(*                                                                         *)
(* Every request runs in a database session of its own.  A handler loads   *)
(* the balance once, awaits Nomba or the database, and writes the balance  *)
(* it computed from what it loaded (see UnitOfWork).  Each step below is   *)
(* what a handler does between two awaits that let another session in.     *)
(* Nomba answers, times out, settles or refuses a call it was sent, and    *)
(* posts webhooks that may come late, out of order and more than once.     *)
(***************************************************************************)
EXTENDS Integers, FiniteSets, Functions, UnitOfWork

CONSTANTS
    Transfers,      \* references of the transfer-out requests
    Utilities,      \* references of the utility payments
    Fundings,       \* references of the deposits into the virtual account
    Workers,        \* webhook deliveries that may be handled at once
    Amount,         \* Amount[r]: the kobo moved by reference r
    Opening,        \* the balance before the first movement
    Overlap,        \* which sessions may overlap: see MayStart
    BlankAnswers,   \* may a 2xx answer without a state come before the outcome
    NoMessage       \* what an idle worker holds

Requests == Transfers \cup Utilities
Refs == Requests \cup Fundings

ASSUME ReferencesAreDistinct ==
    /\ Transfers \cap Utilities = {}
    /\ Requests \cap Fundings = {}

ASSUME AmountsAreKobo ==
    /\ Amount \in [Refs -> Nat]
    /\ Opening \in Nat

ASSUME EnvironmentIsKnown ==
    /\ Overlap \in {"none", "distinct", "any"}
    /\ BlankAnswers \in BOOLEAN

VARIABLES
    balance,    \* users.wallet_balance
    status,     \* transactions.status, "none" while there is no row
    applied,    \* metadata_json["balance_applied"] of a transfer's row
    pc,         \* where the request with this reference is
    snap,       \* the balance the request's session loaded
    job,        \* the delivery each worker is handling, and what it loaded
    outcome,    \* what became of the reference at Nomba
    inbox,      \* webhooks Nomba has posted (each may be delivered again)
    acked,      \* webhooks answered with 200
    posted,     \* history: committed balance writes for the reference
    reconciled  \* history: transfers the webhook has debited

request == <<pc, snap>>
provider == <<outcome, inbox>>
history == <<posted, reconciled>>
vars == <<balance, status, applied, request, job, provider, acked, history>>

-----------------------------------------------------------------------------
Statuses == {"none", "pending", "success", "failed"}
Outcomes == {"none", "accepted", "settled", "refused"}

\* A Nomba event about a transfer or a deposit; its state comes from the name.
Messages == [ref : Transfers, event : {"success", "failed", "pending"}]
                \cup [ref : Fundings, event : {"success"}]

\* step: the row the worker read last; bal, st, ap: the columns it loaded.
Jobs == [step : {"idle", "txn", "user", "missing", "inserted"},
         msg : Messages \cup {NoMessage},
         bal : Int, st : Statuses, ap : BOOLEAN]

Idle == [step |-> "idle", msg |-> NoMessage,
         bal |-> 0, st |-> "none", ap |-> FALSE]

TypeOK ==
    /\ balance \in Int
    /\ status \in [Refs -> Statuses]
    /\ applied \in [Transfers -> BOOLEAN]
    /\ pc \in [Requests -> {"new", "loaded", "short", "calling", "done"}]
    /\ snap \in [Requests -> Int]
    /\ job \in [Workers -> Jobs]
    /\ outcome \in [Refs -> Outcomes]
    /\ inbox \subseteq Messages
    /\ acked \subseteq inbox
    /\ posted \in [Refs -> Nat]
    /\ reconciled \subseteq Transfers

Init ==
    /\ balance = Opening
    /\ status = [r \in Refs |-> "none"]
    /\ applied = [t \in Transfers |-> FALSE]
    /\ pc = [r \in Requests |-> "new"]
    /\ snap = [r \in Requests |-> 0]
    /\ job = [w \in Workers |-> Idle]
    /\ outcome = [r \in Refs |-> "none"]
    /\ inbox = {}
    /\ acked = {}
    /\ posted = [r \in Refs |-> 0]
    /\ reconciled = {}

\* The references a session is working on.
InFlight ==
    {r \in Requests : pc[r] \in {"loaded", "short", "calling"}}
        \cup {job[w].msg.ref : w \in {v \in Workers : job[v].step # "idle"}}

\* What the deployment lets overlap: every session, only sessions of
\* different references, or none.  The code itself excludes nothing.
MayStart(r) ==
    \/ Overlap = "any"
    \/ Overlap = "distinct" /\ r \notin InFlight
    \/ InFlight = {}

\* One more balance write for reference r was committed.
Post(r) == posted' = [posted EXCEPT ![r] = @ + 1]

-----------------------------------------------------------------------------
(* The requests of the resident's app.                                     *)

\* get_current_user loads the row of the user; its balance is what every
\* later statement of this session sees.
Load(r) ==
    /\ pc[r] = "new"
    /\ MayStart(r)
    /\ pc' = [pc EXCEPT ![r] = "loaded"]
    /\ snap' = [snap EXCEPT ![r] = balance]
    /\ UNCHANGED <<balance, status, applied, job, provider, acked, history>>

\* The session ends without another write: a rejected PIN, lookup, profile or
\* balance, an HTTP timeout (which is no NombaAPIError), or a crash.  A
\* utility payment catches the timeout, so only a crash leaves it there.
Abandon(r) ==
    /\ pc[r] \in {"loaded", "short", "calling"}
    /\ pc' = [pc EXCEPT ![r] = "done"]
    /\ UNCHANGED <<balance, status, applied, snap, job, provider, acked, history>>

\* The loaded balance covers the amount.
CoversUnchecked(r) == TRUE
Covers(r) == snap[r] >= Amount[r]

\* The pending row is committed before Nomba is called.
TransferOpen(t) ==
    /\ pc[t] = "loaded"
    /\ Covers(t)
    /\ pc' = [pc EXCEPT ![t] = "calling"]
    /\ status' = [status EXCEPT ![t] = "pending"]
    /\ applied' = [applied EXCEPT ![t] = FALSE]
    /\ UNCHANGED <<balance, snap, job, provider, acked, history>>

\* The answer is final: it says success, or it is a 2xx answer that says
\* nothing at all, whose missing state counts as success.
AnyAnswerIsFinal(t) == outcome[t] # "none"
AnswerIsFinal(t) ==
    \/ outcome[t] = "settled"
    \/ BlankAnswers /\ outcome[t] # "none"

\* What the row is set to, whichever of its four words Nomba used.
FinalStatusAsAnswered == "completed"
FinalStatus == "success"

\* A final answer: debit the balance this session loaded.
TransferFinal(t) ==
    /\ pc[t] = "calling"
    /\ AnswerIsFinal(t)
    /\ pc' = [pc EXCEPT ![t] = "done"]
    /\ status' = [status EXCEPT ![t] = Flushed(@, "pending", FinalStatus)]
    /\ applied' = [applied EXCEPT ![t] = TRUE]
    /\ balance' = Flushed(balance, snap[t], snap[t] - Amount[t])
    /\ Post(t)
    /\ UNCHANGED <<snap, job, provider, acked, reconciled>>

\* Any other answer: the status stays pending, which is no change of what the
\* session loaded, but the metadata is written, balance_applied false.
TransferQueued(t) ==
    /\ pc[t] = "calling"
    /\ outcome[t] # "none"
    /\ pc' = [pc EXCEPT ![t] = "done"]
    /\ status' = [status EXCEPT ![t] = Flushed(@, "pending", "pending")]
    /\ applied' = [applied EXCEPT ![t] = FALSE]
    /\ UNCHANGED <<balance, snap, job, provider, acked, history>>

\* NombaAPIError: no token, or a status outside 2xx, whatever Nomba goes on
\* to do with the transfer.  The metadata loses balance_applied.
TransferError(t) ==
    /\ pc[t] = "calling"
    /\ pc' = [pc EXCEPT ![t] = "done"]
    /\ status' = [status EXCEPT ![t] = Flushed(@, "pending", "failed")]
    /\ applied' = [applied EXCEPT ![t] = FALSE]
    /\ UNCHANGED <<balance, snap, job, provider, acked, history>>

\* The status a utility payment's row is inserted with.
OpenAsSuccess == "success"
OpenStatus == "pending"

\* The row is committed before the handler looks at the balance.
UtilityOpen(u) ==
    /\ pc[u] = "loaded"
    /\ pc' = [pc EXCEPT ![u] = IF Covers(u) THEN "calling" ELSE "short"]
    /\ status' = [status EXCEPT ![u] = OpenStatus]
    /\ UNCHANGED <<balance, applied, snap, job, provider, acked, history>>

\* Insufficient balance: a second commit.
UtilityDecline(u) ==
    /\ pc[u] = "short"
    /\ pc' = [pc EXCEPT ![u] = "done"]
    /\ status' = [status EXCEPT ![u] = "failed"]
    /\ UNCHANGED <<balance, applied, snap, job, provider, acked, history>>

\* Nomba's answer to a purchase carries data.id: all that is asked of a 2xx
\* answer, whatever status it reports, so that a purchase that is still under
\* way, or that Nomba has refused, may pass for one that was vended.
AnswerIsVend(u) == outcome[u] # "none"

\* Success and debit in one commit.
UtilityVended(u) ==
    /\ pc[u] = "calling"
    /\ AnswerIsVend(u)
    /\ pc' = [pc EXCEPT ![u] = "done"]
    /\ status' = [status EXCEPT ![u] = "success"]
    /\ balance' = Flushed(balance, snap[u], snap[u] - Amount[u])
    /\ Post(u)
    /\ UNCHANGED <<applied, snap, job, provider, acked, reconciled>>

\* An answer without data.id, an error or a timeout: failed, not debited.
UtilityFailed(u) ==
    /\ pc[u] = "calling"
    /\ pc' = [pc EXCEPT ![u] = "done"]
    /\ status' = [status EXCEPT ![u] = "failed"]
    /\ UNCHANGED <<balance, applied, snap, job, provider, acked, history>>

-----------------------------------------------------------------------------
(* Nomba.                                                                  *)

\* The call reached Nomba; a transfer may be reported as pending from now on.
Accept(r) ==
    /\ pc[r] = "calling"
    /\ outcome[r] = "none"
    /\ outcome' = [outcome EXCEPT ![r] = "accepted"]
    /\ inbox' = inbox \cup {m \in Messages : m.ref = r /\ m.event = "pending"}
    /\ UNCHANGED <<balance, status, applied, request, job, acked, history>>

\* Nomba settles or refuses what it accepted, once; there is a webhook for a
\* transfer and none that this service handles for a utility payment.
Resolve(r) ==
    /\ outcome[r] = "accepted"
    /\ \/ /\ outcome' = [outcome EXCEPT ![r] = "settled"]
          /\ inbox' = inbox \cup {m \in Messages : m.ref = r /\ m.event = "success"}
       \/ /\ outcome' = [outcome EXCEPT ![r] = "refused"]
          /\ inbox' = inbox \cup {m \in Messages : m.ref = r /\ m.event = "failed"}
    /\ UNCHANGED <<balance, status, applied, request, job, acked, history>>

\* Somebody pays into the virtual account.
Deposit(f) ==
    /\ outcome[f] = "none"
    /\ outcome' = [outcome EXCEPT ![f] = "settled"]
    /\ inbox' = inbox \cup {m \in Messages : m.ref = f}
    /\ UNCHANGED <<balance, status, applied, request, job, acked, history>>

-----------------------------------------------------------------------------
(* The webhook handler.                                                    *)

\* The delivery is logged and verified; the transfer handler looks for a
\* nomba_transfer_out row with the reference first, and loads it.
TransferHook(w, m) ==
    /\ job[w].step = "idle"
    /\ m \in inbox
    /\ m.ref \in Transfers
    /\ MayStart(m.ref)
    /\ job' = [job EXCEPT ![w] =
                  [step |-> "txn", msg |-> m, bal |-> 0,
                   st |-> status[m.ref], ap |-> applied[m.ref]]]
    /\ UNCHANGED <<balance, status, applied, request, provider, acked, history>>

\* A second statement loads the user.
TransferHookUser(w) ==
    /\ job[w].step = "txn"
    /\ job' = [job EXCEPT ![w].step = "user", ![w].bal = balance]
    /\ UNCHANGED <<balance, status, applied, request, provider, acked, history>>

\* The worker has answered 200 to its delivery.
Acknowledge(w) ==
    /\ acked' = acked \cup {job[w].msg}
    /\ job' = [job EXCEPT ![w] = Idle]

TransferHookReady(w, event) ==
    /\ job[w].step = "user"
    /\ job[w].msg.ref \in Transfers
    /\ job[w].msg.event = event

\* The flag this session loaded says that no session has debited yet.
AlwaysDue(w) == TRUE
DebitIsDue(w) == ~ job[w].ap

\* transfer.success: debit if that is due, whatever the balance.
TransferHookSuccess(w) ==
    LET t == job[w].msg.ref IN
    /\ TransferHookReady(w, "success")
    /\ status' = [status EXCEPT ![t] = Flushed(@, job[w].st, "success")]
    /\ IF DebitIsDue(w)
       THEN /\ balance' = Flushed(balance, job[w].bal, job[w].bal - Amount[t])
            /\ applied' = [applied EXCEPT ![t] = TRUE]
            /\ Post(t)
            /\ reconciled' = reconciled \cup {t}
       ELSE UNCHANGED <<balance, applied, history>>
    /\ Acknowledge(w)
    /\ UNCHANGED <<request, provider>>

\* transfer.failed: the status only; nothing is refunded.
TransferHookFailed(w) ==
    LET t == job[w].msg.ref IN
    /\ TransferHookReady(w, "failed")
    /\ status' = [status EXCEPT ![t] = Flushed(@, job[w].st, "failed")]
    /\ Acknowledge(w)
    /\ UNCHANGED <<balance, applied, request, provider, history>>

\* A row whose loaded status is success stays as it is.
AlwaysPending(st) == "pending"
PendingUnlessSuccess(st) == IF st = "success" THEN st ELSE "pending"

\* transfer.pending.
TransferHookPending(w) ==
    LET t == job[w].msg.ref IN
    /\ TransferHookReady(w, "pending")
    /\ status' = [status EXCEPT ![t] = Flushed(@, job[w].st, PendingUnlessSuccess(job[w].st))]
    /\ Acknowledge(w)
    /\ UNCHANGED <<balance, applied, request, provider, history>>

\* A deposit: no nomba_transfer_out row has the reference, so the funding
\* handler runs; it loads the profile, then the user.
FundingHook(w, m) ==
    /\ job[w].step = "idle"
    /\ m \in inbox
    /\ m.ref \in Fundings
    /\ MayStart(m.ref)
    /\ job' = [job EXCEPT ![w] = [Idle EXCEPT !.step = "user", !.msg = m, !.bal = balance]]
    /\ UNCHANGED <<balance, status, applied, request, provider, acked, history>>

\* Then the transaction: one that was credited ends the delivery.
FundingHookFind(w) ==
    /\ job[w].step = "user"
    /\ job[w].msg.ref \in Fundings
    /\ IF status[job[w].msg.ref] = "success"
       THEN Acknowledge(w)
       ELSE /\ job' = [job EXCEPT ![w].step = "missing"]
            /\ UNCHANGED acked
    /\ UNCHANGED <<balance, status, applied, request, provider, history>>

\* transactions.reference is unique: an INSERT waits for the session that
\* holds an uncommitted row with the same reference.
KeyIgnored(f) == TRUE
KeyIsFree(f) == ~ \E v \in Workers : job[v].step = "inserted" /\ job[v].msg.ref = f

\* No row: flush an INSERT.  It fails when a row was committed meanwhile; the
\* session is unusable then and the delivery ends with an error.
FundingHookInsert(w) ==
    LET f == job[w].msg.ref IN
    /\ job[w].step = "missing"
    /\ KeyIsFree(f)
    /\ job' = [job EXCEPT ![w] =
                  IF status[f] = "none" THEN [@ EXCEPT !.step = "inserted"] ELSE Idle]
    /\ UNCHANGED <<balance, status, applied, request, provider, acked, history>>

\* Credit what this session loaded; row and balance in one commit.
FundingHookCredit(w) ==
    LET f == job[w].msg.ref IN
    /\ job[w].step = "inserted"
    /\ status' = [status EXCEPT ![f] = "success"]
    /\ balance' = Flushed(balance, job[w].bal, job[w].bal + Amount[f])
    /\ Post(f)
    /\ Acknowledge(w)
    /\ UNCHANGED <<applied, request, provider, reconciled>>

\* A handler that answers 200 whatever happened to it.
HookCrashAnswered(w) ==
    /\ job[w].step # "idle"
    /\ Acknowledge(w)
    /\ UNCHANGED <<balance, status, applied, request, provider, history>>

\* The process dies, or the connection does: the transaction is rolled back.
HookCrash(w) ==
    /\ job[w].step # "idle"
    /\ job' = [job EXCEPT ![w] = Idle]
    /\ UNCHANGED <<balance, status, applied, request, provider, acked, history>>

-----------------------------------------------------------------------------
TransferRequest(t) ==
    TransferOpen(t) \/ TransferFinal(t) \/ TransferQueued(t) \/ TransferError(t)

UtilityRequest(u) ==
    UtilityOpen(u) \/ UtilityDecline(u) \/ UtilityVended(u) \/ UtilityFailed(u)

Nomba ==
    \/ \E r \in Requests : Accept(r) \/ Resolve(r)
    \/ \E f \in Fundings : Deposit(f)

TransferHookStep(w) ==
    TransferHookUser(w) \/ TransferHookSuccess(w) \/ TransferHookFailed(w) \/ TransferHookPending(w)

FundingHookStep(w) ==
    FundingHookFind(w) \/ FundingHookInsert(w) \/ FundingHookCredit(w)

Delivery(w) == \E m \in inbox : TransferHook(w, m) \/ FundingHook(w, m)

Next ==
    \/ \E r \in Requests : Load(r) \/ Abandon(r)
    \/ \E t \in Transfers : TransferRequest(t)
    \/ \E u \in Utilities : UtilityRequest(u)
    \/ Nomba
    \/ \E w \in Workers :
          Delivery(w) \/ TransferHookStep(w) \/ FundingHookStep(w) \/ HookCrash(w)

Spec == Init /\ [][Next]_vars

\* Every session ends one way or another (httpx gives up after 30 s, a dead
\* process has none), Nomba repeats a success webhook until it is answered with
\* 200, and the process does not die at the same point of its handling forever.
Ends(r) ==
    \/ Abandon(r)
    \/ r \in Transfers /\ TransferRequest(r)
    \/ r \in Utilities /\ UtilityRequest(r)

Handles(w, r) ==
    job[w].step # "idle" /\ job[w].msg.ref = r /\ job[w].msg.event = "success"

Deliver(m) == \E w \in Workers : TransferHook(w, m) \/ FundingHook(w, m)

Fairness ==
    /\ WF_vars(\E r \in Requests : Ends(r))
    /\ WF_vars(\E w \in Workers : TransferHookStep(w) \/ FundingHookStep(w) \/ HookCrash(w))
    /\ \A m \in {n \in Messages : n.event = "success"} :
          SF_vars(m \notin acked /\ Deliver(m))
    /\ \A t \in Transfers, w \in Workers :
          /\ SF_vars(Handles(w, t) /\ TransferHookUser(w))
          /\ SF_vars(Handles(w, t) /\ TransferHookSuccess(w))
    /\ \A f \in Fundings, w \in Workers :
          /\ SF_vars(Handles(w, f) /\ FundingHookFind(w))
          /\ SF_vars(Handles(w, f) /\ FundingHookInsert(w))
          /\ SF_vars(Handles(w, f) /\ FundingHookCredit(w))

FairSpec == Spec /\ Fairness

-----------------------------------------------------------------------------
(* Properties.                                                             *)

\* A deposit is credited at most once, however often and however concurrently
\* its webhook is delivered (webhooks.py:211-257): the credited row and the
\* unique reference exclude a second credit.
FundingCreditedOnce == \A f \in Fundings : posted[f] <= 1

\* The balance is negative only after a webhook has debited a transfer: the
\* handlers that check the balance (wallet.py:384, payment_service.py:979) never
\* overdraw it, whatever overlaps, since they write what they checked.
NegativeOnlyByReconciliation == balance < 0 => reconciled # {}

\* The resident is never charged for a transfer Nomba has not settled, by the
\* request or by a webhook (wallet.py:425-441, webhooks.py:343).  Blank answers
\* break this, and a utility payment does not promise it: see AnswerIsVend.
DebitsAreSettled == \A t \in Transfers : posted[t] > 0 => outcome[t] = "settled"

\* A success webhook that was answered with 200 has had its effect on the
\* balance: it will not be repeated (webhooks.py:291, 367, before the answer).
AcknowledgedIsBooked ==
    \A m \in acked : m.event = "success" => posted[m.ref] > 0

\* The app shows a utility payment as successful exactly when its one debit
\* is committed (payment_service.py:1041-1053).
UtilityDebitedIffSuccess ==
    \A u \in Utilities : posted[u] = IF status[u] = "success" THEN 1 ELSE 0

\* One session at most writes a debit for a transfer (wallet.py:437,
\* webhooks.py:335-348).
TransferDebitedOnce == \A t \in Transfers : posted[t] <= 1

\* The requests that were debited, whoever debited them.
Debited == {r \in Requests : posted[r] > 0}

\* The resident loses no more than the amounts of the requests that were
\* debited, each once (wallet.py:443, webhooks.py:345-347): the flag
\* balance_applied is there for that.
NotOvercharged == balance >= Opening - SumFunctionOnSet(Amount, Debited)

\* A transfer shown as failed has cost nothing: nothing is ever refunded.
FailedTransferIsFree == \A t \in Transfers : status[t] = "failed" => posted[t] = 0

\* A transfer shown as successful stays so, whatever is delivered late
\* (webhooks.py:361-364).
SuccessIsFinal ==
    [][\A t \in Transfers : status[t] = "success" => status'[t] = "success"]_vars

\* A failed utility payment was not vended: the app is told that it "could not be
\* processed" and to try again (payment_service.py:1100-1103).
FailedUtilityIsNotVended ==
    \A u \in Utilities : status[u] = "failed" => outcome[u] # "settled"

\* What Nomba has settled reaches the balance in the end.
SettledIsBooked ==
    \A r \in Transfers \cup Fundings : outcome[r] = "settled" ~> posted[r] > 0

\* One session at a time: the balance is the opening one plus every settled
\* movement, each booked once and whole.
Books == INSTANCE Ledger WITH
    Entries <- Refs,
    Effect  <- [r \in Refs |-> IF r \in Fundings THEN Amount[r] ELSE - Amount[r]],
    booked  <- {r \in Refs : posted[r] > 0}

ImplementsLedger == Books!Spec
=============================================================================
