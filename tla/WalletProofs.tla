---------------------------- MODULE WalletProofs ----------------------------
(***************************************************************************)
(* Theorems about Wallet for every set of references, amounts, workers,    *)
(* opening balance and degree of overlap.                                  *)
(***************************************************************************)
EXTENDS Wallet, SumTheorems, TLAPS

\* What a worker holds is a delivery, and one it may hold in that step: only a
\* deposit is ever missing or inserted, only a transfer is at "txn".
JobOK ==
    \A w \in Workers :
        /\ job[w].step # "idle" => job[w].msg \in inbox
        /\ job[w].step = "txn" => job[w].msg.ref \in Transfers
        /\ job[w].step \in {"missing", "inserted"} => job[w].msg.ref \in Fundings

TypeInv == TypeOK /\ JobOK

LEMMA RefsPartition ==
    /\ Transfers \subseteq Requests /\ Utilities \subseteq Requests
    /\ Requests \subseteq Refs /\ Fundings \subseteq Refs
    /\ \A t \in Transfers : t \notin Fundings /\ t \notin Utilities
    /\ \A r \in Requests : r \notin Fundings
BY ReferencesAreDistinct DEF Requests, Refs

LEMMA AmountType == \A r \in Refs : Amount[r] \in Nat
BY AmountsAreKobo

LEMMA MessageRef ==
    \A m \in Messages : m.ref \in Refs /\ m.ref \in Transfers \cup Fundings
BY RefsPartition DEF Messages

LEMMA IdleIsAJob == Idle \in Jobs
BY DEF Idle, Jobs, Statuses

LEMMA FlushedStatus ==
    ASSUME NEW a \in Statuses, NEW b, NEW c \in Statuses
    PROVE  Flushed(a, b, c) \in Statuses
BY DEF Flushed

\* Every column keeps its type (the columns of client/core/models.py users and
\* transactions), and every delivery in progress is one Nomba has posted.
THEOREM TypeCorrect == Spec => []TypeInv
<1>1. Init => TypeInv
  BY IdleIsAJob, AmountsAreKobo DEF Init, TypeInv, TypeOK, JobOK, Statuses, Outcomes, Idle
<1>2. TypeInv /\ [Next]_vars => TypeInv'
  <2> SUFFICES ASSUME TypeInv, [Next]_vars PROVE TypeInv'
    OBVIOUS
  <2> USE RefsPartition, AmountType, MessageRef, IdleIsAJob DEF TypeInv, TypeOK, JobOK
  <2>1. ASSUME NEW r \in Requests, Load(r) \/ Abandon(r) PROVE TypeInv'
    BY <2>1 DEF Load, Abandon, provider, history
  <2>2. ASSUME NEW t \in Transfers, TransferRequest(t) PROVE TypeInv'
    <3>1. CASE TransferOpen(t)
      BY <3>1 DEF TransferOpen, provider, history, Statuses
    <3>2. CASE TransferFinal(t)
      <4>1. Flushed(status[t], "pending", FinalStatus) \in Statuses
        BY FlushedStatus DEF FinalStatus, Statuses
      <4>2. Flushed(balance, snap[t], snap[t] - Amount[t]) \in Int
        BY DEF Flushed
      <4> QED BY <3>2, <4>1, <4>2 DEF TransferFinal, Post, provider
    <3>3. CASE TransferQueued(t)
      BY <3>3, FlushedStatus DEF TransferQueued, provider, history, Statuses
    <3>4. CASE TransferError(t)
      BY <3>4, FlushedStatus DEF TransferError, provider, history, Statuses
    <3> QED BY <2>2, <3>1, <3>2, <3>3, <3>4 DEF TransferRequest
  <2>3. ASSUME NEW u \in Utilities, UtilityRequest(u) PROVE TypeInv'
    <3>1. CASE UtilityOpen(u)
      BY <3>1 DEF UtilityOpen, OpenStatus, provider, history, Statuses
    <3>2. CASE UtilityDecline(u)
      BY <3>2 DEF UtilityDecline, provider, history, Statuses
    <3>3. CASE UtilityVended(u)
      <4>1. Flushed(balance, snap[u], snap[u] - Amount[u]) \in Int
        BY DEF Flushed
      <4> QED BY <3>3, <4>1 DEF UtilityVended, Post, provider, Statuses
    <3>4. CASE UtilityFailed(u)
      BY <3>4 DEF UtilityFailed, provider, history, Statuses
    <3> QED BY <2>3, <3>1, <3>2, <3>3, <3>4 DEF UtilityRequest
  <2>4. CASE Nomba
    BY <2>4 DEF Nomba, Accept, Resolve, Deposit, request, history, Outcomes
  <2>5. ASSUME NEW w \in Workers, Delivery(w) PROVE TypeInv'
    <3> PICK m \in inbox : TransferHook(w, m) \/ FundingHook(w, m)
      BY <2>5 DEF Delivery
    <3>1. CASE TransferHook(w, m)
      BY <3>1 DEF TransferHook, Jobs, request, provider, history
    <3>2. CASE FundingHook(w, m)
      BY <3>2 DEF FundingHook, Idle, Jobs, Statuses, request, provider, history
    <3> QED BY <3>1, <3>2
  <2>6. ASSUME NEW w \in Workers, TransferHookStep(w) PROVE TypeInv'
    <3>1. CASE TransferHookUser(w)
      BY <3>1 DEF TransferHookUser, Jobs, request, provider, history
    <3>2. CASE TransferHookSuccess(w)
      <4> DEFINE t == job[w].msg.ref
      <4>1. /\ t \in Transfers /\ job[w].msg \in inbox /\ job[w].bal \in Int
            /\ job[w].st \in Statuses
        BY <3>2 DEF TransferHookSuccess, TransferHookReady, Jobs
      <4>2. Flushed(status[t], job[w].st, "success") \in Statuses
        BY <4>1, FlushedStatus DEF Statuses
      <4>3. Flushed(balance, job[w].bal, job[w].bal - Amount[t]) \in Int
        BY <4>1 DEF Flushed
      <4>4. balance' \in Int /\ status' \in [Refs -> Statuses]
        BY <3>2, <4>1, <4>2, <4>3 DEF TransferHookSuccess
      <4>5. /\ applied' \in [Transfers -> BOOLEAN] /\ posted' \in [Refs -> Nat]
            /\ reconciled' \subseteq Transfers
        <5>1. CASE DebitIsDue(w)
          <6>1. /\ applied' = [applied EXCEPT ![t] = TRUE]
                /\ posted' = [posted EXCEPT ![t] = @ + 1]
                /\ reconciled' = reconciled \cup {t}
            BY <3>2, <5>1 DEF TransferHookSuccess, Post
          <6> QED BY <4>1, <6>1
        <5>2. CASE ~ DebitIsDue(w)
          BY <3>2, <5>2 DEF TransferHookSuccess, history
        <5> QED BY <5>1, <5>2
      <4>6. job' = [job EXCEPT ![w] = Idle] /\ acked' = acked \cup {job[w].msg}
        BY <3>2 DEF TransferHookSuccess, Acknowledge
      <4>7. UNCHANGED <<pc, snap, outcome, inbox>>
        BY <3>2 DEF TransferHookSuccess, request, provider
      <4>8. JobOK'
        BY <4>6, <4>7 DEF Idle
      <4> QED BY <4>1, <4>4, <4>5, <4>6, <4>7, <4>8
    <3>3. CASE TransferHookFailed(w)
      <4>1. /\ job[w].msg.ref \in Transfers /\ job[w].msg \in inbox
            /\ Flushed(status[job[w].msg.ref], job[w].st, "failed") \in Statuses
        BY <3>3, FlushedStatus DEF TransferHookFailed, TransferHookReady, Statuses
      <4> QED BY <3>3, <4>1
          DEF TransferHookFailed, Acknowledge, Idle, request, provider, history
    <3>4. CASE TransferHookPending(w)
      <4>1. /\ job[w].msg.ref \in Transfers /\ job[w].msg \in inbox
            /\ job[w].st \in Statuses
        BY <3>4 DEF TransferHookPending, TransferHookReady, Jobs
      <4>2. PendingUnlessSuccess(job[w].st) \in Statuses
        BY <4>1 DEF PendingUnlessSuccess, Statuses
      <4>3. Flushed(status[job[w].msg.ref], job[w].st, PendingUnlessSuccess(job[w].st)) \in Statuses
        BY <4>1, <4>2, FlushedStatus
      <4> QED BY <3>4, <4>1, <4>3
          DEF TransferHookPending, Acknowledge, Idle, request, provider, history
    <3> QED BY <2>6, <3>1, <3>2, <3>3, <3>4 DEF TransferHookStep
  <2>7. ASSUME NEW w \in Workers, FundingHookStep(w) PROVE TypeInv'
    <3>1. CASE FundingHookFind(w)
      <4>1. job[w].msg.ref \in Fundings /\ job[w].msg \in inbox
        BY <3>1 DEF FundingHookFind
      <4>2. CASE Acknowledge(w)
        BY <3>1, <4>1, <4>2 DEF FundingHookFind, Acknowledge, Idle, request, provider, history
      <4>3. CASE job' = [job EXCEPT ![w].step = "missing"] /\ UNCHANGED acked
        BY <3>1, <4>1, <4>3 DEF FundingHookFind, Jobs, request, provider, history
      <4> QED BY <3>1, <4>2, <4>3 DEF FundingHookFind
    <3>2. CASE FundingHookInsert(w)
      BY <3>2 DEF FundingHookInsert, Idle, Jobs, request, provider, history
    <3>3. CASE FundingHookCredit(w)
      <4> DEFINE f == job[w].msg.ref
      <4>1. f \in Fundings /\ job[w].msg \in inbox /\ job[w].bal \in Int
        BY <3>3 DEF FundingHookCredit, Jobs
      <4>2. Flushed(balance, job[w].bal, job[w].bal + Amount[f]) \in Int
        BY <4>1 DEF Flushed
      <4> QED BY <3>3, <4>1, <4>2
          DEF FundingHookCredit, Acknowledge, Post, Idle, Statuses, request, provider
    <3> QED BY <2>7, <3>1, <3>2, <3>3 DEF FundingHookStep
  <2>8. ASSUME NEW w \in Workers, HookCrash(w) PROVE TypeInv'
    BY <2>8 DEF HookCrash, Idle, request, provider, history
  <2>9. CASE UNCHANGED vars
    BY <2>9 DEF vars, request, provider, history
  <2> QED BY <2>1, <2>2, <2>3, <2>4, <2>5, <2>6, <2>7, <2>8, <2>9 DEF Next
<1>3. QED
  BY <1>1, <1>2, PTL DEF Spec

\* The same without the invariant of the deliveries: the columns of users and
\* transactions keep their types (client/core/models.py:195, 526-531).
THEOREM WalletTypes == Spec => []TypeOK
BY TypeCorrect, PTL DEF TypeInv

-----------------------------------------------------------------------------
(* Deposits.                                                               *)

\* The strengthening: the row of a deposit is there exactly when it has been
\* credited, and an uncommitted row has no rival, committed or not.
FundingInv ==
    /\ \A f \in Fundings :
          /\ status[f] \in {"none", "success"}
          /\ posted[f] = IF status[f] = "success" THEN 1 ELSE 0
    /\ \A v, w \in Workers :
          job[w].step = "inserted" =>
              /\ status[job[w].msg.ref] = "none"
              /\ job[v].step = "inserted" /\ job[v].msg.ref = job[w].msg.ref => v = w

LEMMA FundingInvImplies == FundingInv => FundingCreditedOnce
BY DEF FundingInv, FundingCreditedOnce

\* A step that leaves deposits' rows and counts alone, and only moves workers
\* to steps other than "inserted", keeps the strengthening.
LEMMA FundingFrame ==
    ASSUME TypeInv, FundingInv,
           \A f \in Fundings : status'[f] = status[f] /\ posted'[f] = posted[f],
           \A w \in Workers : job'[w].step # "inserted" \/ job'[w] = job[w]
    PROVE  FundingInv'
BY DEF FundingInv, TypeInv, JobOK

LEMMA DepositsHaveRows == Spec => []FundingInv
<1>1. Init => FundingInv
  BY RefsPartition DEF Init, FundingInv, Idle
<1>2. TypeInv /\ FundingInv /\ [Next]_vars => FundingInv'
  <2> SUFFICES ASSUME TypeInv, FundingInv, [Next]_vars PROVE FundingInv'
    OBVIOUS
  <2> USE RefsPartition
  <2>1. ASSUME NEW r \in Requests, Load(r) \/ Abandon(r) PROVE FundingInv'
    BY <2>1, FundingFrame DEF Load, Abandon, history
  <2>2. ASSUME NEW t \in Transfers, TransferRequest(t) PROVE FundingInv'
    <3>1. UNCHANGED job
      BY <2>2 DEF TransferRequest, TransferOpen, TransferFinal, TransferQueued, TransferError
    <3>2. \A f \in Fundings : status'[f] = status[f] /\ posted'[f] = posted[f]
      BY <2>2 DEF TransferRequest, TransferOpen, TransferFinal, TransferQueued,
                  TransferError, Post, history, TypeInv, TypeOK
    <3> QED BY <3>1, <3>2, FundingFrame
  <2>3. ASSUME NEW u \in Utilities, UtilityRequest(u) PROVE FundingInv'
    <3>1. UNCHANGED job
      BY <2>3 DEF UtilityRequest, UtilityOpen, UtilityDecline, UtilityVended, UtilityFailed
    <3>2. \A f \in Fundings : status'[f] = status[f] /\ posted'[f] = posted[f]
      BY <2>3 DEF UtilityRequest, UtilityOpen, UtilityDecline, UtilityVended,
                  UtilityFailed, Post, history, TypeInv, TypeOK
    <3> QED BY <3>1, <3>2, FundingFrame
  <2>4. CASE Nomba
    BY <2>4, FundingFrame DEF Nomba, Accept, Resolve, Deposit, history
  <2>5. ASSUME NEW w \in Workers, Delivery(w) PROVE FundingInv'
    <3>1. UNCHANGED <<status, posted>>
      BY <2>5 DEF Delivery, TransferHook, FundingHook, history
    <3>2. \A v \in Workers : job'[v].step # "inserted" \/ job'[v] = job[v]
      <4> PICK m \in inbox : TransferHook(w, m) \/ FundingHook(w, m)
        BY <2>5 DEF Delivery
      <4>1. CASE TransferHook(w, m)
        BY <4>1 DEF TransferHook, TypeInv, TypeOK
      <4>2. CASE FundingHook(w, m)
        BY <4>2 DEF FundingHook, Idle, TypeInv, TypeOK
      <4> QED BY <4>1, <4>2
    <3> QED BY <3>1, <3>2, FundingFrame
  <2>6. ASSUME NEW w \in Workers, TransferHookStep(w) PROVE FundingInv'
    <3>1. \A v \in Workers : job'[v].step # "inserted" \/ job'[v] = job[v]
      <4>1. CASE TransferHookUser(w)
        BY <4>1 DEF TransferHookUser, TypeInv, TypeOK
      <4>2. CASE Acknowledge(w)
        BY <4>2 DEF Acknowledge, Idle, TypeInv, TypeOK
      <4> QED BY <2>6, <4>1, <4>2 DEF TransferHookStep, TransferHookSuccess,
                                      TransferHookFailed, TransferHookPending
    <3>2. \A f \in Fundings : status'[f] = status[f] /\ posted'[f] = posted[f]
      BY <2>6 DEF TransferHookStep, TransferHookUser, TransferHookSuccess,
                  TransferHookFailed, TransferHookPending, TransferHookReady, Post,
                  history, TypeInv, TypeOK
    <3> QED BY <3>1, <3>2, FundingFrame
  <2>7. ASSUME NEW w \in Workers, FundingHookStep(w) PROVE FundingInv'
    <3>1. CASE FundingHookFind(w)
      <4>1. \A v \in Workers : job'[v].step # "inserted" \/ job'[v] = job[v]
        <5>1. CASE Acknowledge(w)
          BY <5>1 DEF Acknowledge, Idle, TypeInv, TypeOK
        <5>2. CASE job' = [job EXCEPT ![w].step = "missing"]
          BY <5>2 DEF TypeInv, TypeOK
        <5> QED BY <3>1, <5>1, <5>2 DEF FundingHookFind
      <4> QED BY <3>1, <4>1, FundingFrame DEF FundingHookFind, history
    <3>2. CASE FundingHookInsert(w)
      BY <3>2 DEF FundingHookInsert, KeyIsFree, FundingInv, Idle, history, TypeInv, TypeOK, JobOK
    <3>3. CASE FundingHookCredit(w)
      <4> DEFINE f == job[w].msg.ref
      <4>1. f \in Fundings
        BY <3>3 DEF FundingHookCredit, TypeInv, JobOK
      <4>2. /\ status' = [status EXCEPT ![f] = "success"]
            /\ posted' = [posted EXCEPT ![f] = @ + 1]
            /\ job' = [job EXCEPT ![w] = Idle]
        BY <3>3 DEF FundingHookCredit, Post, Acknowledge
      <4>3. status[f] = "none" /\ posted[f] = 0
        BY <3>3, <4>1 DEF FundingHookCredit, FundingInv
      <4>4. \A g \in Fundings :
              /\ status'[g] \in {"none", "success"}
              /\ posted'[g] = IF status'[g] = "success" THEN 1 ELSE 0
        BY <4>1, <4>2, <4>3 DEF FundingInv, TypeInv, TypeOK
      <4>5. \A v \in Workers :
              job'[v].step = "inserted" => v # w /\ job'[v] = job[v] /\ job[v].msg.ref # f
        BY <3>3, <4>2 DEF FundingHookCredit, FundingInv, Idle, TypeInv, TypeOK
      <4>6. \A v \in Workers : job'[v].step = "inserted" => status'[job'[v].msg.ref] = "none"
        BY <4>2, <4>5 DEF FundingInv, TypeInv, TypeOK, JobOK
      <4> QED BY <4>4, <4>5, <4>6 DEF FundingInv
    <3> QED BY <2>7, <3>1, <3>2, <3>3 DEF FundingHookStep
  <2>8. ASSUME NEW w \in Workers, HookCrash(w) PROVE FundingInv'
    <3>1. \A v \in Workers : job'[v].step # "inserted" \/ job'[v] = job[v]
      BY <2>8 DEF HookCrash, Idle, TypeInv, TypeOK
    <3> QED BY <2>8, <3>1, FundingFrame DEF HookCrash, history
  <2>9. CASE UNCHANGED vars
    BY <2>9, FundingFrame DEF vars, history
  <2> QED BY <2>1, <2>2, <2>3, <2>4, <2>5, <2>6, <2>7, <2>8, <2>9 DEF Next
<1>3. QED
  BY <1>1, <1>2, TypeCorrect, PTL DEF Spec

\* A deposit is credited at most once whatever is delivered, repeated, crashed
\* or handled concurrently (webhooks.py:211-291).
THEOREM DepositsAreCreditedOnce == Spec => []FundingCreditedOnce
BY DepositsHaveRows, FundingInvImplies, PTL

-----------------------------------------------------------------------------
(* Overdrafts.                                                             *)

\* The strengthening: until a webhook debits, no session has loaded a negative
\* balance either; and a session that calls Nomba can pay for the call.
SolventInv ==
    /\ \A r \in Requests : pc[r] = "calling" => snap[r] >= Amount[r]
    /\ reconciled = {} =>
          /\ balance >= 0
          /\ \A r \in Requests : snap[r] >= 0
          /\ \A w \in Workers : job[w].bal >= 0

LEMMA SolventInvImplies == TypeOK /\ SolventInv => NegativeOnlyByReconciliation
BY DEF SolventInv, NegativeOnlyByReconciliation, TypeOK

\* Requests never overdraw the wallet, however they interleave: only the
\* reconciling webhook, which does not look at the balance, can
\* (wallet.py:384, payment_service.py:979, webhooks.py:346).
THEOREM OnlyReconciliationOverdraws == Spec => []NegativeOnlyByReconciliation
<1>1. Init => SolventInv
  BY AmountsAreKobo DEF Init, SolventInv, Idle
<1>2. TypeInv /\ SolventInv /\ [Next]_vars => SolventInv'
  <2> SUFFICES ASSUME TypeInv, SolventInv, [Next]_vars PROVE SolventInv'
    OBVIOUS
  <2> USE RefsPartition DEF TypeInv, TypeOK
  <2>1. ASSUME NEW r \in Requests, Load(r) \/ Abandon(r) PROVE SolventInv'
    BY <2>1 DEF Load, Abandon, history, SolventInv
  <2>2. ASSUME NEW t \in Transfers, TransferRequest(t) PROVE SolventInv'
    <3>1. CASE TransferOpen(t)
      BY <3>1 DEF TransferOpen, Covers, history, SolventInv
    <3>2. CASE TransferFinal(t)
      <4>1. Amount[t] \in Nat /\ snap[t] \in Int /\ snap[t] >= Amount[t]
        BY <3>2, AmountType DEF TransferFinal, SolventInv
      <4>2. reconciled = {} => balance' >= 0
        BY <3>2, <4>1 DEF TransferFinal, Flushed, SolventInv
      <4> QED BY <3>2, <4>2 DEF TransferFinal, SolventInv
    <3>3. CASE TransferQueued(t) \/ TransferError(t)
      BY <3>3 DEF TransferQueued, TransferError, history, SolventInv
    <3> QED BY <2>2, <3>1, <3>2, <3>3 DEF TransferRequest
  <2>3. ASSUME NEW u \in Utilities, UtilityRequest(u) PROVE SolventInv'
    <3>1. CASE UtilityOpen(u)
      BY <3>1 DEF UtilityOpen, Covers, history, SolventInv
    <3>2. CASE UtilityVended(u)
      <4>1. Amount[u] \in Nat /\ snap[u] \in Int /\ snap[u] >= Amount[u]
        BY <3>2, AmountType DEF UtilityVended, SolventInv
      <4>2. reconciled = {} => balance' >= 0
        BY <3>2, <4>1 DEF UtilityVended, Flushed, SolventInv
      <4> QED BY <3>2, <4>2 DEF UtilityVended, SolventInv
    <3>3. CASE UtilityDecline(u) \/ UtilityFailed(u)
      BY <3>3 DEF UtilityDecline, UtilityFailed, history, SolventInv
    <3> QED BY <2>3, <3>1, <3>2, <3>3 DEF UtilityRequest
  <2>4. CASE Nomba
    BY <2>4 DEF Nomba, Accept, Resolve, Deposit, request, history, SolventInv
  <2>5. ASSUME NEW w \in Workers, Delivery(w) PROVE SolventInv'
    <3> PICK m \in inbox : TransferHook(w, m) \/ FundingHook(w, m)
      BY <2>5 DEF Delivery
    <3>1. CASE TransferHook(w, m)
      BY <3>1 DEF TransferHook, request, history, SolventInv
    <3>2. CASE FundingHook(w, m)
      BY <3>2 DEF FundingHook, Idle, request, history, SolventInv
    <3> QED BY <3>1, <3>2
  <2>6. ASSUME NEW w \in Workers, TransferHookStep(w) PROVE SolventInv'
    <3>1. CASE TransferHookUser(w)
      BY <3>1 DEF TransferHookUser, request, history, SolventInv
    <3>2. CASE TransferHookSuccess(w)
      BY <3>2 DEF TransferHookSuccess, Acknowledge, Idle, request, history, SolventInv
    <3>3. CASE TransferHookFailed(w)
      BY <3>3 DEF TransferHookFailed, Acknowledge, Idle, request, history, SolventInv
    <3>4. CASE TransferHookPending(w)
      BY <3>4 DEF TransferHookPending, Acknowledge, Idle, request, history, SolventInv
    <3> QED BY <2>6, <3>1, <3>2, <3>3, <3>4 DEF TransferHookStep
  <2>7. ASSUME NEW w \in Workers, FundingHookStep(w) PROVE SolventInv'
    <3>1. CASE FundingHookFind(w)
      <4>1. \A v \in Workers : job'[v].bal = job[v].bal \/ job'[v].bal = 0
        <5>1. CASE Acknowledge(w)
          BY <5>1 DEF Acknowledge, Idle
        <5>2. CASE job' = [job EXCEPT ![w].step = "missing"]
          BY <5>2
        <5> QED BY <3>1, <5>1, <5>2 DEF FundingHookFind
      <4> QED BY <3>1, <4>1 DEF FundingHookFind, request, history, SolventInv
    <3>2. CASE FundingHookInsert(w)
      BY <3>2 DEF FundingHookInsert, Idle, request, history, SolventInv
    <3>3. CASE FundingHookCredit(w)
      <4> DEFINE f == job[w].msg.ref
      <4>1. f \in Fundings /\ Amount[f] \in Nat /\ job[w].bal \in Int
        BY <3>3, AmountType DEF FundingHookCredit, JobOK, Jobs
      <4>2. reconciled = {} => balance' >= 0
        BY <3>3, <4>1 DEF FundingHookCredit, Flushed, SolventInv
      <4> QED BY <3>3, <4>2 DEF FundingHookCredit, Acknowledge, Idle, request, SolventInv
    <3> QED BY <2>7, <3>1, <3>2, <3>3 DEF FundingHookStep
  <2>8. ASSUME NEW w \in Workers, HookCrash(w) PROVE SolventInv'
    BY <2>8 DEF HookCrash, Idle, request, history, SolventInv
  <2>9. CASE UNCHANGED vars
    BY <2>9 DEF vars, request, history, SolventInv
  <2> QED BY <2>1, <2>2, <2>3, <2>4, <2>5, <2>6, <2>7, <2>8, <2>9 DEF Next
<1>3. TypeInv => TypeOK
  BY DEF TypeInv
<1>4. QED
  BY <1>1, <1>2, <1>3, TypeCorrect, SolventInvImplies, PTL DEF Spec

-----------------------------------------------------------------------------
(* What a debit, an answer and a status stand for.                         *)

\* Only Nomba decides what becomes of a reference.
LEMMA OnlyNombaDecides ==
    ASSUME [Next]_vars
    PROVE  Nomba \/ UNCHANGED <<outcome, inbox>>
<1>1. ASSUME NEW r \in Requests, Load(r) \/ Abandon(r) PROVE UNCHANGED <<outcome, inbox>>
  BY <1>1 DEF Load, Abandon, provider
<1>2. ASSUME NEW t \in Transfers, TransferRequest(t) PROVE UNCHANGED <<outcome, inbox>>
  BY <1>2 DEF TransferRequest, TransferOpen, TransferFinal, TransferQueued, TransferError, provider
<1>3. ASSUME NEW u \in Utilities, UtilityRequest(u) PROVE UNCHANGED <<outcome, inbox>>
  BY <1>3 DEF UtilityRequest, UtilityOpen, UtilityDecline, UtilityVended, UtilityFailed, provider
<1>4. ASSUME NEW w \in Workers, Delivery(w) PROVE UNCHANGED <<outcome, inbox>>
  BY <1>4 DEF Delivery, TransferHook, FundingHook, provider
<1>5. ASSUME NEW w \in Workers, TransferHookStep(w) PROVE UNCHANGED <<outcome, inbox>>
  BY <1>5 DEF TransferHookStep, TransferHookUser, TransferHookSuccess, TransferHookFailed,
              TransferHookPending, provider
<1>6. ASSUME NEW w \in Workers, FundingHookStep(w) \/ HookCrash(w) PROVE UNCHANGED <<outcome, inbox>>
  BY <1>6 DEF FundingHookStep, FundingHookFind, FundingHookInsert, FundingHookCredit,
              HookCrash, provider
<1>7. CASE UNCHANGED vars  BY <1>7 DEF vars, provider
<1> QED  BY <1>1, <1>2, <1>3, <1>4, <1>5, <1>6, <1>7 DEF Next

\* What Nomba reports in a webhook has become of the reference.
ReportsAreTrue ==
    \A m \in inbox :
        /\ m.event = "success" => outcome[m.ref] = "settled"
        /\ m.event = "failed" => outcome[m.ref] = "refused"

LEMMA ReportsStayTrue ==
    ASSUME TypeInv, ReportsAreTrue, [Next]_vars
    PROVE  /\ ReportsAreTrue'
           /\ \A r \in Refs : outcome[r] \in {"settled", "refused"} => outcome'[r] = outcome[r]
<1> USE RefsPartition, MessageRef DEF TypeInv, TypeOK, ReportsAreTrue
<1>1. CASE UNCHANGED <<outcome, inbox>>
  BY <1>1
<1>2. ASSUME NEW r \in Requests, Accept(r)
      PROVE  ReportsAreTrue' /\ \A o \in Refs : outcome[o] \in {"settled", "refused"} => outcome'[o] = outcome[o]
  BY <1>2 DEF Accept
<1>3. ASSUME NEW r \in Requests, Resolve(r)
      PROVE  ReportsAreTrue' /\ \A o \in Refs : outcome[o] \in {"settled", "refused"} => outcome'[o] = outcome[o]
  BY <1>3 DEF Resolve
<1>4. ASSUME NEW f \in Fundings, Deposit(f)
      PROVE  ReportsAreTrue' /\ \A o \in Refs : outcome[o] \in {"settled", "refused"} => outcome'[o] = outcome[o]
  <2>1. \A m \in Messages : m.ref = f => m.event = "success"  BY DEF Messages
  <2> QED  BY <1>4, <2>1 DEF Deposit
<1> QED  BY <1>1, <1>2, <1>3, <1>4, OnlyNombaDecides DEF Nomba

\* The steps that write the balance on behalf of reference r.
Posts(r) ==
    \/ r \in Transfers /\ TransferFinal(r)
    \/ r \in Utilities /\ UtilityVended(r)
    \/ \E w \in Workers :
          /\ r = job[w].msg.ref
          /\ \/ TransferHookSuccess(w) /\ DebitIsDue(w)
             \/ FundingHookCredit(w)

\* No other step writes the balance, and a write counts once.
LEMMA OnlyPostsWrite ==
    ASSUME TypeInv, [Next]_vars
    PROVE  \/ UNCHANGED <<balance, posted>>
           \/ \E r \in Refs : Posts(r) /\ posted' = [posted EXCEPT ![r] = @ + 1]
<1> USE RefsPartition DEF TypeInv, TypeOK, JobOK
<1>1. ASSUME NEW r \in Requests, Load(r) \/ Abandon(r) PROVE UNCHANGED <<balance, posted>>
  BY <1>1 DEF Load, Abandon, history
<1>2. ASSUME NEW t \in Transfers, TransferRequest(t)
      PROVE  UNCHANGED <<balance, posted>> \/ (Posts(t) /\ posted' = [posted EXCEPT ![t] = @ + 1])
  BY <1>2 DEF TransferRequest, TransferOpen, TransferFinal, TransferQueued, TransferError,
              history, Posts, Post
<1>3. ASSUME NEW u \in Utilities, UtilityRequest(u)
      PROVE  UNCHANGED <<balance, posted>> \/ (Posts(u) /\ posted' = [posted EXCEPT ![u] = @ + 1])
  BY <1>3 DEF UtilityRequest, UtilityOpen, UtilityDecline, UtilityVended, UtilityFailed,
              history, Posts, Post
<1>4. CASE Nomba  BY <1>4 DEF Nomba, Accept, Resolve, Deposit, history
<1>5. ASSUME NEW w \in Workers, Delivery(w) PROVE UNCHANGED <<balance, posted>>
  BY <1>5 DEF Delivery, TransferHook, FundingHook, history
<1>6. ASSUME NEW w \in Workers, TransferHookStep(w) \/ FundingHookStep(w) \/ HookCrash(w)
      PROVE  \/ UNCHANGED <<balance, posted>>
             \/ \E r \in Refs : Posts(r) /\ posted' = [posted EXCEPT ![r] = @ + 1]
  <2>1. CASE TransferHookSuccess(w) /\ DebitIsDue(w)
    <3>1. job[w].msg.ref \in Refs /\ posted' = [posted EXCEPT ![job[w].msg.ref] = @ + 1]
      BY <2>1 DEF TransferHookSuccess, TransferHookReady, Post
    <3> QED  BY <2>1, <3>1 DEF Posts
  <2>2. CASE FundingHookCredit(w)
    <3>1. job[w].msg.ref \in Refs /\ posted' = [posted EXCEPT ![job[w].msg.ref] = @ + 1]
      BY <2>2 DEF FundingHookCredit, Post
    <3> QED  BY <2>2, <3>1 DEF Posts
  <2>3. CASE TransferHookSuccess(w) /\ ~ DebitIsDue(w)
    BY <2>3 DEF TransferHookSuccess, history
  <2>4. CASE TransferHookUser(w) \/ TransferHookFailed(w) \/ TransferHookPending(w)
             \/ FundingHookFind(w) \/ FundingHookInsert(w) \/ HookCrash(w)
    BY <2>4 DEF TransferHookUser, TransferHookFailed, TransferHookPending, FundingHookFind,
                FundingHookInsert, HookCrash, history
  <2> QED  BY <1>6, <2>1, <2>2, <2>3, <2>4 DEF TransferHookStep, FundingHookStep
<1>7. CASE UNCHANGED vars  BY <1>7 DEF vars, history
<1> QED  BY <1>1, <1>2, <1>3, <1>4, <1>5, <1>6, <1>7 DEF Next

LEMMA OnlyPostsCount ==
    ASSUME TypeInv, [Next]_vars
    PROVE  \A r \in Refs :
              \/ posted'[r] = posted[r]
              \/ Posts(r) /\ posted' = [posted EXCEPT ![r] = @ + 1]
BY OnlyPostsWrite DEF TypeInv, TypeOK

SettledInv == ReportsAreTrue /\ DebitsAreSettled

LEMMA SettledHolds ==
    ASSUME ~ BlankAnswers
    PROVE  Spec => []SettledInv
<1>1. Init => SettledInv
  BY RefsPartition DEF Init, SettledInv, ReportsAreTrue, DebitsAreSettled
<1>2. TypeInv /\ SettledInv /\ [Next]_vars => SettledInv'
  <2> SUFFICES ASSUME TypeInv, ReportsAreTrue, DebitsAreSettled, [Next]_vars
               PROVE  SettledInv'
    BY DEF SettledInv
  <2>1. /\ ReportsAreTrue'
        /\ \A r \in Refs : outcome[r] \in {"settled", "refused"} => outcome'[r] = outcome[r]
    BY ReportsStayTrue
  <2>2. ASSUME NEW r \in Transfers, Posts(r) PROVE outcome[r] = "settled"
    <3>1. CASE TransferFinal(r)
      BY <3>1 DEF TransferFinal, AnswerIsFinal
    <3>2. r \notin Utilities /\ r \notin Fundings
      BY RefsPartition
    <3>3. ASSUME NEW w \in Workers, r = job[w].msg.ref, TransferHookSuccess(w)
          PROVE  outcome[r] = "settled"
      <4>1. job[w].msg \in inbox /\ job[w].msg.event = "success"
        BY <3>3 DEF TransferHookSuccess, TransferHookReady, TypeInv, JobOK
      <4> QED  BY <3>3, <4>1 DEF ReportsAreTrue
    <3>4. ASSUME NEW w \in Workers, r = job[w].msg.ref PROVE ~ FundingHookCredit(w)
      BY <3>2, <3>4 DEF FundingHookCredit, TypeInv, JobOK
    <3> QED  BY <2>2, <3>1, <3>2, <3>3, <3>4 DEF Posts
  <2>3. DebitsAreSettled'
    BY <2>1, <2>2, OnlyPostsCount, RefsPartition DEF DebitsAreSettled
  <2> QED  BY <2>1, <2>3 DEF SettledInv
<1> QED  BY <1>1, <1>2, TypeCorrect, PTL DEF Spec

\* No charge for a transfer Nomba has not settled, as long as an answer without a
\* state comes after the outcome only, however the request, its webhooks and other
\* sessions overlap (wallet.py:425-441, webhooks.py:343).
THEOREM OnlySettledIsDebited ==
    ASSUME ~ BlankAnswers
    PROVE  Spec => []DebitsAreSettled
<1>1. SettledInv => DebitsAreSettled  BY DEF SettledInv
<1> QED  BY <1>1, SettledHolds, PTL

\* The flag on a transfer's row, and the flag a worker has loaded, stand for a
\* debit that is committed; and so does the answer to a success webhook.
FlagsAreBooked ==
    /\ \A t \in Transfers : applied[t] => posted[t] > 0
    /\ \A w \in Workers : job[w].step # "idle" /\ job[w].ap => posted[job[w].msg.ref] > 0

AckInv == FlagsAreBooked /\ AcknowledgedIsBooked

\* A worker that moves on, and an answer, keep this when nothing is taken back.
LEMMA AckFrame ==
    ASSUME TypeInv, AckInv,
           \A r \in Refs : posted[r] > 0 => posted'[r] > 0,
           \A t \in Transfers : applied'[t] => applied[t] \/ posted'[t] > 0,
           \A w \in Workers :
              \/ job'[w].step = "idle" \/ ~ job'[w].ap
              \/ job'[w].msg = job[w].msg /\ job'[w].ap = job[w].ap /\ job[w].step # "idle"
              \/ job'[w].msg.ref \in Transfers /\ job'[w].ap = applied[job'[w].msg.ref],
           \A m \in acked' : m \in acked \/ m.event # "success" \/ posted'[m.ref] > 0
    PROVE  AckInv'
<1> USE MessageRef, RefsPartition DEF TypeInv, TypeOK, JobOK, AckInv
<1>1. \A w \in Workers : job[w].step # "idle" => job[w].msg.ref \in Refs
  OBVIOUS
<1>2. FlagsAreBooked'
  <2>1. \A t \in Transfers : applied'[t] => posted'[t] > 0
    BY DEF FlagsAreBooked
  <2>2. ASSUME NEW w \in Workers, job'[w].step # "idle", job'[w].ap
        PROVE  posted'[job'[w].msg.ref] > 0
    BY <1>1, <2>2 DEF FlagsAreBooked
  <2> QED  BY <2>1, <2>2 DEF FlagsAreBooked
<1>3. AcknowledgedIsBooked'
  BY DEF AcknowledgedIsBooked
<1> QED  BY <1>2, <1>3

\* A worker that goes on ends its delivery, or keeps it and what it has loaded.
LEMMA WorkersMoveOn ==
    ASSUME TypeInv, NEW w \in Workers,
           TransferHookStep(w) \/ FundingHookStep(w) \/ HookCrash(w)
    PROVE  /\ UNCHANGED <<pc, snap, outcome, inbox>>
           /\ \A v \in Workers \ {w} : job'[v] = job[v]
           /\ \/ job'[w] = Idle
              \/ /\ job[w].step # "idle" /\ job'[w].step # "idle" /\ job'[w].msg = job[w].msg
                 /\ job'[w].ap = job[w].ap /\ job'[w].st = job[w].st
                 /\ UNCHANGED <<balance, status, applied, posted>>
                 /\ \/ TransferHookUser(w) /\ job'[w].bal = balance
                    \/ ~ TransferHookUser(w) /\ job'[w].bal = job[w].bal /\ job[w].step # "txn"
<1> USE DEF TypeInv, TypeOK
<1>1. UNCHANGED <<pc, snap, outcome, inbox>>
  BY DEF TransferHookStep, TransferHookUser, TransferHookSuccess, TransferHookFailed,
         TransferHookPending, FundingHookStep, FundingHookFind, FundingHookInsert,
         FundingHookCredit, HookCrash, request, provider
<1>2. \A v \in Workers \ {w} : job'[v] = job[v]
  BY DEF TransferHookStep, TransferHookUser, TransferHookSuccess, TransferHookFailed,
         TransferHookPending, FundingHookStep, FundingHookFind, FundingHookInsert,
         FundingHookCredit, HookCrash, Acknowledge
<1>3. CASE job' = [job EXCEPT ![w] = Idle]
  BY <1>1, <1>2, <1>3
<1>4. CASE TransferHookUser(w)
  <2>1. job[w] \in Jobs /\ job[w].step = "txn"
        /\ job' = [job EXCEPT ![w] = [job[w] EXCEPT !.step = "user", !.bal = balance]]
    BY <1>4 DEF TransferHookUser
  <2>2. UNCHANGED <<balance, status, applied, posted>>
    BY <1>4 DEF TransferHookUser, history
  <2>3. job'[w].msg = job[w].msg /\ job'[w].ap = job[w].ap /\ job'[w].st = job[w].st
        /\ job'[w].bal = balance /\ job'[w].step = "user"
    BY <2>1 DEF Jobs
  <2> QED  BY <1>1, <1>2, <1>4, <2>1, <2>2, <2>3
<1>5. ASSUME NEW step \in {"missing", "inserted"},
             job' = [job EXCEPT ![w] = [job[w] EXCEPT !.step = step]],
             job[w].step \in {"user", "missing"}, UNCHANGED <<balance, status, applied, posted>>
      PROVE  /\ job[w].step # "idle" /\ job'[w].step # "idle" /\ job'[w].msg = job[w].msg
             /\ job'[w].ap = job[w].ap /\ job'[w].st = job[w].st
             /\ ~ TransferHookUser(w) /\ job'[w].bal = job[w].bal /\ job[w].step # "txn"
  <2>1. job[w] \in Jobs  OBVIOUS
  <2>2. job'[w] = [job[w] EXCEPT !.step = step]  BY <1>5
  <2>3. ~ TransferHookUser(w)  BY <1>5 DEF TransferHookUser
  <2> QED  BY <1>5, <2>1, <2>2, <2>3 DEF Jobs
<1>6. \/ job' = [job EXCEPT ![w] = Idle] \/ TransferHookUser(w)
      \/ \E step \in {"missing", "inserted"} :
            /\ job' = [job EXCEPT ![w] = [job[w] EXCEPT !.step = step]]
            /\ job[w].step \in {"user", "missing"} /\ UNCHANGED <<balance, status, applied, posted>>
  <2>1. CASE FundingHookFind(w)
    BY <2>1 DEF FundingHookFind, Acknowledge, history
  <2>2. CASE FundingHookInsert(w)
    BY <2>2 DEF FundingHookInsert, history
  <2> QED  BY <2>1, <2>2 DEF TransferHookStep, TransferHookSuccess, TransferHookFailed,
                  TransferHookPending, FundingHookStep, FundingHookCredit, HookCrash, Acknowledge
<1> QED  BY <1>1, <1>2, <1>3, <1>4, <1>5, <1>6

\* A success webhook that was answered with 200 has had its effect on the
\* balance, however its deliveries overlap (webhooks.py:291, 367).
THEOREM AnsweredMeansBooked == Spec => []AcknowledgedIsBooked
<1>1. Init => AckInv
  BY DEF Init, AckInv, FlagsAreBooked, AcknowledgedIsBooked, Idle
<1>2. TypeInv /\ FundingInv /\ AckInv /\ [Next]_vars => AckInv'
  <2> SUFFICES ASSUME TypeInv, FundingInv, AckInv, [Next]_vars PROVE AckInv'
    OBVIOUS
  <2>0. \A r \in Refs : posted[r] \in Nat /\ (posted[r] > 0 => posted'[r] > 0)
    BY OnlyPostsCount DEF TypeInv, TypeOK
  <2> USE <2>0, RefsPartition
  <2>1. ASSUME NEW r \in Requests, Load(r) \/ Abandon(r) PROVE AckInv'
    BY <2>1, AckFrame DEF Load, Abandon, history, TypeInv, TypeOK
  <2>2. ASSUME NEW t \in Transfers, TransferRequest(t) PROVE AckInv'
    <3>1. UNCHANGED <<job, acked>>
      BY <2>2 DEF TransferRequest, TransferOpen, TransferFinal, TransferQueued, TransferError
    <3>2. \A o \in Transfers : applied'[o] => applied[o] \/ posted'[o] > 0
      <4>1. CASE TransferFinal(t)
        <5>1. /\ \A o \in Transfers \ {t} : applied'[o] = applied[o]
              /\ posted'[t] = posted[t] + 1
          BY <4>1 DEF TransferFinal, Post, TypeInv, TypeOK
        <5> QED  BY <5>1
      <4>2. CASE TransferOpen(t) \/ TransferQueued(t) \/ TransferError(t)
        BY <4>2 DEF TransferOpen, TransferQueued, TransferError, TypeInv, TypeOK
      <4> QED  BY <2>2, <4>1, <4>2 DEF TransferRequest
    <3> QED  BY <3>1, <3>2, AckFrame
  <2>3. ASSUME NEW u \in Utilities, UtilityRequest(u) PROVE AckInv'
    <3>1. UNCHANGED <<applied, job, acked>>
      BY <2>3 DEF UtilityRequest, UtilityOpen, UtilityDecline, UtilityVended, UtilityFailed
    <3> QED  BY <3>1, AckFrame
  <2>4. CASE Nomba
    BY <2>4, AckFrame DEF Nomba, Accept, Resolve, Deposit
  <2>5. ASSUME NEW w \in Workers, Delivery(w) PROVE AckInv'
    <3> PICK m \in inbox : TransferHook(w, m) \/ FundingHook(w, m)
      BY <2>5 DEF Delivery
    <3>1. UNCHANGED <<applied, acked>>  BY DEF TransferHook, FundingHook
    <3>2. \A v \in Workers \ {w} : job'[v] = job[v]
      BY DEF TransferHook, FundingHook, TypeInv, TypeOK
    <3>3. ~ job'[w].ap \/ (job'[w].msg.ref \in Transfers /\ job'[w].ap = applied[job'[w].msg.ref])
      <4>1. CASE TransferHook(w, m)  BY <4>1 DEF TransferHook, TypeInv, TypeOK
      <4>2. CASE FundingHook(w, m)  BY <4>2 DEF FundingHook, Idle, TypeInv, TypeOK
      <4> QED  BY <4>1, <4>2
    <3> QED  BY <3>1, <3>2, <3>3, AckFrame
  <2>6. ASSUME NEW w \in Workers, TransferHookStep(w) \/ FundingHookStep(w) \/ HookCrash(w)
        PROVE  AckInv'
    <3>1. \A v \in Workers \ {w} : job'[v] = job[v]  BY <2>6, WorkersMoveOn
    <3>2. \/ job'[w].step = "idle"
          \/ job'[w].msg = job[w].msg /\ job'[w].ap = job[w].ap /\ job[w].step # "idle"
      BY <2>6, WorkersMoveOn DEF Idle
    <3>3. /\ \A t \in Transfers : applied'[t] => applied[t] \/ posted'[t] > 0
          /\ \A m \in acked' : m \in acked \/ m.event # "success" \/ posted'[m.ref] > 0
      <4>1. CASE TransferHookSuccess(w)
        <5> DEFINE t == job[w].msg.ref
        <5>1. t \in Transfers /\ job[w].step # "idle" /\ acked' = acked \cup {job[w].msg}
          BY <4>1 DEF TransferHookSuccess, TransferHookReady, Acknowledge
        <5>2. posted'[t] > 0
          <6>1. CASE DebitIsDue(w)
            <7>1. posted' = [posted EXCEPT ![t] = @ + 1]
              BY <4>1, <6>1 DEF TransferHookSuccess, Post
            <7> QED  BY <5>1, <7>1 DEF TypeInv, TypeOK
          <6>2. CASE ~ DebitIsDue(w)
            <7>1. posted[t] > 0  BY <5>1, <6>2 DEF DebitIsDue, AckInv, FlagsAreBooked
            <7>2. posted' = posted  BY <4>1, <6>2 DEF TransferHookSuccess, history
            <7> QED  BY <7>1, <7>2
          <6> QED  BY <6>1, <6>2
        <5>3. \A o \in Transfers \ {t} : applied'[o] = applied[o]
          BY <4>1, <5>1 DEF TransferHookSuccess, TypeInv, TypeOK
        <5> QED  BY <5>1, <5>2, <5>3
      <4>2. CASE TransferHookFailed(w) \/ TransferHookPending(w)
        BY <4>2 DEF TransferHookFailed, TransferHookPending, TransferHookReady, Acknowledge
      <4>3. CASE FundingHookFind(w)
        <5>1. applied' = applied  BY <4>3 DEF FundingHookFind
        <5>2. \/ acked' = acked
              \/ status[job[w].msg.ref] = "success" /\ acked' = acked \cup {job[w].msg}
          BY <4>3 DEF FundingHookFind, Acknowledge
        <5>3. job[w].msg.ref \in Fundings  BY <4>3 DEF FundingHookFind
        <5>4. status[job[w].msg.ref] = "success" => posted'[job[w].msg.ref] > 0
          <6>1. status[job[w].msg.ref] = "success" => posted[job[w].msg.ref] = 1
            BY <5>3 DEF FundingInv
          <6>2. posted' = posted  BY <4>3 DEF FundingHookFind, history
          <6> QED  BY <6>1, <6>2
        <5> QED  BY <5>1, <5>2, <5>4
      <4>4. CASE FundingHookCredit(w)
        <5>1. applied' = applied /\ acked' = acked \cup {job[w].msg}
          BY <4>4 DEF FundingHookCredit, Acknowledge
        <5>2. job[w].msg.ref \in Refs  BY <4>4 DEF FundingHookCredit, TypeInv, JobOK
        <5>3. posted'[job[w].msg.ref] > 0
          BY <4>4, <5>2 DEF FundingHookCredit, Post, TypeInv, TypeOK
        <5> QED  BY <5>1, <5>3
      <4>5. CASE TransferHookUser(w) \/ FundingHookInsert(w) \/ HookCrash(w)
        BY <4>5 DEF TransferHookUser, FundingHookInsert, HookCrash
      <4> QED  BY <2>6, <4>1, <4>2, <4>3, <4>4, <4>5 DEF TransferHookStep, FundingHookStep
    <3> QED  BY <3>1, <3>2, <3>3, AckFrame
  <2>7. CASE UNCHANGED vars
    BY <2>7, AckFrame DEF vars
  <2> QED  BY <2>1, <2>2, <2>3, <2>4, <2>5, <2>6, <2>7 DEF Next
<1>3. AckInv => AcknowledgedIsBooked  BY DEF AckInv
<1> QED  BY <1>1, <1>2, <1>3, TypeCorrect, DepositsHaveRows, PTL DEF Spec

\* Up to the answer a utility payment is pending and not debited.
UtilityInv ==
    \A u \in Utilities :
        /\ pc[u] \in {"new", "loaded"} => status[u] = "none"
        /\ pc[u] \in {"short", "calling"} => status[u] = "pending"
        /\ posted[u] = IF status[u] = "success" THEN 1 ELSE 0

LEMMA UtilityFrame ==
    ASSUME UtilityInv,
           \A u \in Utilities :
              /\ status'[u] = status[u] /\ posted'[u] = posted[u]
              /\ \/ pc'[u] = pc[u] \/ pc'[u] = "done"
                 \/ pc[u] = "new" /\ pc'[u] = "loaded"
    PROVE  UtilityInv'
BY DEF UtilityInv

LEMMA UtilityInvHolds == Spec => []UtilityInv
<1>1. Init => UtilityInv
  BY RefsPartition DEF Init, UtilityInv
<1>2. TypeInv /\ UtilityInv /\ [Next]_vars => UtilityInv'
  <2> SUFFICES ASSUME TypeInv, UtilityInv, [Next]_vars PROVE UtilityInv'
    OBVIOUS
  <2> USE RefsPartition
  <2>1. ASSUME NEW r \in Requests, Load(r) \/ Abandon(r) PROVE UtilityInv'
    <3>1. UNCHANGED <<status, posted>>  BY <2>1 DEF Load, Abandon, history
    <3>2. \A u \in Utilities :
              \/ pc'[u] = pc[u] \/ pc'[u] = "done"
              \/ pc[u] = "new" /\ pc'[u] = "loaded"
      <4>1. \/ pc[r] = "new" /\ pc' = [pc EXCEPT ![r] = "loaded"]
            \/ pc' = [pc EXCEPT ![r] = "done"]
        BY <2>1 DEF Load, Abandon
      <4> QED  BY <4>1 DEF TypeInv, TypeOK
    <3> QED  BY <3>1, <3>2, UtilityFrame
  <2>2. ASSUME NEW t \in Transfers, TransferRequest(t) PROVE UtilityInv'
    <3>1. \A u \in Utilities : u # t  OBVIOUS
    <3>2. \A u \in Utilities : status'[u] = status[u] /\ pc'[u] = pc[u]
      BY <2>2, <3>1 DEF TransferRequest, TransferOpen, TransferFinal, TransferQueued,
                        TransferError, TypeInv, TypeOK
    <3>3. \A u \in Utilities : posted'[u] = posted[u]
      BY <2>2, <3>1 DEF TransferRequest, TransferOpen, TransferFinal, TransferQueued,
                        TransferError, Post, history, TypeInv, TypeOK
    <3> QED  BY <3>2, <3>3, UtilityFrame
  <2>3. ASSUME NEW u \in Utilities, UtilityRequest(u) PROVE UtilityInv'
    <3>1. \A o \in Utilities \ {u} :
              status'[o] = status[o] /\ posted'[o] = posted[o] /\ pc'[o] = pc[o]
      BY <2>3 DEF UtilityRequest, UtilityOpen, UtilityDecline, UtilityVended, UtilityFailed,
                  Post, history, TypeInv, TypeOK
    <3>2. CASE UtilityOpen(u)
      <4>1. /\ pc[u] = "loaded" /\ pc'[u] \in {"calling", "short"} /\ status'[u] = "pending"
            /\ posted' = posted
        BY <3>2 DEF UtilityOpen, OpenStatus, history, TypeInv, TypeOK
      <4> QED  BY <3>1, <4>1 DEF UtilityInv
    <3>3. CASE UtilityDecline(u) \/ UtilityFailed(u)
      <4>1. /\ pc[u] \in {"short", "calling"} /\ pc'[u] = "done" /\ status'[u] = "failed"
            /\ posted' = posted
        BY <3>3 DEF UtilityDecline, UtilityFailed, history, TypeInv, TypeOK
      <4> QED  BY <3>1, <4>1 DEF UtilityInv
    <3>4. CASE UtilityVended(u)
      <4>1. /\ pc[u] = "calling" /\ pc'[u] = "done" /\ status'[u] = "success"
            /\ posted'[u] = posted[u] + 1
        BY <3>4 DEF UtilityVended, Post, TypeInv, TypeOK
      <4> QED  BY <3>1, <4>1 DEF UtilityInv
    <3> QED  BY <2>3, <3>2, <3>3, <3>4 DEF UtilityRequest
  <2>4. CASE Nomba
    BY <2>4, UtilityFrame DEF Nomba, Accept, Resolve, Deposit, request, history
  <2>5. ASSUME NEW w \in Workers, Delivery(w) PROVE UtilityInv'
    BY <2>5, UtilityFrame DEF Delivery, TransferHook, FundingHook, request, history
  <2>6. ASSUME NEW w \in Workers, TransferHookStep(w) \/ FundingHookStep(w) \/ HookCrash(w)
        PROVE  UtilityInv'
    <3>1. pc' = pc
      BY <2>6 DEF TransferHookStep, TransferHookUser, TransferHookSuccess, TransferHookFailed,
                  TransferHookPending, FundingHookStep, FundingHookFind, FundingHookInsert,
                  FundingHookCredit, HookCrash, request
    <3>2. \A u \in Utilities : u \notin Transfers /\ u \notin Fundings  OBVIOUS
    <3>3. \A u \in Utilities : status'[u] = status[u]
      BY <2>6, <3>2 DEF TransferHookStep, TransferHookUser, TransferHookSuccess,
                  TransferHookFailed, TransferHookPending, TransferHookReady, FundingHookStep,
                  FundingHookFind, FundingHookInsert, FundingHookCredit, HookCrash,
                  TypeInv, TypeOK, JobOK
    <3>4. \A u \in Utilities : posted'[u] = posted[u]
      <4> SUFFICES ASSUME NEW u \in Utilities PROVE ~ Posts(u)
        BY OnlyPostsCount
      <4>1. pc'[u] = pc[u]  BY <3>1
      <4>2. ~ UtilityVended(u)  BY <4>1 DEF UtilityVended, TypeInv, TypeOK
      <4>3. ASSUME NEW v \in Workers, u = job[v].msg.ref
            PROVE  ~ TransferHookSuccess(v) /\ ~ FundingHookCredit(v)
        BY <4>3, <3>2 DEF TransferHookSuccess, TransferHookReady, FundingHookCredit, TypeInv, JobOK
      <4> QED  BY <3>2, <4>2, <4>3 DEF Posts
    <3> QED  BY <3>1, <3>3, <3>4, UtilityFrame
  <2>7. CASE UNCHANGED vars
    BY <2>7, UtilityFrame DEF vars, request, history
  <2> QED  BY <2>1, <2>2, <2>3, <2>4, <2>5, <2>6, <2>7 DEF Next
<1> QED  BY <1>1, <1>2, TypeCorrect, PTL DEF Spec

\* A utility payment is shown as successful exactly when its one debit is
\* committed, whatever overlaps (payment_service.py:1041-1053).
THEOREM UtilityStatusIsTrue == Spec => []UtilityDebitedIffSuccess
<1>1. UtilityInv => UtilityDebitedIffSuccess  BY DEF UtilityInv, UtilityDebitedIffSuccess
<1> QED  BY <1>1, UtilityInvHolds, PTL

-----------------------------------------------------------------------------
(* One session per reference.                                              *)

\* A session of a reference in flight is the only one.
Alone ==
    /\ \A w \in Workers : job[w].step # "idle" =>
          \A r \in Requests : r = job[w].msg.ref => pc[r] \in {"new", "done"}
    /\ \A v, w \in Workers :
          job[v].step # "idle" /\ job[w].step # "idle" /\ job[v].msg.ref = job[w].msg.ref
             => v = w

\* A webhook comes when something has become of its reference.
ReportsComeLater == \A m \in inbox : outcome[m.ref] # "none"

\* Nothing becomes of a transfer and nothing is debited for it before its call,
\* and the flag on its row says what is debited.
RowsAreTracked ==
    \A t \in Transfers :
        /\ pc[t] \in {"new", "loaded"} => outcome[t] = "none"
        /\ pc[t] \in {"new", "loaded", "calling"} =>
              ~ applied[t] /\ status[t] \in {"none", "pending"}
        /\ posted[t] = IF applied[t] THEN 1 ELSE 0

\* Whoever handles a report on a transfer knows its row.
WorkersKnowRows ==
    \A w \in Workers, t \in Transfers :
        job[w].step # "idle" /\ job[w].msg.ref = t =>
            job[w].ap = applied[t] /\ job[w].st = status[t]

TransferIsTracked == Alone /\ ReportsComeLater /\ RowsAreTracked /\ WorkersKnowRows

\* A transfer shown as failed is not debited, and one shown as successful is
\* settled.
ShownIsTrue ==
    \A t \in Transfers :
        /\ status[t] = "failed" => posted[t] = 0
        /\ status[t] = "success" => outcome[t] = "settled"

LEMMA AloneHolds ==
    ASSUME Overlap # "any"
    PROVE  Spec => []Alone
<1>1. Init => Alone
  BY DEF Init, Alone, Idle
<1>2. TypeInv /\ Alone /\ [Next]_vars => Alone'
  <2> SUFFICES ASSUME TypeInv, Alone, [Next]_vars PROVE Alone'
    OBVIOUS
  <2> USE RefsPartition DEF Alone
  <2>1. ASSUME NEW r \in Requests, Load(r) PROVE Alone'
    <3>1. \A w \in Workers : job[w].step # "idle" => job[w].msg.ref # r
      BY <2>1 DEF Load, MayStart, InFlight
    <3> QED  BY <2>1, <3>1 DEF Load, TypeInv, TypeOK
  <2>2. ASSUME NEW r \in Requests, Abandon(r) PROVE Alone'
    BY <2>2 DEF Abandon, TypeInv, TypeOK
  <2>3. ASSUME NEW t \in Transfers, TransferRequest(t) PROVE Alone'
    <3>1. pc[t] \in {"loaded", "calling"} /\ job' = job /\ \A r \in Requests \ {t} : pc'[r] = pc[r]
      BY <2>3 DEF TransferRequest, TransferOpen, TransferFinal, TransferQueued, TransferError,
                  TypeInv, TypeOK
    <3> QED  BY <3>1
  <2>4. ASSUME NEW u \in Utilities, UtilityRequest(u) PROVE Alone'
    <3>1. /\ pc[u] \in {"loaded", "short", "calling"} /\ job' = job
          /\ \A r \in Requests \ {u} : pc'[r] = pc[r]
      BY <2>4 DEF UtilityRequest, UtilityOpen, UtilityDecline, UtilityVended, UtilityFailed,
                  TypeInv, TypeOK
    <3> QED  BY <3>1
  <2>5. CASE Nomba
    BY <2>5 DEF Nomba, Accept, Resolve, Deposit, request
  <2>6. ASSUME NEW w \in Workers, Delivery(w) PROVE Alone'
    <3> PICK m \in inbox : TransferHook(w, m) \/ FundingHook(w, m)
      BY <2>6 DEF Delivery
    <3>1. m.ref \notin InFlight
      BY DEF TransferHook, FundingHook, MayStart
    <3>2. pc' = pc /\ job'[w].msg = m /\ \A v \in Workers \ {w} : job'[v] = job[v]
      <4>1. CASE TransferHook(w, m)  BY <4>1 DEF TransferHook, request, TypeInv, TypeOK
      <4>2. CASE FundingHook(w, m)  BY <4>2 DEF FundingHook, request, Idle, TypeInv, TypeOK
      <4> QED  BY <4>1, <4>2
    <3>3. \A r \in Requests : r = m.ref => pc[r] \in {"new", "done"}
      BY <3>1 DEF InFlight, TypeInv, TypeOK
    <3>4. \A v \in Workers : job[v].step # "idle" => job[v].msg.ref # m.ref
      BY <3>1 DEF InFlight
    <3> QED  BY <3>2, <3>3, <3>4
  <2>7. ASSUME NEW w \in Workers, TransferHookStep(w) \/ FundingHookStep(w) \/ HookCrash(w)
        PROVE  Alone'
    <3>1. pc' = pc /\ \A v \in Workers : job'[v].step # "idle" =>
                          job[v].step # "idle" /\ job'[v].msg = job[v].msg
      BY <2>7, WorkersMoveOn DEF Idle
    <3> QED  BY <3>1
  <2>8. CASE UNCHANGED vars
    BY <2>8 DEF vars, request
  <2> QED  BY <2>1, <2>2, <2>3, <2>4, <2>5, <2>6, <2>7, <2>8 DEF Next
<1> QED  BY <1>1, <1>2, TypeCorrect, PTL DEF Spec

\* The reports that write the row of a transfer.
TransferHookWrites(w) ==
    TransferHookSuccess(w) \/ TransferHookFailed(w) \/ TransferHookPending(w)

\* What a step may be to a transfer: its request's, a report on it, or neither.
LEMMA TransferMoves ==
    ASSUME TypeInv, [Next]_vars, NEW t \in Transfers
    PROVE  \/ TransferRequest(t)
           \/ \E w \in Workers : job[w].msg.ref = t /\ TransferHookWrites(w)
           \/ /\ status'[t] = status[t] /\ applied'[t] = applied[t] /\ posted'[t] = posted[t]
              /\ \/ pc'[t] = pc[t]
                 \/ pc'[t] = "done"
                 \/ pc[t] = "new" /\ pc'[t] = "loaded"
<1> USE RefsPartition DEF TypeInv, TypeOK
<1> DEFINE kept == status'[t] = status[t] /\ applied'[t] = applied[t] /\ posted'[t] = posted[t]
<1>1. ASSUME NEW r \in Requests, Load(r) \/ Abandon(r)
      PROVE  /\ kept
             /\ \/ pc'[t] = pc[t]
                \/ pc'[t] = "done"
                \/ pc[t] = "new" /\ pc'[t] = "loaded"
  BY <1>1 DEF Load, Abandon, history
<1>2. ASSUME NEW o \in Transfers, o # t, TransferRequest(o)
      PROVE  kept /\ pc'[t] = pc[t]
  BY <1>2 DEF TransferRequest, TransferOpen, TransferFinal, TransferQueued, TransferError,
              Post, history
<1>3. ASSUME NEW u \in Utilities, UtilityRequest(u)
      PROVE  kept /\ pc'[t] = pc[t]
  <2>1. u # t  OBVIOUS
  <2> QED  BY <1>3, <2>1 DEF UtilityRequest, UtilityOpen, UtilityDecline, UtilityVended,
                             UtilityFailed, Post, history
<1>4. CASE Nomba
  BY <1>4 DEF Nomba, Accept, Resolve, Deposit, request, history
<1>5. ASSUME NEW w \in Workers, Delivery(w)
      PROVE  kept /\ pc'[t] = pc[t]
  BY <1>5 DEF Delivery, TransferHook, FundingHook, request, history
<1>6. ASSUME NEW w \in Workers, TransferHookUser(w) \/ HookCrash(w)
      PROVE  kept /\ pc'[t] = pc[t]
  BY <1>6 DEF TransferHookUser, HookCrash, request, history
<1>7. ASSUME NEW w \in Workers, FundingHookStep(w)
      PROVE  kept /\ pc'[t] = pc[t]
  <2>1. FundingHookCredit(w) => job[w].msg.ref # t  BY DEF FundingHookCredit, JobOK
  <2> QED  BY <1>7, <2>1 DEF FundingHookStep, FundingHookFind, FundingHookInsert,
                             FundingHookCredit, Post, request, history
<1>8. ASSUME NEW w \in Workers, TransferHookWrites(w), job[w].msg.ref # t
      PROVE  kept /\ pc'[t] = pc[t]
  BY <1>8 DEF TransferHookWrites, TransferHookSuccess, TransferHookFailed, TransferHookPending,
              TransferHookReady, Post, request, history
<1>9. CASE UNCHANGED vars
  BY <1>9 DEF vars, request, history
<1> QED
  BY <1>1, <1>2, <1>3, <1>4, <1>5, <1>6, <1>7, <1>8, <1>9
     DEF Next, TransferHookStep, TransferHookWrites

\* What a request leaves on the row of its transfer.
LEMMA TransferRequestWrites ==
    ASSUME TypeInv, NEW t \in Transfers, TransferRequest(t)
    PROVE  /\ UNCHANGED <<job, outcome, inbox>>
           /\ \A r \in Requests \ {t} : pc'[r] = pc[r]
           /\ \A o \in Transfers \ {t} : status'[o] = status[o] /\ applied'[o] = applied[o]
           /\ \/ /\ pc[t] = "loaded" /\ pc'[t] = "calling" /\ status'[t] = "pending"
                 /\ ~ applied'[t] /\ posted' = posted
              \/ /\ pc[t] = "calling" /\ pc'[t] = "done" /\ AnswerIsFinal(t)
                 /\ status'[t] = Flushed(status[t], "pending", "success")
                 /\ applied'[t] /\ posted'[t] = posted[t] + 1
              \/ /\ pc[t] = "calling" /\ pc'[t] = "done"
                 /\ status'[t] \in {status[t], "failed"}
                 /\ ~ applied'[t] /\ posted' = posted
<1> USE RefsPartition DEF TypeInv, TypeOK
<1>1. CASE TransferOpen(t)
  BY <1>1 DEF TransferOpen, provider, history
<1>2. CASE TransferFinal(t)
  BY <1>2 DEF TransferFinal, FinalStatus, Post, provider
<1>3. CASE TransferQueued(t)
  BY <1>3 DEF TransferQueued, Flushed, provider, history
<1>4. CASE TransferError(t)
  BY <1>4 DEF TransferError, Flushed, provider, history
<1> QED  BY <1>1, <1>2, <1>3, <1>4 DEF TransferRequest

\* What a report leaves on the row, when the worker knows it.
LEMMA TransferHookLeaves ==
    ASSUME TypeInv, TransferIsTracked, NEW w \in Workers, NEW t \in Transfers,
           job[w].msg.ref = t, TransferHookWrites(w)
    PROVE  /\ UNCHANGED <<outcome, inbox, pc>> /\ pc[t] = "done"
           /\ job'[w].step = "idle" /\ \A v \in Workers \ {w} : job'[v] = job[v]
           /\ \A o \in Transfers \ {t} : status'[o] = status[o] /\ applied'[o] = applied[o]
           /\ job[w].msg \in inbox
           /\ \/ /\ job[w].msg.event = "success" /\ status'[t] = "success" /\ applied'[t]
                 /\ posted'[t] = 1
              \/ /\ job[w].msg.event = "failed" /\ status'[t] = "failed"
                 /\ applied' = applied /\ posted' = posted
              \/ /\ status'[t] = PendingUnlessSuccess(status[t])
                 /\ applied' = applied /\ posted' = posted
<1> USE RefsPartition DEF TypeInv, TypeOK, TransferIsTracked
<1>1. /\ job[w].step # "idle" /\ job[w].msg \in inbox
      /\ job[w].ap = applied[t] /\ job[w].st = status[t]
  BY DEF TransferHookWrites, TransferHookSuccess, TransferHookFailed, TransferHookPending,
         TransferHookReady, JobOK, WorkersKnowRows
<1>2. pc[t] = "done"
  BY <1>1 DEF Alone, ReportsComeLater, RowsAreTracked
<1>3. /\ UNCHANGED <<outcome, inbox, pc>>
      /\ job'[w].step = "idle" /\ \A v \in Workers \ {w} : job'[v] = job[v]
  BY DEF TransferHookWrites, TransferHookSuccess, TransferHookFailed, TransferHookPending,
         Acknowledge, Idle, request, provider
<1>4. CASE TransferHookSuccess(w)
  <2>1. status' = [status EXCEPT ![t] = "success"] /\ job[w].msg.event = "success"
    BY <1>1, <1>4 DEF TransferHookSuccess, TransferHookReady, Flushed
  <2>2. /\ applied'[t] /\ posted'[t] = 1
        /\ \A o \in Transfers \ {t} : applied'[o] = applied[o]
    <3>1. CASE DebitIsDue(w)
      BY <1>1, <1>4, <3>1 DEF TransferHookSuccess, DebitIsDue, Post, RowsAreTracked
    <3>2. CASE ~ DebitIsDue(w)
      BY <1>1, <1>4, <3>2 DEF TransferHookSuccess, DebitIsDue, history, RowsAreTracked
    <3> QED  BY <3>1, <3>2
  <2> QED  BY <1>1, <1>2, <1>3, <2>1, <2>2
<1>5. CASE TransferHookFailed(w)
  <2>1. /\ status' = [status EXCEPT ![t] = "failed"] /\ job[w].msg.event = "failed"
        /\ UNCHANGED <<applied, posted>>
    BY <1>1, <1>5 DEF TransferHookFailed, TransferHookReady, Flushed, history
  <2> QED  BY <1>1, <1>2, <1>3, <2>1
<1>6. CASE TransferHookPending(w)
  <2>1. /\ status' = [status EXCEPT ![t] = PendingUnlessSuccess(status[t])]
        /\ UNCHANGED <<applied, posted>>
    BY <1>1, <1>6 DEF TransferHookPending, Flushed, history
  <2> QED  BY <1>1, <1>2, <1>3, <2>1
<1> QED  BY <1>4, <1>5, <1>6 DEF TransferHookWrites

\* Nothing becomes of a request before its call, and webhooks come later.
LEMMA OutcomeMoves ==
    ASSUME TypeInv, TransferIsTracked, [Next]_vars
    PROVE  /\ ReportsComeLater'
           /\ \A t \in Transfers : pc[t] \in {"new", "loaded"} => outcome'[t] = outcome[t]
<1> USE RefsPartition, MessageRef DEF TypeInv, TypeOK, TransferIsTracked, ReportsComeLater
<1>1. CASE UNCHANGED <<outcome, inbox>>  BY <1>1
<1>2. ASSUME NEW r \in Requests, Accept(r)
      PROVE  /\ ReportsComeLater'
             /\ \A t \in Transfers : pc[t] \in {"new", "loaded"} => outcome'[t] = outcome[t]
  BY <1>2 DEF Accept
<1>3. ASSUME NEW r \in Requests, Resolve(r)
      PROVE  /\ ReportsComeLater'
             /\ \A t \in Transfers : pc[t] \in {"new", "loaded"} => outcome'[t] = outcome[t]
  BY <1>3 DEF Resolve, RowsAreTracked
<1>4. ASSUME NEW f \in Fundings, Deposit(f)
      PROVE  /\ ReportsComeLater'
             /\ \A t \in Transfers : pc[t] \in {"new", "loaded"} => outcome'[t] = outcome[t]
  BY <1>4 DEF Deposit
<1> QED  BY <1>1, <1>2, <1>3, <1>4, OnlyNombaDecides DEF Nomba

\* A worker goes on knowing the row it has loaded: nobody else works on it.
LEMMA WorkersStayInformed ==
    TypeInv /\ TransferIsTracked /\ [Next]_vars => WorkersKnowRows'
<1> SUFFICES ASSUME TypeInv, TransferIsTracked, [Next]_vars
             PROVE  WorkersKnowRows'
  OBVIOUS
<1> USE RefsPartition DEF TypeInv, TypeOK, WorkersKnowRows, TransferIsTracked
<1>1. ASSUME NEW t \in Transfers, TransferRequest(t) PROVE WorkersKnowRows'
  <2>1. \A w \in Workers : job[w].step # "idle" => job[w].msg.ref # t
    BY <1>1, TransferRequestWrites DEF Alone
  <2>2. /\ job' = job
        /\ \A o \in Transfers \ {t} : status'[o] = status[o] /\ applied'[o] = applied[o]
    BY <1>1, TransferRequestWrites
  <2> QED  BY <2>1, <2>2
<1>2. ASSUME NEW w \in Workers, TransferHookWrites(w) PROVE WorkersKnowRows'
  <2> DEFINE t == job[w].msg.ref
  <2>1. t \in Transfers /\ job[w].step # "idle"
    BY <1>2 DEF TransferHookWrites, TransferHookSuccess, TransferHookFailed,
                TransferHookPending, TransferHookReady
  <2>2. /\ job'[w].step = "idle" /\ \A v \in Workers \ {w} : job'[v] = job[v]
        /\ \A o \in Transfers \ {t} : status'[o] = status[o] /\ applied'[o] = applied[o]
    BY <1>2, <2>1, TransferHookLeaves
  <2>3. \A v \in Workers \ {w} : job[v].step # "idle" => job[v].msg.ref # t
    BY <2>1 DEF Alone
  <2> QED  BY <2>2, <2>3
<1>3. ASSUME NEW w \in Workers, NEW m \in inbox, TransferHook(w, m) \/ FundingHook(w, m)
      PROVE  WorkersKnowRows'
  <2>1. CASE TransferHook(w, m)
    <3>1. /\ UNCHANGED <<status, applied>> /\ \A v \in Workers \ {w} : job'[v] = job[v]
          /\ job'[w].msg = m /\ job'[w].ap = applied[m.ref] /\ job'[w].st = status[m.ref]
      BY <2>1 DEF TransferHook
    <3> QED  BY <3>1
  <2>2. CASE FundingHook(w, m)
    <3>1. /\ UNCHANGED <<status, applied>> /\ \A v \in Workers \ {w} : job'[v] = job[v]
          /\ job'[w].msg = m /\ m.ref \in Fundings
      BY <2>2 DEF FundingHook, Idle
    <3> QED  BY <3>1
  <2> QED  BY <1>3, <2>1, <2>2
<1>4. CASE /\ \A t \in Transfers : status'[t] = status[t] /\ applied'[t] = applied[t]
           /\ \A w \in Workers : job'[w].step # "idle" =>
                 /\ job[w].step # "idle" /\ job'[w].msg = job[w].msg
                 /\ job'[w].ap = job[w].ap /\ job'[w].st = job[w].st
  BY <1>4
<1>5. ASSUME NEW r \in Requests, Load(r) \/ Abandon(r) PROVE WorkersKnowRows'
  BY <1>4, <1>5 DEF Load, Abandon
<1>6. ASSUME NEW u \in Utilities, UtilityRequest(u) PROVE WorkersKnowRows'
  <2>1. \A t \in Transfers : u # t  OBVIOUS
  <2>2. /\ UNCHANGED <<applied, job>> /\ \A t \in Transfers : status'[t] = status[t]
    BY <1>6, <2>1 DEF UtilityRequest, UtilityOpen, UtilityDecline, UtilityVended, UtilityFailed
  <2> QED  BY <1>4, <2>2
<1>7. CASE Nomba \/ UNCHANGED vars
  BY <1>4, <1>7 DEF Nomba, Accept, Resolve, Deposit, vars
<1>8. ASSUME NEW w \in Workers, TransferHookUser(w) \/ FundingHookStep(w) \/ HookCrash(w)
      PROVE  WorkersKnowRows'
  <2>1. FundingHookCredit(w) => job[w].msg.ref \in Fundings  BY DEF FundingHookCredit, JobOK
  <2>2. \A t \in Transfers : status'[t] = status[t] /\ applied'[t] = applied[t]
    BY <1>8, <2>1 DEF TransferHookUser, FundingHookStep, FundingHookFind, FundingHookInsert,
                      FundingHookCredit, HookCrash
  <2>3. \A v \in Workers : job'[v].step # "idle" =>
            /\ job[v].step # "idle" /\ job'[v].msg = job[v].msg
            /\ job'[v].ap = job[v].ap /\ job'[v].st = job[v].st
    BY <1>8, WorkersMoveOn DEF TransferHookStep, Idle
  <2> QED  BY <1>4, <2>2, <2>3
<1> QED
  BY <1>1, <1>2, <1>3, <1>5, <1>6, <1>7, <1>8
     DEF Next, Delivery, TransferHookStep, TransferHookWrites

\* Every step keeps the rows of transfers in order.
LEMMA RowsStayTracked ==
    TypeInv /\ TransferIsTracked /\ [Next]_vars => RowsAreTracked'
<1> SUFFICES ASSUME TypeInv, TransferIsTracked, [Next]_vars, NEW t \in Transfers
             PROVE  /\ pc'[t] \in {"new", "loaded"} => outcome'[t] = "none"
                    /\ pc'[t] \in {"new", "loaded", "calling"} =>
                          ~ applied'[t] /\ status'[t] \in {"none", "pending"}
                    /\ posted'[t] = IF applied'[t] THEN 1 ELSE 0
  BY DEF RowsAreTracked
<1> USE RefsPartition
<1>0. /\ pc[t] \in {"new", "loaded"} => outcome[t] = "none"
      /\ pc[t] \in {"new", "loaded", "calling"} =>
            ~ applied[t] /\ status[t] \in {"none", "pending"}
      /\ posted[t] = IF applied[t] THEN 1 ELSE 0
  BY DEF TransferIsTracked, RowsAreTracked
<1>1. CASE TransferRequest(t)
  <2>1. pc'[t] \in {"calling", "done"}  BY <1>1, TransferRequestWrites
  <2> QED  BY <1>0, <1>1, <2>1, TransferRequestWrites
<1>2. ASSUME NEW w \in Workers, job[w].msg.ref = t, TransferHookWrites(w)
      PROVE  /\ pc'[t] = "done" /\ posted'[t] = IF applied'[t] THEN 1 ELSE 0
  BY <1>0, <1>2, TransferHookLeaves
<1>3. ASSUME pc[t] \in {"new", "loaded"} PROVE outcome'[t] = outcome[t]
  BY <1>0, <1>3, OutcomeMoves
<1>4. CASE /\ status'[t] = status[t] /\ applied'[t] = applied[t] /\ posted'[t] = posted[t]
           /\ \/ pc'[t] = pc[t]
              \/ pc'[t] = "done"
              \/ pc[t] = "new" /\ pc'[t] = "loaded"
  BY <1>0, <1>3, <1>4
<1> QED  BY <1>1, <1>2, <1>4, TransferMoves

LEMMA TrackedHolds ==
    ASSUME Overlap # "any"
    PROVE  Spec => []TransferIsTracked
<1>1. Init => ReportsComeLater /\ RowsAreTracked /\ WorkersKnowRows
  <2> SUFFICES ASSUME Init PROVE ReportsComeLater /\ RowsAreTracked /\ WorkersKnowRows
    OBVIOUS
  <2>1. ReportsComeLater /\ WorkersKnowRows
    BY DEF Init, ReportsComeLater, WorkersKnowRows, Idle
  <2>2. ASSUME NEW t \in Transfers
        PROVE  outcome[t] = "none" /\ status[t] = "none" /\ ~ applied[t] /\ posted[t] = 0
    BY RefsPartition DEF Init
  <2>3. RowsAreTracked  BY <2>2 DEF RowsAreTracked
  <2> QED  BY <2>1, <2>3
<1>2. /\ TypeInv /\ Alone /\ ReportsComeLater /\ RowsAreTracked /\ WorkersKnowRows
      /\ [Next]_vars
      => (ReportsComeLater /\ RowsAreTracked /\ WorkersKnowRows)'
  <2> SUFFICES ASSUME TypeInv, TransferIsTracked, [Next]_vars
               PROVE  (ReportsComeLater /\ RowsAreTracked /\ WorkersKnowRows)'
    BY DEF TransferIsTracked
  <2>1. ReportsComeLater'  BY OutcomeMoves DEF TransferIsTracked
  <2>2. RowsAreTracked'  BY RowsStayTracked
  <2>3. WorkersKnowRows'  BY WorkersStayInformed
  <2> QED  BY <2>1, <2>2, <2>3
<1> QED  BY <1>1, <1>2, TypeCorrect, AloneHolds, PTL DEF Spec, TransferIsTracked

\* A transfer is debited at most once, unless sessions of the same reference
\* overlap: the flag that a debit leaves on the row is seen by the webhook, and
\* the webhook's by the request (wallet.py:437, webhooks.py:335-348).
THEOREM TransfersAreDebitedOnce ==
    ASSUME Overlap # "any"
    PROVE  Spec => []TransferDebitedOnce
<1>1. TransferIsTracked => TransferDebitedOnce
  BY DEF TransferIsTracked, RowsAreTracked, TransferDebitedOnce
<1> QED  BY <1>1, TrackedHolds, PTL

LEMMA ShownNext ==
    ASSUME ~ BlankAnswers
    PROVE  TypeInv /\ TransferIsTracked /\ SettledInv /\ ShownIsTrue /\ [Next]_vars
              => /\ ShownIsTrue'
                 /\ \A t \in Transfers : status[t] = "success" => status'[t] = "success"
<1> SUFFICES ASSUME TypeInv, TransferIsTracked, SettledInv, ShownIsTrue, [Next]_vars,
                    NEW t \in Transfers
             PROVE  /\ status'[t] = "failed" => posted'[t] = 0
                    /\ status'[t] = "success" => outcome'[t] = "settled"
                    /\ status[t] = "success" => status'[t] = "success"
  BY DEF ShownIsTrue
<1> USE RefsPartition
<1>0. outcome[t] = "settled" => outcome'[t] = "settled"
  BY ReportsStayTrue DEF SettledInv
<1>1. /\ posted[t] = 0 \/ outcome[t] = "settled"
      /\ status[t] = "failed" => posted[t] = 0
      /\ status[t] = "success" => outcome[t] = "settled"
      /\ pc[t] \in {"new", "loaded", "calling"} =>
            posted[t] = 0 /\ status[t] \in {"none", "pending"}
  <2>1. posted[t] \in Nat  BY DEF TypeInv, TypeOK
  <2> QED  BY <2>1 DEF SettledInv, DebitsAreSettled, ShownIsTrue, TransferIsTracked, RowsAreTracked
<1>2. CASE TransferRequest(t)
  <2>1. CASE pc[t] = "loaded" /\ status'[t] = "pending"
    BY <1>1, <2>1
  <2>2. CASE pc[t] = "calling" /\ AnswerIsFinal(t) /\ status'[t] = Flushed(status[t], "pending", "success")
    <3>1. outcome[t] = "settled"  BY <2>2 DEF AnswerIsFinal
    <3>2. status'[t] = "success"  BY <2>2 DEF Flushed
    <3> QED  BY <1>0, <3>1, <3>2
  <2>3. CASE pc[t] = "calling" /\ status'[t] \in {status[t], "failed"} /\ posted' = posted
    BY <1>1, <2>3
  <2> QED  BY <1>2, <2>1, <2>2, <2>3, TransferRequestWrites
<1>3. ASSUME NEW w \in Workers, job[w].msg.ref = t, TransferHookWrites(w)
      PROVE  /\ status'[t] = "failed" => posted'[t] = 0
             /\ status'[t] = "success" => outcome'[t] = "settled"
             /\ status[t] = "success" => status'[t] = "success"
  <2>1. job[w].msg \in inbox  BY <1>3, TransferHookLeaves
  <2>2. CASE job[w].msg.event = "success" /\ status'[t] = "success"
    <3>1. outcome[t] = "settled"  BY <1>3, <2>1, <2>2 DEF SettledInv, ReportsAreTrue
    <3> QED  BY <1>0, <2>2, <3>1
  <2>3. CASE job[w].msg.event = "failed" /\ status'[t] = "failed" /\ posted' = posted
    <3>1. outcome[t] = "refused"  BY <1>3, <2>1, <2>3 DEF SettledInv, ReportsAreTrue
    <3> QED  BY <1>1, <2>3, <3>1
  <2>4. CASE status'[t] = PendingUnlessSuccess(status[t]) /\ posted' = posted
    BY <1>0, <1>1, <2>4 DEF PendingUnlessSuccess
  <2> QED  BY <1>3, <2>2, <2>3, <2>4, TransferHookLeaves
<1>4. CASE status'[t] = status[t] /\ posted'[t] = posted[t]
  BY <1>0, <1>1, <1>4
<1> QED  BY <1>2, <1>3, <1>4, TransferMoves

LEMMA ShownHolds ==
    ASSUME ~ BlankAnswers, Overlap # "any"
    PROVE  Spec => []ShownIsTrue
<1>1. Init => ShownIsTrue
  BY RefsPartition DEF Init, ShownIsTrue
<1> QED  BY <1>1, ShownNext, TypeCorrect, TrackedHolds, SettledHolds, PTL DEF Spec

\* A transfer shown as failed has cost nothing, as long as Nomba answers with a
\* state and sessions of the same reference do not overlap (webhooks.py:354-360).
THEOREM FailedTransfersAreFree ==
    ASSUME ~ BlankAnswers, Overlap # "any"
    PROVE  Spec => []FailedTransferIsFree
<1>1. ShownIsTrue => FailedTransferIsFree  BY DEF ShownIsTrue, FailedTransferIsFree
<1> QED  BY <1>1, ShownHolds, PTL

\* Under the same conditions a transfer shown as successful stays so, whatever is
\* delivered late (webhooks.py:361-364).
THEOREM SuccessStands ==
    ASSUME ~ BlankAnswers, Overlap # "any"
    PROVE  Spec => SuccessIsFinal
<1>1. TypeInv /\ TransferIsTracked /\ SettledInv /\ ShownIsTrue /\ [Next]_vars
         => [\A t \in Transfers : status[t] = "success" => status'[t] = "success"]_vars
  BY ShownNext
<1> QED  BY <1>1, ShownHolds, TypeCorrect, TrackedHolds, SettledHolds, PTL
         DEF Spec, SuccessIsFinal

-----------------------------------------------------------------------------
(* What the resident loses.                                                *)

Calling(r) == pc[r] \in {"loaded", "short", "calling"}

Handling(w) == job[w].step # "idle"

\* The delivery has read the balance.
Knowing(w) == job[w].step \in {"user", "missing", "inserted"}

\* The requests' amounts that were debited.
Spent == SumFunctionOnSet(Amount, Debited)

\* A balance that lacks no more than that.
Whole(bal) == bal >= Opening - Spent

\* The strengthening: what the sessions have loaded is whole too, since what was
\* debited since can only make the bound weaker.
WholeInv ==
    /\ Whole(balance)
    /\ \A r \in Requests : Calling(r) => Whole(snap[r])
    /\ \A w \in Workers : Knowing(w) => Whole(job[w].bal)

LEMMA SpentIsInt ==
    ASSUME TypeInv, IsFiniteSet(Requests)
    PROVE  Spent \in Int
<1>1. Debited \subseteq Requests  BY DEF Debited
<1>2. IsFiniteSet(Debited)  BY <1>1, FS_Subset
<1>3. \A r \in Debited : Amount[r] \in Int  BY <1>1, AmountType, RefsPartition
<1> QED  BY <1>2, <1>3, SumIsInt DEF Spent

\* A request's first balance write adds its amount to what was debited; a deposit
\* adds nothing.
LEMMA SpentGrows ==
    ASSUME TypeInv, IsFiniteSet(Requests), NEW r \in Refs, posted[r] = 0,
           posted' = [posted EXCEPT ![r] = @ + 1]
    PROVE  Spent' = Spent + (IF r \in Requests THEN Amount[r] ELSE 0)
<1> USE RefsPartition DEF TypeInv, TypeOK
<1>1. CASE r \in Requests
  <2>1. Debited' = Debited \cup {r} /\ r \notin Debited
    BY <1>1 DEF Debited
  <2>2. IsFiniteSet(Debited') /\ \A q \in Debited' : Amount[q] \in Int
    <3>1. Debited' \subseteq Requests  BY DEF Debited
    <3> QED  BY <3>1, FS_Subset, AmountType
  <2>3. Spent' = Amount[r] + SumFunctionOnSet(Amount, Debited' \ {r})
    BY <2>1, <2>2, SumWithout DEF Spent
  <2>4. Debited' \ {r} = Debited  BY <2>1
  <2>5. SumFunctionOnSet(Amount, Debited' \ {r}) = Spent  BY <2>4 DEF Spent
  <2>6. Spent \in Int /\ Amount[r] \in Int  BY SpentIsInt, AmountType
  <2> QED  BY <1>1, <2>3, <2>5, <2>6
<1>2. CASE r \notin Requests
  <2>1. Debited' = Debited  BY <1>2 DEF Debited
  <2>2. Spent' = Spent  BY <2>1 DEF Spent
  <2> QED  BY <1>2, <2>2, SpentIsInt
<1> QED  BY <1>1, <1>2

\* A session that is under way goes on with the balance it loaded, and one that
\* loads the balance leaves it as it is.
LEMMA SessionsMove ==
    ASSUME TypeInv, [Next]_vars
    PROVE  /\ \A r \in Requests : Calling(r)' =>
                  snap'[r] = balance' \/ (Calling(r) /\ snap'[r] = snap[r])
           /\ \A w \in Workers : Knowing(w)' =>
                  job'[w].bal = balance' \/ (Knowing(w) /\ job'[w].bal = job[w].bal)
<1> USE RefsPartition DEF TypeInv, TypeOK
<1>1. ASSUME NEW r \in Requests, Load(r) \/ Abandon(r)
      PROVE  /\ \A q \in Requests : Calling(q)' =>
                    snap'[q] = balance' \/ (Calling(q) /\ snap'[q] = snap[q])
             /\ UNCHANGED job
  BY <1>1 DEF Load, Abandon, Calling
<1>2. ASSUME NEW t \in Transfers, TransferRequest(t)
      PROVE  /\ \A q \in Requests : Calling(q)' => Calling(q)
             /\ UNCHANGED <<snap, job>>
  BY <1>2 DEF TransferRequest, TransferOpen, TransferFinal, TransferQueued, TransferError, Calling
<1>3. ASSUME NEW u \in Utilities, UtilityRequest(u)
      PROVE  /\ \A q \in Requests : Calling(q)' => Calling(q)
             /\ UNCHANGED <<snap, job>>
  BY <1>3 DEF UtilityRequest, UtilityOpen, UtilityDecline, UtilityVended, UtilityFailed, Calling
<1>4. CASE Nomba \/ UNCHANGED vars
  BY <1>4 DEF Nomba, Accept, Resolve, Deposit, vars, request, Calling, Knowing
<1>5. ASSUME NEW w \in Workers, NEW m \in inbox, TransferHook(w, m) \/ FundingHook(w, m)
      PROVE  /\ UNCHANGED <<pc, snap>>
             /\ \A v \in Workers : Knowing(v)' =>
                    job'[v].bal = balance' \/ (Knowing(v) /\ job'[v].bal = job[v].bal)
  <2>1. CASE TransferHook(w, m)  BY <2>1 DEF TransferHook, request, Knowing
  <2>2. CASE FundingHook(w, m)  BY <2>2 DEF FundingHook, Idle, request, Knowing
  <2> QED  BY <1>5, <2>1, <2>2
<1>6. ASSUME NEW w \in Workers, TransferHookStep(w) \/ FundingHookStep(w) \/ HookCrash(w)
      PROVE  /\ UNCHANGED <<pc, snap>>
             /\ \A v \in Workers : Knowing(v)' =>
                    job'[v].bal = balance' \/ (Knowing(v) /\ job'[v].bal = job[v].bal)
  <2>1. UNCHANGED <<pc, snap>> /\ \A v \in Workers \ {w} : job'[v] = job[v]
    BY <1>6, WorkersMoveOn
  <2>2. CASE job'[w] = Idle
    BY <2>1, <2>2 DEF Idle, Knowing
  <2>3. CASE job'[w] # Idle
    <3>1. job[w].step # "idle" /\ balance' = balance
      BY <1>6, <2>3, WorkersMoveOn
    <3>2. job'[w].bal = balance \/ (job'[w].bal = job[w].bal /\ job[w].step # "txn")
      BY <1>6, <2>3, WorkersMoveOn
    <3>3. job[w].step \in {"idle", "txn", "user", "missing", "inserted"}
      BY DEF Jobs
    <3> QED  BY <2>1, <3>1, <3>2, <3>3 DEF Knowing
  <2> QED  BY <2>1, <2>2, <2>3
<1> QED
  BY <1>1, <1>2, <1>3, <1>4, <1>5, <1>6 DEF Next, Delivery, Calling, Knowing

\* What a balance write for reference r moves.
EffectOf(r) == IF r \in Fundings THEN Amount[r] ELSE - Amount[r]

\* x is what a session under way has loaded.
IsLoaded(x) ==
    \/ \E r \in Requests : Calling(r) /\ x = snap[r]
    \/ \E w \in Workers : Knowing(w) /\ x = job[w].bal

\* When sessions of one reference do not overlap, a balance write is the first of
\* its reference, and moves the whole amount from what a session has loaded.
LEMMA PostIsFirst ==
    ASSUME TypeInv, FundingInv, UtilityInv, TransferIsTracked, NEW r \in Refs, Posts(r)
    PROVE  /\ posted[r] = 0
           /\ \E x \in Int : IsLoaded(x) /\ balance' = Flushed(balance, x, x + EffectOf(r))
<1> USE RefsPartition, AmountType
<1>0. Amount[r] \in Nat  OBVIOUS
<1>1. CASE r \in Requests /\ pc[r] = "calling"
           /\ balance' = Flushed(balance, snap[r], snap[r] - Amount[r])
  <2>1. posted[r] = 0
    BY <1>1 DEF UtilityInv, TransferIsTracked, RowsAreTracked, Requests
  <2>2. snap[r] \in Int /\ IsLoaded(snap[r])
    BY <1>1 DEF IsLoaded, Calling, TypeInv, TypeOK
  <2>3. snap[r] - Amount[r] = snap[r] + EffectOf(r)
    BY <1>0, <1>1, <2>2 DEF EffectOf
  <2> QED  BY <1>1, <2>1, <2>2, <2>3
<1>2. ASSUME NEW w \in Workers, r = job[w].msg.ref, TransferHookSuccess(w), DebitIsDue(w)
      PROVE  /\ posted[r] = 0
             /\ \E x \in Int : IsLoaded(x) /\ balance' = Flushed(balance, x, x + EffectOf(r))
  <2>1. /\ job[w].step = "user" /\ r \in Transfers /\ ~ job[w].ap
        /\ balance' = Flushed(balance, job[w].bal, job[w].bal - Amount[r])
    BY <1>2 DEF TransferHookSuccess, TransferHookReady, DebitIsDue
  <2>2. posted[r] = 0  BY <1>2, <2>1 DEF TransferIsTracked, RowsAreTracked, WorkersKnowRows
  <2>3. job[w].bal \in Int /\ IsLoaded(job[w].bal)
    BY <2>1 DEF IsLoaded, Knowing, TypeInv, TypeOK, Jobs
  <2>4. job[w].bal - Amount[r] = job[w].bal + EffectOf(r)
    BY <1>0, <2>1, <2>3 DEF EffectOf
  <2> QED  BY <2>1, <2>2, <2>3, <2>4
<1>3. ASSUME NEW w \in Workers, r = job[w].msg.ref, FundingHookCredit(w)
      PROVE  /\ posted[r] = 0
             /\ \E x \in Int : IsLoaded(x) /\ balance' = Flushed(balance, x, x + EffectOf(r))
  <2>1. /\ job[w].step = "inserted" /\ r \in Fundings
        /\ balance' = Flushed(balance, job[w].bal, job[w].bal + Amount[r])
    BY <1>3 DEF FundingHookCredit, TypeInv, JobOK
  <2>2. posted[r] = 0  BY <1>3, <2>1 DEF FundingInv
  <2>3. job[w].bal \in Int /\ IsLoaded(job[w].bal)
    BY <2>1 DEF IsLoaded, Knowing, TypeInv, TypeOK, Jobs
  <2> QED  BY <2>1, <2>2, <2>3 DEF EffectOf
<1>4. CASE (r \in Transfers /\ TransferFinal(r)) \/ (r \in Utilities /\ UtilityVended(r))
  BY <1>1, <1>4 DEF TransferFinal, UtilityVended
<1> QED  BY <1>2, <1>3, <1>4 DEF Posts

\* The resident loses no more than the debited amounts, each once, whatever else
\* overlaps, unless sessions of the same reference do: of two debits of different
\* references one may be lost, none is repeated (wallet.py:443, webhooks.py:345-347).
THEOREM NobodyIsOvercharged ==
    ASSUME Overlap # "any", IsFiniteSet(Requests)
    PROVE  Spec => []NotOvercharged
<1>1. Init => WholeInv
  <2> SUFFICES ASSUME Init PROVE WholeInv
    OBVIOUS
  <2>1. Debited = {}  BY RefsPartition DEF Init, Debited
  <2>2. Spent = 0  BY <2>1, SumOfNone DEF Spent
  <2> QED
    BY <2>2, AmountsAreKobo DEF Init, WholeInv, Whole, Calling, Knowing, Idle
<1>2. TypeInv /\ TypeInv' /\ FundingInv /\ UtilityInv /\ TransferIsTracked /\ WholeInv /\ [Next]_vars
         => WholeInv'
  <2> SUFFICES ASSUME TypeInv, TypeInv', FundingInv, UtilityInv, TransferIsTracked, WholeInv,
                      [Next]_vars
               PROVE  WholeInv'
    OBVIOUS
  <2>0. /\ Opening \in Nat /\ balance \in Int /\ Spent \in Int
        /\ \A r \in Requests : snap[r] \in Int
        /\ \A w \in Workers : job[w].bal \in Int
    BY AmountsAreKobo, SpentIsInt DEF TypeInv, TypeOK, Jobs
  <2>1. balance' >= Opening - Spent' /\ Spent' \in Int /\ Spent' >= Spent
    <3>1. CASE UNCHANGED <<balance, posted>>
      <4>1. Spent' = Spent  BY <3>1 DEF Spent, Debited
      <4> QED  BY <2>0, <3>1, <4>1 DEF WholeInv, Whole
    <3>2. ASSUME NEW r \in Refs, Posts(r), posted' = [posted EXCEPT ![r] = @ + 1]
          PROVE  balance' >= Opening - Spent' /\ Spent' \in Int /\ Spent' >= Spent
      <4>1. posted[r] = 0 /\ Amount[r] \in Nat  BY <3>2, PostIsFirst, AmountType
      <4>2. Spent' = Spent + (IF r \in Requests THEN Amount[r] ELSE 0)
        BY <3>2, <4>1, SpentGrows
      <4>3. PICK x \in Int : IsLoaded(x) /\ balance' = Flushed(balance, x, x + EffectOf(r))
        BY <3>2, PostIsFirst
      <4>4. x >= Opening - Spent /\ balance >= Opening - Spent
        BY <4>3 DEF IsLoaded, WholeInv, Whole
      <4>5. r \in Fundings \/ r \in Requests  BY DEF Refs
      <4> HIDE DEF Spent
      <4> QED  BY <2>0, <4>1, <4>2, <4>3, <4>4, <4>5, RefsPartition DEF EffectOf, Flushed
    <3> QED  BY <3>1, <3>2, OnlyPostsWrite
  <2> QED  BY <2>0, <2>1, SessionsMove DEF WholeInv, Whole
<1>3. WholeInv => NotOvercharged
  BY DEF WholeInv, Whole, Spent, NotOvercharged
<1> QED
  BY <1>1, <1>2, <1>3, TypeCorrect, DepositsHaveRows, UtilityInvHolds, TrackedHolds, PTL DEF Spec

-----------------------------------------------------------------------------
(* One session at a time: the ledger.                                      *)

\* One session is in flight at most, and the balance it has loaded is the stored
\* one.
Quiet ==
    /\ \A r, q \in Requests : Calling(r) /\ Calling(q) => r = q
    /\ \A r \in Requests, w \in Workers : ~ (Calling(r) /\ Handling(w))
    /\ \A v, w \in Workers : Handling(v) /\ Handling(w) => v = w
    /\ \A r \in Requests : Calling(r) => snap[r] = balance
    /\ \A w \in Workers :
          job[w].step \in {"user", "missing", "inserted"} => job[w].bal = balance

\* What Nomba does, and a session that goes on or ends, keep it.
LEMMA QuietGoesOn ==
    ASSUME Quiet, balance' = balance,
           \A r \in Requests : Calling(r)' => Calling(r) /\ snap'[r] = snap[r],
           \A w \in Workers : Handling(w)' => Handling(w),
           \A w \in Workers : job'[w].step \in {"user", "missing", "inserted"} =>
               \/ job'[w].bal = balance
               \/ job[w].step \in {"user", "missing", "inserted"} /\ job'[w].bal = job[w].bal
    PROVE  Quiet'
BY DEF Quiet

\* A request that ends leaves nobody in flight.
LEMMA QuietAfterCall ==
    ASSUME TypeInv, Quiet, NEW r \in Requests, Calling(r), job' = job,
           pc' = [pc EXCEPT ![r] = "done"]
    PROVE  Quiet'
<1>1. \A q \in Requests : ~ Calling(q)'
  BY DEF Quiet, Calling, TypeInv, TypeOK
<1>2. \A w \in Workers : ~ Handling(w)'
  BY DEF Quiet, Handling
<1> QED  BY <1>1, <1>2 DEF Quiet, Handling

LEMMA QuietAfterDelivery ==
    ASSUME TypeInv, Quiet, NEW w \in Workers, Handling(w), pc' = pc,
           job' = [job EXCEPT ![w] = Idle]
    PROVE  Quiet'
<1>1. \A q \in Requests : ~ Calling(q)'
  BY DEF Quiet, Calling
<1>2. \A v \in Workers : ~ Handling(v)'
  BY DEF Quiet, Handling, Idle, TypeInv, TypeOK
<1> QED  BY <1>1, <1>2 DEF Quiet, Handling

LEMMA QuietHolds ==
    ASSUME Overlap = "none"
    PROVE  Spec => []Quiet
<1>1. Init => Quiet
  BY DEF Init, Quiet, Calling, Handling, Idle
<1>2. TypeInv /\ Quiet /\ [Next]_vars => Quiet'
  <2> SUFFICES ASSUME TypeInv, Quiet, [Next]_vars PROVE Quiet'
    OBVIOUS
  <2> USE RefsPartition
  <2>0. ASSUME NEW r, MayStart(r)
        PROVE  /\ \A q \in Requests : ~ Calling(q)
               /\ \A w \in Workers : ~ Handling(w)
    BY <2>0 DEF MayStart, InFlight, Calling, Handling
  <2>1. ASSUME NEW r \in Requests, Load(r) PROVE Quiet'
    <3>1. /\ \A q \in Requests : ~ Calling(q)
          /\ \A w \in Workers : ~ Handling(w)
      BY <2>0, <2>1 DEF Load
    <3>2. /\ UNCHANGED <<balance, job>> /\ pc' = [pc EXCEPT ![r] = "loaded"]
          /\ snap' = [snap EXCEPT ![r] = balance]
      BY <2>1 DEF Load
    <3>3. \A q \in Requests : Calling(q)' => q = r
      BY <3>1, <3>2 DEF Calling, TypeInv, TypeOK
    <3>4. snap'[r] = balance /\ \A w \in Workers : ~ Handling(w)'
      BY <3>1, <3>2 DEF Handling, TypeInv, TypeOK
    <3> QED  BY <3>2, <3>3, <3>4 DEF Quiet, Handling
  <2>2. ASSUME NEW r \in Requests, Abandon(r) PROVE Quiet'
    BY <2>2, QuietAfterCall DEF Abandon, Calling
  <2>3. ASSUME NEW t \in Transfers, TransferRequest(t) PROVE Quiet'
    <3>1. CASE TransferOpen(t)
      BY <3>1, QuietGoesOn DEF TransferOpen, Calling, Handling, TypeInv, TypeOK
    <3>2. CASE TransferFinal(t) \/ TransferQueued(t) \/ TransferError(t)
      BY <3>2, QuietAfterCall DEF TransferFinal, TransferQueued, TransferError, Calling
    <3> QED  BY <2>3, <3>1, <3>2 DEF TransferRequest
  <2>4. ASSUME NEW u \in Utilities, UtilityRequest(u) PROVE Quiet'
    <3>1. CASE UtilityOpen(u)
      BY <3>1, QuietGoesOn DEF UtilityOpen, Calling, Handling, TypeInv, TypeOK
    <3>2. CASE UtilityDecline(u) \/ UtilityVended(u) \/ UtilityFailed(u)
      BY <3>2, QuietAfterCall DEF UtilityDecline, UtilityVended, UtilityFailed, Calling
    <3> QED  BY <2>4, <3>1, <3>2 DEF UtilityRequest
  <2>5. CASE Nomba
    BY <2>5, QuietGoesOn DEF Nomba, Accept, Resolve, Deposit, request, Calling, Handling
  <2>6. ASSUME NEW w \in Workers, Delivery(w) PROVE Quiet'
    <3> PICK m \in inbox : TransferHook(w, m) \/ FundingHook(w, m)
      BY <2>6 DEF Delivery
    <3>1. /\ \A q \in Requests : ~ Calling(q)
          /\ \A v \in Workers : ~ Handling(v)
      BY <2>0 DEF TransferHook, FundingHook
    <3>2. /\ UNCHANGED <<balance, pc>> /\ \A v \in Workers \ {w} : job'[v] = job[v]
          /\ job'[w].step = "txn" \/ job'[w].bal = balance
      <4>1. CASE TransferHook(w, m)  BY <4>1 DEF TransferHook, request, TypeInv, TypeOK
      <4>2. CASE FundingHook(w, m)  BY <4>2 DEF FundingHook, request, Idle, TypeInv, TypeOK
      <4> QED  BY <4>1, <4>2
    <3> QED  BY <3>1, <3>2 DEF Quiet, Calling, Handling
  <2>7. ASSUME NEW w \in Workers, TransferHookStep(w) \/ FundingHookStep(w) \/ HookCrash(w)
        PROVE  Quiet'
    <3>1. Handling(w)
      BY <2>7 DEF TransferHookStep, TransferHookUser, TransferHookSuccess, TransferHookFailed,
                  TransferHookPending, TransferHookReady, FundingHookStep, FundingHookFind,
                  FundingHookInsert, FundingHookCredit, HookCrash, Handling
    <3>2. UNCHANGED <<pc, snap>> /\ \A v \in Workers \ {w} : job'[v] = job[v]
      BY <2>7, WorkersMoveOn
    <3>3. CASE job'[w] = Idle
      BY <3>1, <3>2, <3>3 DEF Quiet, Calling, Handling, Idle
    <3>4. CASE /\ balance' = balance
               /\ \/ job'[w].bal = balance
                  \/ job[w].step # "txn" /\ job'[w].bal = job[w].bal
      <4>1. job[w].step \in {"user", "missing", "inserted"} \/ job[w].step = "txn"
        BY <3>1 DEF Handling, TypeInv, TypeOK, Jobs
      <4> QED  BY <3>1, <3>2, <3>4, <4>1, QuietGoesOn DEF Calling, Handling
    <3> QED  BY <2>7, <3>3, <3>4, WorkersMoveOn
  <2>8. CASE UNCHANGED vars
    BY <2>8, QuietGoesOn DEF vars, request, Calling, Handling
  <2> QED  BY <2>1, <2>2, <2>3, <2>4, <2>5, <2>6, <2>7, <2>8 DEF Next
<1> QED  BY <1>1, <1>2, TypeCorrect, PTL DEF Spec

\* A balance write is the first of its reference and adds its whole amount.
LEMMA PostBooks ==
    ASSUME TypeInv, Quiet, FundingInv, UtilityInv, TransferIsTracked,
           NEW r \in Refs, Posts(r)
    PROVE  posted[r] = 0 /\ balance' = balance + EffectOf(r)
<1>1. posted[r] = 0  BY PostIsFirst
<1>2. PICK x \in Int : IsLoaded(x) /\ balance' = Flushed(balance, x, x + EffectOf(r))
  BY PostIsFirst
<1>3. x = balance  BY <1>2 DEF IsLoaded, Quiet, Knowing
<1>4. Amount[r] \in Nat  BY AmountType
<1> QED  BY <1>1, <1>2, <1>3, <1>4 DEF Flushed, EffectOf

\* One session at a time, the wallet keeps its promise: the balance is the
\* opening one plus every booked movement, each booked once and whole, for any
\* number of references, amounts, deliveries and crashes.
THEOREM WalletIsALedger ==
    ASSUME Overlap = "none"
    PROVE  Spec => ImplementsLedger
<1> DEFINE booked == {r \in Refs : posted[r] > 0}
<1>1. Init => Books!Init
  BY DEF Init, Books!Init
<1>2. TypeInv /\ Quiet /\ FundingInv /\ UtilityInv /\ TransferIsTracked /\ [Next]_vars
         => [Books!Next]_<<balance, booked>>
  <2> SUFFICES ASSUME TypeInv, Quiet, FundingInv, UtilityInv, TransferIsTracked, [Next]_vars
               PROVE  Books!Next \/ UNCHANGED <<balance, booked>>
    OBVIOUS
  <2>1. CASE UNCHANGED <<balance, posted>>
    BY <2>1
  <2>2. ASSUME NEW r \in Refs, Posts(r), posted' = [posted EXCEPT ![r] = @ + 1]
        PROVE  Books!Book(r)
    <3>1. /\ posted[r] = 0
          /\ balance' = balance + (IF r \in Fundings THEN Amount[r] ELSE - Amount[r])
      BY <2>2, PostBooks DEF EffectOf
    <3>2. r \notin booked  BY <3>1
    <3>3. booked' = booked \cup {r}
      <4>1. posted'[r] > 0 /\ \A o \in Refs \ {r} : posted'[o] = posted[o]
        BY <2>2, <3>1 DEF TypeInv, TypeOK
      <4> QED  BY <4>1
    <3> QED  BY <3>1, <3>2, <3>3 DEF Books!Book
  <2> QED  BY <2>1, <2>2, OnlyPostsWrite DEF Books!Next
<1>3. Overlap # "any"  OBVIOUS
<1> QED
  BY <1>1, <1>2, <1>3, TypeCorrect, QuietHolds, DepositsHaveRows, UtilityInvHolds, TrackedHolds, PTL
     DEF Spec, ImplementsLedger, Books!Spec
=============================================================================
