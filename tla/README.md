# GetNode resident backend: a verification project

The repository is the resident-facing backend of an estate management app
(FastAPI, SQLAlchemy on asyncpg, PostgreSQL; Nomba as the bank). This directory
holds TLA+ models of it, the TLC configurations that check them, and proofs
that TLAPS checks. Paths below are relative to `src/`, and `client/` is where
the service lives. `PROJECT.json` maps every definition to the lines it stands
for.

Run everything from this directory:

    tlc -workers 2 -config wallet_overlapping.cfg MCWallet
    tlapm WalletProofs.tla

## 1. The system

One FastAPI process (or several, behind a load balancer) serves the app. A
request handler is a coroutine; it owns one database session
(`client/core/db.py:99`), loads its user first (`client/core/deps.py:15`), and
lets other handlers run at every `await`: each database statement and each HTTP
call. Nomba calls back through one webhook. A scheduler loop makes recurring
bills. There is no message queue and no lock table; all shared state is in
PostgreSQL, except the SSE queues and the Nomba token, which are per process.
Events for connected apps go through the database's LISTEN and NOTIFY.

Three facts of the session layer decide most of what can go wrong, and every
model here starts from them:

- the database runs at READ COMMITTED and no handler takes a row lock (the
  scheduler's `FOR UPDATE SKIP LOCKED` is the one exception);
- a session keeps the rows it loaded until it is closed
  (`expire_on_commit=False`, `autoflush=False`), so what it computes from is as
  old as its first statement;
- a commit sends only the columns whose value differs from the loaded one, with
  absolute values. `balance = balance - n` in Python is therefore "set the
  balance to what I read, minus n": two sessions overwrite each other, and a
  status set to the value that was loaded is not written at all.

Module `UnitOfWork` states the third fact as one operator, `Flushed`.

Most handlers have one shape: load, check, write. Where a constraint of the
database backs the check, the second of two overlapping requests fails; where
none does, both write. The models of this shape keep a history variable of what
two requests have worked on at once (`raced`, `tangled`, `rushed`, `mixed`,
`crossed`, `feedCrossed`, `together`). Their properties say what holds
outside of it: one run shows that the checks suffice through any sequence of
calls as long as requests do not meet, and leaves open what two that meet do.
Where overlap breaks nothing, the property has no such exception. Where a
hazard is an overlap that a property leaves out, its note in PROJECT.json says
so: the property then bounds the damage and does not exclude it.

### Inventory

| Component | State | Operations | Talks to | Hard behaviour | What makes it correct |
|---|---|---|---|---|---|
| Wallet movements (`routes/wallet.py`, `routes/webhooks.py`, `services/payment_service.py` 854-1106) | `users.wallet_balance`, `transactions` | transfer-out, utility purchase, funding webhook, transfer webhook | Nomba calls and webhooks | overlap of request and webhook, repeated and reordered webhooks, timeouts, crashes between commits | each settled movement on the balance once; failed ones free; status and balance agree |
| Bill payment (`services/payment_service.py` 102-770, `routes/bills.py`) | `bill_assignments`, `wallet_balance`, `transactions`, `payment_allocations`, `wallet_history`, `units.next_rent_due` | rent, service charges, estate bills, one assignment | household members share assignments | overlap of members, two commits of a service charge | nothing overpaid, nothing overdrawn, what is paid was debited, status tells what is paid |
| Service charge fees (`core/service_charge_fees.py`) | none | who bears the fee; the share in each instalment | bills, scheduler | rounding | shares add up |
| Sessions of the database (`core/db.py`, `core/deps.py`) | pool of 10 + 20 | load, commit, rollback | everything | stale loads, lost updates | see above |
| Recurring billing (`core/recurring_billing.py`, `core/tasks.py`) | `recurring_billing_setups`, `bills`, `bill_assignments` | generate the due cycles every hour | bills, the administrators' service | two schedulers, a service that bills without the lock, units deleted meanwhile, failures, catching up, months of different lengths | one bill per cycle, no cycle without one unless nobody lived there or a unit was deleted meanwhile |
| Bill listings (`routes/bills.py`, `core/billing.py`) | none | three summaries, the list of bills, titles, who may pay | bill payment | two ways to tell the type of a bill; truncation to kobo | lists and bills agree |
| Invites (`routes/invites.py`) | `visitor_invites` | create, list, history, revoke, extend, verify | gate, SSE, push | lazy expiry against revoke, extend, verify | a single entry admits once; a revoked code stays revoked |
| Accounts and sessions (`routes/auth.py`, `core/deps.py`) | `users.active_token_id`, `deletion_requested_at` | signup, login, refresh, logout, delete, restore | push | overlapping logins, a logout under way, refresh after logout | one session at a time, the last; only its logout ends it |
| Device tokens, push (`routes/device_tokens.py`, `core/push.py`) | `device_tokens` | register, send, remove | sessions | delete-and-insert races | a push reaches the device of the current login only |
| Reset codes (`routes/auth.py`, `core/otp_hardening.py`) | `otp_codes` | issue, use | mail | count before insert | pauses and limits kept; a code is used once |
| PIN (`routes/user.py`) | `users.transaction_pin_hash` | change, forget | mail | stored before it is mailed | the PIN the user knows is the one that pays |
| Estates, units, household (`routes/auth.py`, `routes/household.py`) | `users.estate_id`, `user_units` | join, leave, add, remove; a login restores the estate | auth, bills | check before insert, no constraint | one primary unit, one link per unit, the estate of the units joined |
| Live updates (`core/events.py`, `routes/events.py`, `core/notifications.py`) | connections per process, one LISTEN connection | connect, subscribe, publish, dispatch, notices | every handler that publishes | listener death, restarts, a notice in two steps | each event to each stream once, in order; a notice told is a notice kept |
| Wallet setup, KYC (`core/wallet_setup.py`, `core/nomba.py`) | `wallet_profiles`; the client's token | provision, retry | Nomba | crash after Nomba's creation, answers without details | the account that is shown exists; none is left behind but by a lost answer |
| Direct messaging (`routes/dm.py`) | `feed_conversations`, `feed_conversation_participants`, `feed_messages` | open, add, leave, delete, send, unsend, read | SSE, push | check before insert, the last two leaving, reading against unsending | one conversation of two; none without participants; nothing read is unsent |
| Feed (`routes/feed.py`) | `feed_posts`, likes, polls, votes, favourites | post, reply, like, vote, delete, favourite | SSE, push | check before insert, deletion | one like and one vote per user; a deleted post leaves nothing |
| Lists by page (`routes/dm.py`, `routes/feed.py`) | `last_read_at`; the reader's cursor | load, show, mark as read | the two above | items that come and go while somebody scrolls | nothing twice, nothing left out |
| Utilities (`routes/services.py`, `core/utility_payments.py`, `core/nomba.py`) | none | list, price, pay | wallet, Nomba | naira or kobo, price ranges, rounding | what is paid is what was shown |
| Vehicles, complaints, incidents, dashboard, branding, uploads, support, Aura | rows of their own | create, list, read | I/O | none to speak of | not modelled |

PROJECT.json lists each with its status, and under "hazards" the lines where
the behaviours above bite, with the properties that cover them.

## 2. Modules

    UnitOfWork            what a commit writes
      Wallet              the balance of one resident, four handlers, Nomba
        Ledger              what a wallet promises (abstract)
        MCWallet            instances for TLC
        WalletProofs        theorems
      BillPayment         the bills of a unit and the wallets of its household
        ServiceChargeFees   arithmetic of fees
        BillListings        what is shown of the bills, and who may pay
        MCBillPayment       instances for TLC
        SumTheorems         sums over finite sets, for these proofs and those of Wallet
        BillPaymentProofs   theorems about all three
      Invites             visitor invites, phones, gates and a clock
        MCInvites           instances for TLC
        InvitesProofs       theorems
      Accounts, Membership, ResetCodes, TransactionPin, Messaging, Feed, Paging
        MCResidents         all seven, composed for TLC
        AccountProofs       theorems about the first four
        SocialProofs        theorems about the other three and the composition
      LiveUpdates, RecurringBilling, WalletSetup
        MCOperations        all three, composed for TLC
        OperationsProofs    theorems about them and the composition
    UtilityAmounts        the catalogue of services and the amount of a payment
        UtilityAmountsProofs

### Wallet

`balance` is `users.wallet_balance` of one resident. `status` and `applied` are
`transactions.status` and `metadata_json["balance_applied"]` of the row with a
given reference, `pc` and `snap` the request with this reference and the
balance its session loaded, `job` the webhook deliveries that are being
handled, each with the columns its session loaded. `outcome`, `inbox` are
Nomba's side. `posted` (how often a balance write for the reference was
committed) and `reconciled` are history variables that only properties read.

| Code | Actions |
|---|---|
| `transfer_out`, wallet.py 352-487 | `Load`, `TransferOpen` (pending row, commit 1), then `TransferFinal`, `TransferQueued` or `TransferError` (commit 2) |
| `process_external_utility_payment`, payment_service.py 854-1106 | `Load`, `UtilityOpen` (commit 1), then `UtilityDecline`, `UtilityVended` or `UtilityFailed` |
| `_apply_transfer_out_webhook`, webhooks.py 306-369 | `TransferHook` (loads the row), `TransferHookUser` (loads the balance), then `TransferHookSuccess`, `TransferHookFailed`, `TransferHookPending` |
| `_apply_wallet_funding_webhook`, webhooks.py 173-303 | `FundingHook`, `FundingHookFind`, `FundingHookInsert` (flush), `FundingHookCredit` (commit) |
| rejected requests, timeouts, crashes | `Abandon`, `HookCrash` |
| Nomba (external) | `Accept`, `Resolve`, `Deposit`; `inbox` only grows, so that a webhook can be delivered any number of times, late and in any order |

An action is what a handler does between two awaits at which another session
can change what it has read or will write. Statements between which nothing of
the model changes are one action.

`Overlap` names the assumption a property needs: `"any"` lets all sessions
overlap (what the code does), `"distinct"` only sessions of different
references, `"none"` lets one session run at a time. The properties checked
under `"any"` hold of the code as it is; the others say what the code would
keep if the wallet's row were locked, and the violation runs show that it is
not kept without. `BlankAnswers` is whether a 2xx answer without a state may
come before the outcome is known (the code takes it for success).

Of a utility purchase the code asks one thing only: a 2xx answer with `data.id`
(payment_service.py 1037), whatever status it reports. `AnswerIsVend` is
therefore true as soon as Nomba has accepted the call: a purchase that is still
under way, or refused, may be debited and shown as successful. The properties
claim no more than the code can know: the debit goes with the status that is
shown (`UtilityDebitedIffSuccess`), and `DebitsAreSettled` speaks of transfers.

The wallet page shows Nomba's own balance when it can (wallet.py 299-305);
`wallet_balance` is what the handlers check and move.

### BillPayment

The wallets of a household (`balance`), the assignments of its unit (`paid`,
`status`), `units.next_rent_due`, and a set of payment requests. `Load` loads
the payer, `Plan...` is everything up to the last check (it loads the
assignments and the unit and computes what each assignment gets), `Pay` is the
one commit of rent and other bills, `PrepareSplit` and `FinalizeSplit` are the
two commits of a service charge. `OldestFirst` characterises the loop that
spreads an amount: it constrains the shares and leaves finding them to the
quantifier. Reading the assignments and reading the unit are one step.

The payments of a list select assignments by the clauses of payment_service.py
101-123, which go by keywords anywhere in a title: an assignment may be in two
lists. `Lists` gives the types whose clause selects it, `Type` the one that
`infer_bill_type` gives its title, which decides when it is paid by itself.
`kind` is what a session pays its assignments as. It decides between one commit
and the two of a service charge, and whether a rent date moves, so that a
service charge which is paid as an estate bill carries no fee and a service
charge whose title has "rent" in it moves the date of the next rent. How titles
decide `Type` and `Lists` is `BillListings`.

### BillListings

Operators over the state of BillPayment: `Listed` selects by title pattern as
the queries do, `InferType` types a title as the list of bills does, and
`ServiceCharge`, `RentDetails` and `EstateBill` are the three summaries. A title
is a prefix and the set of types whose keywords it contains. The two ways to
type a bill differ: `%rent%` also matches "[BILL] Current levy", which then is
in two lists. `Kobo` is `int(naira * 100)`, which may fall one kobo short
(1.15 naira becomes 114), so that paying the amount shown may leave a kobo.
The module changes no state; the runs of BillPayment extend it, and TLC
evaluates there that the types and lists they use follow from the titles
(`TitlesDecide`). What a summary lists is exactly what a payment of the same
list selects (`ListedIsPayable`).

### ServiceChargeFees

Operators for `calculate_service_charge_fee_breakdown` and for the split of an
instalment, in kobo, with the code's rounding.

### Invites

`status` and `until` are the columns of `visitor_invites`. Each phone and each
gate runs one session at a time: `op` is what it does, `now` the time it took,
`rows` and `seen` the rows it is going to write, as it loaded them. A request
is two steps, load and commit: `RevokeLoad`/`Revoke` (revoke and delete are the
same), `ExtendLoad`/`Extend`, `VerifyLoad` and `VerifyLapsed` or `VerifyEntry`.
Listing invites writes too: `History` and `ListStart`/`List` load lapsed
invites, `Expire` commits them as expired. `Create` is one insert. `Abandon` is
every rejection and crash. `entries`, `revoked` and `raced` are history:
visitors let in, revocations not yet followed by an extension, and invites that
two sessions have held at once. `raced` takes the place of a mode: most
properties speak of invites outside of it, so that one run covers both what
overlap breaks and what it does not.

Verification does not read `valid_from` (invites.py 463-470), so the model has
no such column.

### Accounts

`active` is `users.active_token_id`, `tokens` the rows of `device_tokens`, and
`held` the login whose tokens a device keeps. `req` is a request with the
account it loaded. `SignupLoad`/`Signup`, `LoginLoad`/`Login` and
`AuthorizedLoad` with `RegisterDevice`, `Logout` or `RequestDeletion` are load
and commit; `CancelDeletion` is the commit of its own by which a login restores
an account; `Clear` is the pair of deletes before a registration is inserted,
which see what is committed at that moment. An answer may be lost (`Answer`).
`Accepted` is the check of `get_current_user` and of `/refresh`: any token is
good while none is active. A refresh keeps the token id and so changes nothing
that is modelled, but for the tokens of a device running out (`Expire`). A
logout leaves no login active, so that a device which did not get its answer
keeps tokens that are accepted until the next login, although the docstring of
`logout` (auth.py 457-458) says that refresh tokens stop working. No property
promises what the docstring says.

### Membership

`link` is `user_units`, by id. Each request loads and decides (`JoinLoad`,
`LeaveLoad`, `AddLoad`, `CreateLoad`, `RemoveLoad`, `ContextLoad`: the estate a
login restores), and `Commit` writes what it decided. Adding somebody to a unit
of another estate leaves his estate as it is, so that the property about
estates speaks of units joined by oneself.

### ResetCodes

The codes of one address with the time of their transaction. `IssueLoad` counts
and `IssueCode` inserts; `ResetLoad` finds a good code and `Reset` uses it.

### TransactionPin

`pin` is the stored PIN, `known` the one its user chose or read last. A
forgotten PIN is committed (`ForgotPin`) and then mailed (`MailPin`), and the
mail may be lost.

### Messaging, Feed, Paging

`rows` counts the rows of a participant, since nothing forbids two; `marks` does
the same for likes, votes and favourites. A request that checks and then writes
is two steps (`...Load` and the commit). The delete of the last participant
deletes the conversation with the messages it loaded and fails on rows that came
meanwhile. `MarkRead` asks for no participation, as the code does not.
`DeleteRefused` is the foreign key of a post on its poll.

Paging is the list itself, for conversations and for the feed. Items are
numbered by (created_at, id); the time is that of the inserting transaction, so
an item may appear below newer ones that somebody has scrolled past (`late`).
`LoadPage` and `ShowPage` are apart, since the mark is set after the page was
read. `limit=0` makes the handlers fail and is excluded by an assumption.

### LiveUpdates

The workers with a pool, their listening connections with what the database has
handed to them, the streams with their queues. `Connect` is one step: the pool
is made with `min_size=0`, so that nothing in `connect()` waits and no other
coroutine runs before the pool is set; a worker connects once. `Dispatch` puts
an event on every matching queue: each put is a task of its own, but the loop
starts tasks in the order they were made and a queue without a limit never makes
one wait, so they are one step. `ListenerEnds` is
the first error of a listening task, after which nothing starts it again. `Keep`
and `Tell` are a notification: its row, then its event.

### RecurringBilling

One setup. `Start` is `SELECT ... FOR UPDATE SKIP LOCKED`, `Skip`, `Look` and
`InsertBill` bill one cycle, `Finish` commits bills and next due date together,
`Fail` rolls both back. The administrators' service (external) may bill a cycle
without the lock; the unique key makes the job's insert fail, and it goes on.
Every IntegrityError is taken for that (`Refused`): also the foreign key of a
unit that was deleted since it was found (`Demolish`), after which the date
advances past a cycle without a bill (`unbilled`).
`AddMonths` clamps the day to the length of the month and never restores it: the
property says where that leads, the last day of the shortest month so far.

### WalletSetup

The profile of one resident, the submissions, the accounts Nomba has (external)
and the client's token. A new reference is stored only with the account: when
the answer is lost or lacks details, the account stays behind (`strays`) and the
next submission makes up another reference. A token that has expired is kept
until the process dies; the code says "we should handle token expiration".

### UtilityAmounts

Operators for what is listed of Nomba's plans, how a product is selected and
what amount a payment is begun with. A plan may have no price, or none that can
be read: its product has no range then, and any amount is accepted for it. No
run checks this module; it has no state.

## 3. Runs

| Run | Question | Result |
|---|---|---|
| `wallet_overlapping` | What holds of a wallet however its sessions overlap? One transfer, one utility payment, one deposit, two webhook workers. | passes |
| `wallet_distinct` | What does a transfer keep, and does the resident lose no more than was debited, when sessions of one reference do not overlap? Two transfers, one deposit, two workers. | passes |
| `wallet_serial` | One session at a time: is the wallet the ledger it promises to be, and does everything settled get booked? | passes |
| `wallet_twice` | Does a resident lose no more than the amounts of what was debited, when all sessions may overlap? | violated |
| `wallet_vended` | Was a utility payment shown as failed never vended? | violated |
| `bills_overlapping` | What do bills and wallets keep however the payments of a household overlap? | passes |
| `bills_serial` | What does one payment at a time keep, crashes included? | passes |
| `invites_overlapping` | What do invites keep while a phone and two gates use them at once? | passes |
| `invites_twice` | Does a single-entry code let in one visitor? | violated |
| `residents` | What holds of logins, push, units, codes, PINs, conversations, feed and lists while two requests overlap? | passes |
| `operations` | What holds of live events, recurring bills and wallet setup while processes overlap, fail and die, and does their work get done? | passes |
| `feed_polls` | Can an author delete every post of his own? | violated |

What the violations show:

- `wallet_twice`: the request sends a transfer of 3 from a balance of 4, and
  Nomba settles it. The webhook loads the row: `balance_applied` is not set. The
  request commits its debit and the flag, 4 becomes 1. The webhook's next
  statement loads the user, and it debits what has been debited, 1 becomes -2.
  (When the webhook has loaded the user too before the request commits, both
  write the same 1 and the wallet is debited once in effect.) The flag is a
  check without a lock; `NotOvercharged` compares the balance with the amounts.
- `wallet_vended`: a purchase whose answer is lost is committed as `failed` and
  the resident is invited to try again, while Nomba vends it. No handler asks
  Nomba about it later.
- `invites_twice`: two gates load the invite as active before either commits it
  as used; both let a visitor in.
- `feed_polls`: the delete of a post deletes its poll first, to which the post,
  only flagged, still refers. The foreign key refuses, now and at every retry.

### Bounds

Wallet: amounts 3, 2, 2 and 1 against an opening balance of 4, so that the
balance covers any one movement but not any two, and covers two once the
deposit is credited. One reference of each kind suffices for every pair of
handlers to meet; two transfers in `wallet_distinct` add a lost update between
two requests. Two workers handle a repeated delivery concurrently; deliveries
are unbounded. In `wallet_serial` the second worker is superfluous.

Bills: two members, three payments of 1 to 3, totals of 1 to 3, so that a bill
takes one to three instalments, one payment covers two bills, and a wallet of 3
or 2 runs out. The second service charge has "rent" in its title and the other
bill "service charge", so that both are in two lists. `bills_overlapping` has
one assignment of each type (three overlapping payments on one assignment are
what matters), `bills_serial` has two rents and two service charges, so that
"oldest first" and instalments over several bills occur. Fees of 2 on 3 and 1 on
2 make every split round.

Invites: one single-entry and one group invite, one phone, two gates, a clock
up to 2 and validities up to 2: an invite lapses, is extended, and lapses
again; the list, which compares with two times, can find an invite that lapsed
in between. Entries are counted up to 2, since the properties ask whether there
was more than one. A second phone multiplies the states beyond reach; the
proofs do without the bound.

`residents` and `operations` compose parts that share no state: a behaviour
picks one part (`part`) and takes the steps of that part only, so the states add
up instead of multiplying and one run asks one question of all of them. In
`residents` the users of all parts are one set, and so are the requests, and the
devices, conversations and posts, so that one symmetry covers them. Two requests
are enough for every pair of handlers to meet. Two logins on two devices replace
each other; three units in two estates let a user move and have two units in one
estate; two links ever made tell duplicates and two primaries; a clock of 4 with
a window of 4, a pause of 1 and a limit of 2 makes both limits bite; two posts
are a thread; one message suffices for reading against unsending. What two
requests have met on is bounded by one (`MaxOverlaps`, `MaxCrossed`): a second
meeting is outside of what the properties promise. Lists have four items on
pages of two, so that there is a full, a short and an empty page.

In `operations`, one worker and two listening connections show a restart; two
events have an order. Months of 3, 1 and 3 days and a due day of 2 make the
clamp bite in the second month; two schedulers and one failure meet at every
step. Three references and two submissions leave one account behind and still
succeed.

Deadlock is checked except where the program may stop: in the bill runs, where
all payments end, and in `residents`, `operations` and `feed_polls`, where the
bounds end a behaviour.

### Fairness

`SettledIsBooked` is checked under `FairSpec`: every request ends (httpx gives
up after 30 s, and a dead process has no session left); Nomba repeats a success
webhook until one delivery of it was answered with 200; and a process does not
die at the same point of handling one webhook for ever, which is why the steps
of a success delivery are strongly fair and those of others are not.

`WorkGetsDone` is checked under the fairness of `LiveUpdates` and
`RecurringBilling`: the event loop of a worker runs the callbacks of its
connections (`Dispatch` is weakly fair), and every process runs its job each
hour and gets on with it (`Work` is weakly fair). Nothing is assumed of a
listener that has ended, and jobs fail at most `MaxFailures` times.

## 4. Proofs

For every value of the constants (any number of references, workers, users,
assignments and payments, any amounts), under the named ASSUMEs of the modules:

| Theorem | Says |
|---|---|
| `WalletProofs!WalletTypes` | the type invariant of Wallet |
| `WalletProofs!DepositsAreCreditedOnce` | a deposit is credited at most once |
| `WalletProofs!OnlyReconciliationOverdraws` | a negative balance has a webhook debit behind it |
| `WalletProofs!OnlySettledIsDebited` | without blank answers, no transfer is debited that Nomba has not settled |
| `WalletProofs!AnsweredMeansBooked` | a success webhook answered with 200 has had its effect |
| `WalletProofs!UtilityStatusIsTrue` | a utility payment shows success exactly when its one debit is committed |
| `WalletProofs!TransfersAreDebitedOnce` | unless sessions of one reference overlap, a transfer is debited at most once |
| `WalletProofs!NobodyIsOvercharged` | nor does the resident lose more than the amounts of what was debited, whatever else overlaps |
| `WalletProofs!FailedTransfersAreFree` | also without blank answers, a transfer shown as failed has cost nothing |
| `WalletProofs!SuccessStands` | and one shown as successful stays so |
| `WalletProofs!WalletIsALedger` | one session at a time, Wallet implements `Ledger` |
| `BillPaymentProofs!BillTypes` | the type invariant of BillPayment |
| `BillPaymentProofs!NoBillIsOverpaid` | no assignment is paid beyond its total |
| `BillPaymentProofs!NoWalletIsOverdrawn` | no wallet is overdrawn by bill payments |
| `BillPaymentProofs!DebitsHaveReceipts` | a debit has its receipt |
| `BillPaymentProofs!NoPaymentIsInvented` | what bills show as paid is backed by committed payments, whatever overlaps |
| `BillPaymentProofs!NoDebitIsDoubled` | a wallet loses no more than the payments booked for it, whatever overlaps |
| `BillPaymentProofs!StatusIsRight` | without overlap the status tells what is paid |
| `BillPaymentProofs!RentDateOnlyAdvances` | without overlap the rent date does not move back |
| `BillPaymentProofs!MoneyStaysInTheHousehold` | without overlap, wallets have lost exactly what the bills show as paid |
| `BillPaymentProofs!FeesAreCarried` | without overlap, instalments of what was only paid as a service charge carry exactly the fee of what is paid, and leave the rest to the estate |
| `BillPaymentProofs!BreakdownBalances` | in every mode the resident is asked for what operator and estate receive |
| `BillPaymentProofs!InstalmentIsDivided` | every instalment divides without remainder, and fees telescope |
| `InvitesProofs!InviteTypes` | the type invariant of Invites |
| `InvitesProofs!CodesEnterOnce` | a single-entry code lets in one visitor, unless sessions raced for it |
| `InvitesProofs!ExpiredMeansOver` | expired means over, unless sessions raced for it |
| `InvitesProofs!RevocationStands` | no step undoes a revocation, unless sessions raced for it |
| `InvitesProofs!RevocationCloses` | with one phone and any number of gates, a revoked code is never opened |
| `SocialProofs!PagedListsAreWhole` | reading by page repeats nothing, leaves out nothing, and what was shown is read |
| `BillPaymentProofs!BillsAreListed` | a bill is in the list of its type, and in another only for a keyword |
| `BillPaymentProofs!BuiltTitlesAreListedOnce` | a title made by `build_bill_title` is in one list, if its label has no keyword of another type |
| `BillPaymentProofs!ListedIsPayable` | what a summary lists is what a payment of that list selects |
| `BillPaymentProofs!OpenBillsShowWhatIsLeft` | without overlap, a bill is open exactly as long as an amount is left |
| `BillPaymentProofs!PaidMeansNothingIsLeft` | without overlap, a summary says "paid" exactly when nothing is left of any bill of its list |
| `UtilityAmountsProofs!AmountIsInRange` | what is paid is in the price range and never more than was asked for |
| `UtilityAmountsProofs!PaymentIsPositive` | half a kobo or more never becomes a payment of nothing, nor does anything if the product has a minimum above nothing |
| `UtilityAmountsProofs!ShownPriceIsAccepted` | the price shown is accepted and paid as it stands |
| `UtilityAmountsProofs!NamedPlanCostsItsPrice` | a data plan costs what Nomba quoted, less at most one kobo, or what is asked for if it has no price |
| `UtilityAmountsProofs!ShownCodeIsFound` | the code shown for a data plan without a slug selects a product |
| `AccountProofs!PushesFollowLogins` | a push reaches the device of the current login only; registrations are unique unless requests raced |
| `AccountProofs!LastLoginIsCurrent` | unless requests raced, the last login is the current one and only its own logout ends it |
| `AccountProofs!MembersAreSound` | unless two requests overlapped on a user, he has one primary unit at most, one link per unit, and the estate of every unit he joined |
| `AccountProofs!PinsAreKnown` | unless requests overlapped, the stored PIN is known, on its way or lost in the mail |
| `AccountProofs!CodesStayLimited` | codes of requests that did not overlap keep pause and hourly limit; one no two requests found good is used once |
| `SocialProofs!ChatsStaySound` | unless requests met, one conversation of two, every conversation has somebody in it, nothing read is unsent |
| `SocialProofs!FeedStaysSound` | unless requests met, likes and votes count once and a deleted post is bare |
| `SocialProofs!ResidentsKeepToTheirParts` | the composition `MCResidents` implements the specification of each of its seven parts |
| `SocialProofs!ResidentTypes`, `ResidentsAreSafe` | so all types and all invariants of the parts hold of the composition |
| `OperationsProofs!StreamsStayInOrder` | a stream gets its resident's events, once and in order, and each notice it gets is kept |
| `OperationsProofs!CyclesAreBilled` | one bill per cycle, none left out unless nobody lived there or a unit was deleted meanwhile, due dates as the calendar has them |
| `OperationsProofs!WalletsAreSetUp` | the account that is shown exists; unless submissions overlapped, none is left behind but by a lost answer |
| `OperationsProofs!OperationsKeepToTheirParts` | the composition `MCOperations` implements the specification of each of its three parts, with their fairness |
| `OperationsProofs!OperationTypes`, `OperationsAreSafe` | so all types and all invariants of the parts hold of the composition |

How they go:

- *Deposits.* The invariant says where a credited deposit leaves its workers: a
  row is credited only together with `status = "success"`; a worker that has
  flushed an INSERT is the only one for its reference, and there is no
  committed row then. The unique index on `transactions.reference` is what
  makes it inductive; without it (`KeyIgnored`) TLC finds two credits.
- *Overdrafts.* Nothing about the current balance is inductive, since any
  session may overwrite it. What is: every balance any session *loaded* is
  non-negative while no webhook has debited, and a request that passed its
  check has `snap >= amount`. A stale write is then harmless for this property,
  because it writes what it checked.
- *What a debit stands for.* `OnlyPostsWrite` names the four kinds of steps that
  write the balance; every theorem about debits is a case split on them.
  `ReportsAreTrue` says that a webhook tells what has become of the reference.
- *Transfers.* `Alone` says that unless sessions of one reference overlap, whoever works on a
  reference is the only one, so that the row it has loaded is the stored one
  (`WorkersKnowRows`); `RowsAreTracked` that `balance_applied` then tells whether
  there was a debit.
- *The balance.* `WholeInv` says that the balance every session has *loaded* is
  at least the opening one less what the debited requests asked for. A debit
  writes one amount less than its session has loaded, and adds a reference to the
  debited ones in the same step; that this reference was not one of them yet
  comes from the invariants of transfers and utilities.
- *Refinement.* `Quiet` says that one session is in flight and that the balance
  it has loaded is the stored one. With the invariants of deposits, utilities
  and transfers, every balance write is then a `Book` of a reference that was
  not booked (`PostBooks`), and every other step stutters.
- *Overpayment.* As for overdrafts: a planned session holds, for each
  assignment, a loaded amount and a share that fit into the total.
- *Status, rent date.* Both need the loaded rows to be the stored ones. The
  invariant says that at most one session is in flight and that its loaded rows
  are current. `StatusIsRight` assumes that every total is positive: an
  assignment of total 0 is outstanding and fully paid at once.
- *Invites.* `Fresh` says that an invite that was never raced for is held by one
  session at most, which knows the stored row, and `Holding` what each session
  has checked of its rows. Every commit then writes what it computed, and the
  life cycle is a case split on six kinds of steps (`Kinds`, `Steps`).
  `RevocationCloses` holds although sessions race: an entry to a group invite
  sets the status it has loaded, which is no change and is not written. Were
  every column sent (`FlushedAlways`), it would fail.

- *Lists.* The invariant relates the cursor, the page on its way and what has
  been shown: everything visible above the cursor is shown or came late, and
  everything a loaded page is past is in it. Nothing shown is newer than the
  read mark, because nothing is newer than `newest`.
- *Listings.* `OpenBillsShowWhatIsLeft` follows from three theorems about
  BillPayment: types, no overpayment, and status. `PaidMeansNothingIsLeft` is
  that of all bills of a list; it needs no assumption about titles, since list
  and payment go by the same clauses (`ListedIsPayable`).
- *Utility amounts.* Arithmetic on tenths of a kobo. `ShownPriceIsAccepted`
  needs that a fixed price k cannot be both the naira and the kobo reading of
  one number, and `ShownCodeIsFound` shows by its hypothesis what fails: when
  Nomba gives a plan a slug of its own, the app is shown the plan's name and the
  payment looks for the slug.
- *Logins.* `LoginsAreKnown` ties every login that is held, worked on or
  registered to the device and the account it was made for, so a push target,
  whose login is the current one, is on that device whatever raced. The unique
  registration and the last login need the ghost `raced`: `MeetingsAreRaces`
  says that it notices every meeting, `ClearedIsClear` that what a request has
  cleared stays so until it commits, `ActiveIsFresh` that the login it loaded is
  the stored one.
- *Members.* `TanglesAreNoticed` says that the ghost `tangled` notices every
  pair of requests about one user, so that what a request has loaded of a user
  outside it (`Knows`) is what is stored; a commit then keeps the links of its
  user (`CommitKeepsSound`) and does not touch those of others
  (`CommitKeepsOthers`). Being added by a household never moves an estate, which
  is why the estate is claimed for the units a user joined himself only.
- *PIN and wallet.* Unless requests overlapped, one is under way at most
  (`OneChange`, `OneSubmission`). The PIN it is about to mail is the stored one;
  the profile it loaded is the stored one and has no account. The wallet
  needs on top that a profile is never deleted (`RowsStay`) and that no account
  reference is the mark for none (`ReferencesAreNamed`).

- *Sums.* `SumTheorems` has what the proofs need of `SumFunctionOnSet`: its
  recursive equation, that any member may be taken out first, and what becomes
  of a sum when one value changes or a member comes. The induction theorems of
  the library take an operator, which the provers cannot instantiate; a set of
  sets can be, so `SetInduction` speaks of one, and a smallest counterexample
  exists by the well-founded order of strict subsets.
- *Money under overlap.* As with overdrafts, the stored rows prove nothing, since
  a stale write may put anything there that was read. `BackedInv` says of every
  row that a session *holds* what the properties say of the stored ones: loaded
  amounts are backed, and a loaded balance covers what was spent. Both only get
  easier as payments are booked, so they stay true however old a row gets, and a
  commit books its payment in the same step.
- *Money without overlap.* `SerialInv` makes the loaded rows the stored ones, and
  `PlanIsExact` says that the shares of a plan add up to its amount. A commit then
  moves this amount from one term of the sum to others. For the fees, each
  instalment carries the growth of the covered fee (`InstalmentIsDivided`), and
  the sum telescopes.
- *Codes.* A request that issues by itself has counted, and nothing was issued
  since (`CountsAreCurrent`). `CodesAreSpaced` counts for each code the ones in
  the hour after it, since the limit speaks of any window and a new code falls
  into the windows of old ones.
- *Chats and feed.* `PairsAreOne`, `OneMarks` and `DeletesAreNoticed` say that
  requests about the same pair, mark or post notice each other by what one has
  loaded and the other has written, so what was checked still holds of those that
  did not meet.
- *Streams.* The numbers in a stream's queue are in order and come before all
  that its worker's listener has still to hand out (`QueuesAreBehind`), since
  one task serves a worker at most (`OneTask`).
- *Cycles.* `PastIsKnown` ties a job to the bills it has made: every cycle before
  its date is billed, committed or not, or one of the unbilled. The commit of `Finish`
  makes date and bills visible at once, and a rollback loses both. That the
  dates are those of the calendar is `CyclesAdvance`: clamping month by month is
  the smallest of all lengths so far.
- *Compositions.* A step of one part leaves the variables of the others, so it is
  a step or a stutter of each.

The assumptions are what the code has by its data: amounts are whole kobo, totals
and limits are numbers, a marker such as `NoPost` is none of what it marks. Sums
need the residents, assignments and payments to be finite sets, since a sum over
an infinite one means nothing; how many there are is left open.

What is only model-checked: the liveness properties (`SettledIsBooked`,
`WorkGetsDone`), whose proofs would need ENABLED, with the fairness they rest
on; and the findings, each of which is a counterexample. Every other property
of the runs is a theorem. `ReceiptsExplainDebits` is proved (`DebitsHaveReceipts`) and
in no run.

## 5. Not modelled

See "components" in PROJECT.json for each part and reason. Within the modelled
parts:

- Wallet: a repeated funding webhook that carries another amount; PIN checks (a
  rejected one is `Abandon`).
- BillPayment: assignments of total 0 (a rent of a unit without an amount),
  which stay outstanding and can take no payment; receipts and history pages.
- Accounts: passwords, hashes and the encoding of tokens; the settings that a
  push respects; live activities.
- Membership: household rows of before roles existed (`role` empty).
- Messaging: media and legacy cursors; lists of conversations and of residents.
- Feed: reposts, media, other estates; what a reader is shown of an author.
  Replies to a reply stay when it is deleted, as in the code.
- Paging: the clocks of service and database are taken to agree; a page that
  arrives late is marked as read up to the time of the update, whatever came in
  between, against the comment at dm.py:546. No property promises otherwise.
- LiveUpdates: the heartbeat and the shape of events.
- WalletSetup: the KYC forms, and the check of the phone number.
- Everywhere: notifications and logs that follow the last commit and change
  nothing the properties speak of.

The components that are not modelled at all are wiring, reads, I/O, generated
migrations, and rows that one user creates and lists.

## 6. Plan

Done: Wallet with Ledger; BillPayment with its fees and listings; Invites;
RecurringBilling; Accounts with ResetCodes and TransactionPin; WalletSetup;
Membership; Messaging; Feed; Paging; LiveUpdates; UtilityAmounts.

Left, in this order:

1. Proofs: an abstract specification of a bill, as `Ledger` is of a wallet, and
   the refinement by BillPayment; and the same for the calendar of
   RecurringBilling.
2. Reposts, and deliveries.

Runs are kept few: parts of one kind share a run where they share a question.
