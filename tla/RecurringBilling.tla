-------------------------- MODULE RecurringBilling --------------------------
(***************************************************************************)
(* The bills of one recurring billing setup (client/core/recurring_        *)
(* billing.py, core/billing.py, core/tasks.py).                            *)
(*                                                                         *)
(* Every process of the service runs the job once an hour.  It locks the   *)
(* setups that are due, skipping those that another process has locked,    *)
(* bills each cycle up to now to the units occupied at that moment, and    *)
(* commits the bills together with the next due date.                      *)
(***************************************************************************)
EXTENDS Integers, Sequences, FiniteSets, SequencesExt, FiniteSetsExt

CONSTANTS
    Processes,      \* processes with a scheduler
    Apartments,     \* units of the estate
    MonthLength,    \* days of each month of the year
    Every,          \* months of a cycle
    FirstDay,       \* the first due date is this day of month 0
    MaxMonth,       \* bound on the clock
    MaxFailures,    \* bound on the jobs that fail
    NoProcess       \* nobody holds the lock

Year == Cardinality(DOMAIN MonthLength)

ASSUME CalendarIsSound ==
    /\ Year \in Nat \ {0} /\ MonthLength \in [0..Year - 1 -> Nat \ {0}]
    /\ Every \in Nat \ {0} /\ FirstDay \in 1..MonthLength[0]
    /\ {MaxMonth, MaxFailures} \subseteq Nat
    /\ NoProcess \notin Processes

VARIABLES
    today,          \* the date
    active,         \* is_active and auto_renew, set by the administrators
    nextDue,        \* next_due_date of the setup
    lock,           \* who holds the row of the setup
    job,            \* the job each process runs
    drafts,         \* bills inserted and not committed: <<cycle, units>>
    bills,          \* bills of each cycle: the units assigned to each of them
    occupied,       \* units with status OCCUPIED, set by the administrators
    gone,           \* units the administrators have deleted
    unbilled,       \* history: cycles the job went past without a bill
    failures        \* history: how many jobs have failed

billingVars == <<today, active, nextDue, lock, job, drafts, bills, occupied,
                 gone, unbilled, failures>>

-----------------------------------------------------------------------------
Length(m) == MonthLength[m % Year]
Date(m, d) == [month |-> m, day |-> d]

\* add_months: the day is clamped to the length of the month, and is not
\* restored by the next step.
AddMonths(date, n) ==
    Date(date.month + n, Min({date.day, Length(date.month + n)}))

AdvanceCycleDateTwice(date) == AddMonths(AddMonths(date, Every), Every)
AdvanceCycleDate(date) == AddMonths(date, Every)

NotAfter(a, b) == a.month < b.month \/ (a.month = b.month /\ a.day <= b.day)

Months == 0..MaxMonth + Every
Days == UNION {1..MonthLength[m] : m \in DOMAIN MonthLength}
Dates == [month : Months, day : Days]

FirstDue == Date(0, FirstDay)

\* The job has its own copy of next_due_date, the bills it has inserted, and
\* the units it has found for the cycle it is about to bill.
JobIdle == [step |-> "idle"]
Job == [step : {"look", "insert"}, now : Dates, due : Dates, units : SUBSET Apartments]

BillingTypeOK ==
    /\ today \in Dates
    /\ active \in BOOLEAN
    /\ nextDue \in Dates
    /\ lock \in Processes \cup {NoProcess}
    /\ job \in [Processes -> {JobIdle} \cup Job]
    /\ drafts \subseteq Dates \X SUBSET Apartments
    /\ bills \in [Dates -> Seq(SUBSET Apartments)]
    /\ {occupied, gone} \subseteq SUBSET Apartments
    /\ unbilled \subseteq Dates
    /\ failures \in 0..MaxFailures

BillingInit ==
    /\ today = Date(0, 1)
    /\ active = FALSE
    /\ nextDue = FirstDue
    /\ lock = NoProcess
    /\ job = [p \in Processes |-> JobIdle]
    /\ drafts = {}
    /\ bills = [d \in Dates |-> <<>>]
    /\ occupied = {} /\ gone = {}
    /\ unbilled = {}
    /\ failures = 0

Billed(d) == bills[d] # <<>> \/ \E b \in drafts : b[1] = d

-----------------------------------------------------------------------------
\* Time passes, and the job may not have run for any while.
Tomorrow ==
    /\ today' = IF today.day < Length(today.month) THEN Date(today.month, today.day + 1)
                                                    ELSE Date(today.month + 1, 1)
    /\ today'.month <= MaxMonth
    /\ UNCHANGED <<active, nextDue, lock, job, drafts, bills, occupied, gone, unbilled, failures>>

Administrate ==
    /\ \/ active' = ~active /\ UNCHANGED occupied
       \/ \E u \in Apartments \ gone :
             /\ occupied' = IF u \in occupied THEN occupied \ {u} ELSE occupied \cup {u}
             /\ UNCHANGED active
    /\ UNCHANGED <<today, nextDue, lock, job, drafts, bills, gone, unbilled, failures>>

\* A unit no bill refers to, committed or not, may be deleted.
Demolish(u) ==
    /\ u \notin gone
    /\ \A b \in drafts : u \notin b[2]
    /\ \A d \in Dates : \A i \in DOMAIN bills[d] : u \notin bills[d][i]
    /\ gone' = gone \cup {u}
    /\ occupied' = occupied \ {u}
    /\ UNCHANGED <<today, active, nextDue, lock, job, drafts, bills, unbilled, failures>>

\* SELECT ... FOR UPDATE SKIP LOCKED.
Start(p) ==
    /\ job[p] = JobIdle
    /\ active /\ NotAfter(nextDue, today) /\ lock = NoProcess
    /\ lock' = p
    /\ job' = [job EXCEPT ![p] = [step |-> "look", now |-> today, due |-> nextDue,
                                  units |-> {}]]
    /\ UNCHANGED <<today, active, nextDue, drafts, bills, occupied, gone, unbilled, failures>>

Advance(p) ==
    job' = [job EXCEPT ![p] = [@ EXCEPT !.step = "look", !.units = {},
                                        !.due = AdvanceCycleDate(job[p].due)]]

Due(p) == job[p].step = "look" /\ NotAfter(job[p].due, job[p].now)

\* Only a cycle that has been billed lets the date advance.
SkipAndStay(p) ==
    /\ Due(p)
    /\ Billed(job[p].due) \/ occupied = {}
    /\ IF Billed(job[p].due) THEN Advance(p) ELSE UNCHANGED job
    /\ UNCHANGED <<today, active, nextDue, lock, drafts, bills, occupied, gone, unbilled, failures>>

\* The cycle has a bill already, or there is nobody to bill.
Skip(p) ==
    /\ Due(p)
    /\ Billed(job[p].due) \/ occupied = {}
    /\ unbilled' = IF Billed(job[p].due) THEN unbilled ELSE unbilled \cup {job[p].due}
    /\ Advance(p)
    /\ UNCHANGED <<today, active, nextDue, lock, drafts, bills, occupied, gone, failures>>

Look(p) ==
    /\ Due(p)
    /\ ~Billed(job[p].due) /\ occupied # {}
    /\ job' = [job EXCEPT ![p].step = "insert", ![p].units = occupied]
    /\ UNCHANGED <<today, active, nextDue, lock, drafts, bills, occupied, gone, unbilled, failures>>

\* uq_bills_recurring_setup_cycle: the second bill of a cycle is refused.
ConflictsNever(d) == FALSE
Conflicts(d) == Billed(d)

\* Any IntegrityError is taken for a second bill: also that of a unit which was
\* deleted since it was found, after which the cycle has no bill for anybody.
Refused(p) == Conflicts(job[p].due) \/ job[p].units \cap gone # {}

InsertBill(p) ==
    /\ job[p].step = "insert"
    /\ drafts' = IF Refused(p) THEN drafts
                 ELSE drafts \cup {<<job[p].due, job[p].units>>}
    /\ unbilled' = IF Refused(p) /\ ~Billed(job[p].due)
                   THEN unbilled \cup {job[p].due} ELSE unbilled
    /\ Advance(p)
    /\ UNCHANGED <<today, active, nextDue, lock, bills, occupied, gone, failures>>

\* Bills and next due date become visible together.
Finish(p) ==
    /\ job[p].step = "look" /\ ~NotAfter(job[p].due, job[p].now)
    /\ bills' = [d \in Dates |->
                    bills[d] \o SetToSeq({b[2] : b \in {c \in drafts : c[1] = d}})]
    /\ nextDue' = job[p].due
    /\ drafts' = {}
    /\ lock' = NoProcess
    /\ job' = [job EXCEPT ![p] = JobIdle]
    /\ UNCHANGED <<today, active, occupied, gone, unbilled, failures>>

\* The job raises or its process dies: everything is rolled back.
Fail(p) ==
    /\ job[p] # JobIdle
    /\ failures < MaxFailures /\ failures' = failures + 1
    /\ drafts' = {}
    /\ lock' = NoProcess
    /\ job' = [job EXCEPT ![p] = JobIdle]
    /\ UNCHANGED <<today, active, nextDue, bills, occupied, gone, unbilled>>

\* The administrators' service bills the cycle under way, without the lock.
BillElsewhere(p) ==
    /\ job[p].step = "insert" /\ ~Billed(job[p].due) /\ job[p].units \cap gone = {}
    /\ bills' = [bills EXCEPT ![job[p].due] = Append(@, job[p].units)]
    /\ UNCHANGED <<today, active, nextDue, lock, job, drafts, occupied, gone, unbilled, failures>>

Work(p) == Start(p) \/ Skip(p) \/ Look(p) \/ InsertBill(p) \/ Finish(p)

BillingNext ==
    \/ Tomorrow \/ Administrate
    \/ \E u \in Apartments : Demolish(u)
    \/ \E p \in Processes : Work(p) \/ Fail(p) \/ BillElsewhere(p)

\* The job runs every hour in every process.
BillingFairness == \A p \in Processes : WF_billingVars(Work(p))

BillingSpec == BillingInit /\ [][BillingNext]_billingVars /\ BillingFairness

-----------------------------------------------------------------------------
(* Properties.                                                             *)

\* The cycles that have come so far: the n-th and all before it.
CyclesTo == [n \in Nat |-> Date(n * Every,
                 Min({FirstDay} \cup {Length(k * Every) : k \in 1..n}))]
PastCycles == {CyclesTo[n] : n \in {k \in 0..MaxMonth : k * Every < nextDue.month}}

\* Every cycle before the next due date has exactly one bill, to at least one
\* unit, unless no unit was occupied when the job came to it or one was deleted
\* while it was billed; none after it has one that the job made; and the next due
\* date is on the first due day or on the last day of the shortest month since
\* (recurring_billing.py:151-157, billing.py:87-92), whatever jobs overlapped or
\* failed.
CyclesAreBilledOnce ==
    /\ \A d \in Dates : Len(bills[d]) <= 1 /\ \A i \in DOMAIN bills[d] : bills[d][i] # {}
    /\ \A d \in PastCycles : bills[d] # <<>> \/ d \in unbilled
    /\ nextDue = CyclesTo[nextDue.month \div Every]

\* As long as the setup is active, the job catches up with the date, whatever
\* time the service was away.
CyclesCatchUp == []<>(active => ~NotAfter(nextDue, today))
=============================================================================
