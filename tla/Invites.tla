------------------------------- MODULE Invites -------------------------------
(***************************************************************************)
(* Visitor invites (client/routes/invites.py): the resident creates,       *)
(* extends and revokes them, the gate verifies their codes, and reading    *)
(* them marks those that have lapsed as expired.                           *)
(*                                                                         *)
(* A request is one database session: it loads rows, looks at the clock,   *)
(* and commits what it computed from them.  Sessions overlap freely; the   *)
(* history variable `raced' tells which invites that has happened to.      *)
(***************************************************************************)
EXTENDS Integers, UnitOfWork

CONSTANTS
    Invites,    \* rows of visitor_invites, all of one resident
    Group,      \* those of type GROUP; the others are of type SINGLE
    Residents,  \* sessions of the resident's app
    Gates,      \* sessions of the gate
    MaxClock,   \* bound: the clock stops here
    MaxUntil,   \* bound on valid_until
    MaxEntries  \* bound: entries are counted up to this

Sessions == Residents \cup Gates

ASSUME InvitesAreBounded ==
    /\ Group \subseteq Invites
    /\ Residents \cap Gates = {}
    /\ MaxClock \in Nat /\ MaxUntil \in Nat /\ MaxEntries \in Nat

VARIABLES
    clock,
    status, until,  \* visitor_invites.status ("none": no row), valid_until
    op,             \* what each session is doing,
    now,            \* the time it took,
    rows, seen,     \* the rows it is going to write, as it loaded them
    entries,        \* history: visitors let in with the code
    revoked,        \* history: revoked and not extended since
    raced           \* history: invites that two sessions have held at once

invites == <<status, until>>
session == <<op, now, rows, seen>>
history == <<entries, revoked, raced>>
vars == <<clock, invites, session, history>>

-----------------------------------------------------------------------------
Statuses == {"none", "ACTIVE", "USED", "EXPIRED", "REVOKED"}

Row == [status : Statuses, until : Nat]

TypeOK ==
    /\ clock \in Nat
    /\ status \in [Invites -> Statuses]
    /\ until \in [Invites -> Nat]
    /\ op \in [Sessions -> {"idle", "listing", "expire", "verify", "extend", "revoke"}]
    /\ now \in [Sessions -> Nat]
    /\ rows \in [Sessions -> SUBSET Invites]
    /\ seen \in [Sessions -> [Invites -> Row]]
    /\ entries \in [Invites -> Nat]
    /\ revoked \subseteq Invites
    /\ raced \subseteq Invites

\* What a session has loaded once it has loaded the rows in I.
Blank(i) == [status |-> "none", until |-> 0]
Loaded(I) == [i \in Invites |-> IF i \in I THEN [status |-> status[i], until |-> until[i]]
                                ELSE Blank(i)]

Init ==
    /\ clock = 0
    /\ status = [i \in Invites |-> "none"]
    /\ until = [i \in Invites |-> 0]
    /\ op = [s \in Sessions |-> "idle"]
    /\ now = [s \in Sessions |-> 0]
    /\ rows = [s \in Sessions |-> {}]
    /\ seen = [s \in Sessions |-> [i \in Invites |-> Blank(i)]]
    /\ entries = [i \in Invites |-> 0]
    /\ revoked = {}
    /\ raced = {}

Tick ==
    /\ clock < MaxClock
    /\ clock' = clock + 1
    /\ UNCHANGED <<invites, session, history>>

\* The session has loaded the rows in I, looks at the clock, and goes on to
\* write them.
Load(s, name, I) ==
    /\ op' = [op EXCEPT ![s] = name]
    /\ now' = [now EXCEPT ![s] = clock]
    /\ rows' = [rows EXCEPT ![s] = I]
    /\ seen' = [seen EXCEPT ![s] = Loaded(I)]
    /\ raced' = raced \cup {i \in I : \E other \in Sessions \ {s} : i \in rows[other]}
    /\ UNCHANGED <<clock, invites, entries, revoked>>

\* The session ends.
Close(s) ==
    /\ op' = [op EXCEPT ![s] = "idle"]
    /\ now' = [now EXCEPT ![s] = 0]
    /\ rows' = [rows EXCEPT ![s] = {}]
    /\ seen' = [seen EXCEPT ![s] = [i \in Invites |-> Blank(i)]]
    /\ UNCHANGED <<clock, raced>>

\* The commit sets the status of the session's rows to new.
SetStatus(s, new) ==
    status' = [i \in Invites |-> IF i \in rows[s]
                                 THEN Flushed(status[i], seen[s][i].status, new)
                                 ELSE status[i]]

-----------------------------------------------------------------------------
\* The validity is what the request says; nobody asks whether it is over.
Create(i) ==
    /\ status[i] = "none"
    /\ status' = [status EXCEPT ![i] = "ACTIVE"]
    /\ \E end \in 0..MaxUntil : until' = [until EXCEPT ![i] = end]
    /\ UNCHANGED <<clock, session, history>>

Lapsed(i) == status[i] = "ACTIVE" /\ until[i] < clock

\* The history of some unit, status and page holds some of the lapsed invites.
\* Without any there is nothing to commit.
History(s) ==
    /\ s \in Residents /\ op[s] = "idle"
    /\ \E I \in (SUBSET {i \in Invites : Lapsed(i)}) \ {{}} : Load(s, "expire", I)

\* The list asks for invites that are valid at one time and looks at them at
\* a later one.
ListStart(s) ==
    /\ s \in Residents /\ op[s] = "idle"
    /\ op' = [op EXCEPT ![s] = "listing"]
    /\ now' = [now EXCEPT ![s] = clock]
    /\ UNCHANGED <<clock, invites, rows, seen, history>>

List(s) ==
    /\ op[s] = "listing"
    /\ LET listed == {i \in Invites : Lapsed(i) /\ until[i] > now[s]} IN
       \E I \in (SUBSET listed) \ {{}} : Load(s, "expire", I)

\* Both mark what has lapsed.
Expire(s) ==
    /\ op[s] = "expire"
    /\ SetStatus(s, "EXPIRED")
    /\ Close(s)
    /\ UNCHANGED <<until, entries, revoked>>

\* Revoke and delete do the same, whatever the status.
RevokeLoad(s, i) ==
    /\ s \in Residents /\ op[s] = "idle"
    /\ status[i] # "none"
    /\ Load(s, "revoke", {i})

Revoke(s) ==
    /\ op[s] = "revoke"
    /\ SetStatus(s, "REVOKED")
    /\ revoked' = revoked \cup rows[s]
    /\ Close(s)
    /\ UNCHANGED <<until, entries>>

ExtendLoad(s, i) ==
    /\ s \in Residents /\ op[s] = "idle"
    /\ status[i] # "none"
    /\ Load(s, "extend", {i})

\* The new validity: a time in the future, which some hours after the old one
\* or after now, whichever is later, always is.
MayEnd(s, end) == now[s] < end /\ end <= MaxUntil

\* Only an expired invite is made active again.
RenewedNever(st) == st
RenewedAlways(st) == "ACTIVE"
Renewed(st) == IF st = "EXPIRED" THEN "ACTIVE" ELSE st

Extend(s) ==
    /\ op[s] = "extend"
    /\ \E i \in rows[s], end \in 1..MaxUntil :
          /\ MayEnd(s, end)
          /\ until' = [until EXCEPT ![i] = Flushed(@, seen[s][i].until, end)]
          /\ status' = [status EXCEPT ![i] =
                           Flushed(@, seen[s][i].status, Renewed(seen[s][i].status))]
          /\ revoked' = revoked \ {i}
    /\ Close(s)
    /\ UNCHANGED entries

VerifyLoad(s, i) ==
    /\ s \in Gates /\ op[s] = "idle"
    /\ status[i] = "ACTIVE"
    /\ Load(s, "verify", {i})

\* The code has lapsed: access denied.
VerifyLapsed(s) ==
    /\ op[s] = "verify"
    /\ \E i \in rows[s] : seen[s][i].until < now[s]
    /\ SetStatus(s, "EXPIRED")
    /\ Close(s)
    /\ UNCHANGED <<until, entries, revoked>>

\* What the status of an invite becomes when its visitor enters.
EntryStatusLower(i) == IF i \in Group THEN "ACTIVE" ELSE "used"
EntryStatus(i) == IF i \in Group THEN "ACTIVE" ELSE "USED"

\* The visitor enters; a group invite keeps the status it was loaded with.
VerifyEntry(s) ==
    /\ op[s] = "verify"
    /\ \E i \in rows[s] :
          /\ seen[s][i].until >= now[s]
          /\ SetStatus(s, EntryStatus(i))
          /\ entries' = [entries EXCEPT ![i] = IF @ < MaxEntries THEN @ + 1 ELSE @]
    /\ Close(s)
    /\ UNCHANGED <<until, revoked>>

\* The request is rejected (404, 422, 400), or its process dies.
Abandon(s) ==
    /\ op[s] # "idle"
    /\ Close(s)
    /\ UNCHANGED <<invites, entries, revoked>>

Resident(s) ==
    \/ History(s) \/ ListStart(s) \/ List(s) \/ Expire(s)
    \/ Revoke(s) \/ Extend(s)
    \/ \E i \in Invites : RevokeLoad(s, i) \/ ExtendLoad(s, i)

Gate(s) ==
    \/ \E i \in Invites : VerifyLoad(s, i)
    \/ VerifyLapsed(s) \/ VerifyEntry(s)

Next ==
    \/ Tick
    \/ \E i \in Invites : Create(i)
    \/ \E s \in Sessions : Resident(s) \/ Gate(s) \/ Abandon(s)

Spec == Init /\ [][Next]_vars

-----------------------------------------------------------------------------
(* Properties.                                                             *)

\* A single-entry code lets its visitor in at most once, through any sequence
\* of extensions, revocations and expiries (invites.py:430, 460, 478), unless
\* two sessions held the invite at once.
EntersOnce == \A i \in Invites \ (Group \cup raced) : entries[i] <= 1

\* The same without the exception: the visitor's pass says "Single Entry".
SingleEntryOnce == \A i \in Invites \ Group : entries[i] <= 1

\* Once the resident is told "Invite revoked", the code stays closed until an
\* extension is committed, however many gates are verifying it: a verification
\* under way may overwrite the revocation with USED or EXPIRED, but never opens
\* the code (invites.py:358, 477).  This needs a resident who uses one phone.
RevokedIsClosed == \A i \in revoked : status[i] # "ACTIVE"

\* Revocation is final: neither extension nor expiry nor entry undoes it, again
\* unless sessions overlapped (invites.py:322, 430, 460).
RevocationIsFinal ==
    [][\A i \in Invites \ raced : status[i] = "REVOKED" => status'[i] = "REVOKED"]_vars

\* An invite shown as expired is over: extending an expired one opens it again
\* (invites.py:429-431), and an extended one is not expired.
ExpiredIsOver == \A i \in Invites \ raced : status[i] = "EXPIRED" => until[i] < clock
=============================================================================
