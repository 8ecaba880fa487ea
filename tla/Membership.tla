----------------------------- MODULE Membership -----------------------------
(***************************************************************************)
(* Who belongs to which estate and unit (client/routes/auth.py join_estate *)
(* and leave_estate, routes/household.py, core/deps.py get_current_unit).  *)
(*                                                                         *)
(* A user has an estate (users.estate_id) and links to units (user_units), *)
(* written by different requests: joining with the code of a unit, being   *)
(* added or removed by its household, leaving, and logging in.  No         *)
(* constraint of the database ties them together.                          *)
(***************************************************************************)
EXTENDS Integers, FiniteSets, UnitOfWork

CONSTANTS
    People,     \* e-mail addresses
    Founders,   \* those that signed up themselves
    Units,      \* units
    Estates,    \* estates
    EstateOf,   \* the estate of the block of each unit
    Links,      \* ids of rows of user_units: a bound on the rows ever made
    Calls,      \* requests the service works on at a time
    NoEstate    \* users.estate_id is NULL

ASSUME MembershipIsWellFormed ==
    /\ Founders \subseteq People
    /\ EstateOf \in [Units -> Estates]
    /\ NoEstate \notin Estates
    /\ "none" \notin People

VARIABLES
    people,    \* users with a row
    estate,    \* users.estate_id
    link,      \* user_units, by id
    call,      \* the requests under way
    fresh,     \* ids of rows not made yet
    joined,    \* history: links made by joining
    tangled    \* history: users that two requests have worked on at once

membershipVars == <<people, estate, link, call, fresh, joined, tangled>>

-----------------------------------------------------------------------------
Roles == {"ADMIN", "SUB_ADMIN", "OTHER"}
Managers == {"ADMIN", "SUB_ADMIN"}

NoLink == [user |-> "none"]
Link == [user : People, unit : Units, primary : BOOLEAN, role : Roles]

Ready == [op |-> "ready"]

\* What a request knows: the user it is about, with the estate that was loaded,
\* the estate it is going to write, the rows it deletes and those it inserts.
Call == [op : {"join", "leave", "add", "create", "remove", "login"}, user : People,
         seen : Estates \cup {NoEstate}, new : Estates \cup {NoEstate},
         drop : SUBSET Links, add : SUBSET Link]

MembershipTypeOK ==
    /\ people \subseteq People
    /\ estate \in [People -> Estates \cup {NoEstate}]
    /\ link \in [Links -> {NoLink} \cup Link]
    /\ call \in [Calls -> {Ready} \cup Call]
    /\ fresh \subseteq Links /\ joined \subseteq Links
    /\ tangled \subseteq People

MembershipInit ==
    /\ people = Founders
    /\ estate = [u \in People |-> NoEstate]
    /\ link = [i \in Links |-> NoLink]
    /\ call = [c \in Calls |-> Ready]
    /\ fresh = Links
    /\ joined = {}
    /\ tangled = {}

LinksOf(u) == {i \in Links : link[i].user = u}
LinksTo(u, t) == {i \in LinksOf(u) : link[i].unit = t}

\* The unit a user acts for: the one named in the header, which must be his,
\* or else his primary one.
CurrentUnits(u) ==
    IF estate[u] = NoEstate THEN {} ELSE {link[i].unit : i \in LinksOf(u)}

\* The request has loaded what it needs and goes on to write.
Open(c, op, u, new, drop, add) ==
    /\ call[c] = Ready
    /\ call' = [call EXCEPT ![c] = [op |-> op, user |-> u, seen |-> estate[u],
                                    new |-> new, drop |-> drop, add |-> add]]
    /\ tangled' = IF \E other \in Calls \ {c} : call[other] # Ready /\ call[other].user = u
                  THEN tangled \cup {u} ELSE tangled
    /\ UNCHANGED <<people, estate, link, fresh, joined>>

-----------------------------------------------------------------------------
\* The first unit is the primary one and makes its user the admin.
JoinedPrimaryAlways(u) == TRUE
JoinedPrimary(u) == LinksOf(u) = {}

JoinLink(u, t) == [user |-> u, unit |-> t, primary |-> JoinedPrimary(u),
                   role |-> IF JoinedPrimary(u) THEN "ADMIN" ELSE "OTHER"]

\* Whoever has an estate cannot join another one.  A link that is there stays
\* as it is.
JoinLoad(c, u, t) ==
    /\ u \in people
    /\ estate[u] \in {NoEstate, EstateOf[t]}
    /\ Open(c, "join", u, EstateOf[t], {},
            IF LinksTo(u, t) = {} THEN {JoinLink(u, t)} ELSE {})

LeaveLoad(c, u) ==
    /\ u \in people
    /\ Open(c, "leave", u, NoEstate, LinksOf(u), {})

\* A login or a refresh gives a user without an estate that of his primary
\* unit, or of some unit when none is primary.
ContextUnits(u) ==
    LET primary == {i \in LinksOf(u) : link[i].primary} IN
    {link[i].unit : i \in IF primary # {} THEN primary ELSE LinksOf(u)}

ContextLoad(c, u) ==
    /\ u \in people
    /\ estate[u] = NoEstate
    /\ \E t \in ContextUnits(u) : Open(c, "login", u, EstateOf[t], {}, {})

-----------------------------------------------------------------------------
\* The household of unit t adds somebody who has an account.  His estate stays.
AddLoad(c, admin, t, u, role) ==
    /\ t \in CurrentUnits(admin)
    /\ \E i \in LinksTo(admin, t) : link[i].role \in Managers
    /\ u \in people
    /\ LinksTo(u, t) = {}
    /\ Open(c, "add", u, estate[u], {},
            {[user |-> u, unit |-> t, primary |-> FALSE, role |-> role]})

\* ... or somebody who has none, and gets one in the estate of the inviter.
CreateLoad(c, admin, t, u, role) ==
    /\ t \in CurrentUnits(admin)
    /\ \E i \in LinksTo(admin, t) : link[i].role \in Managers
    /\ u \notin people
    /\ Open(c, "create", u, estate[admin], {},
            {[user |-> u, unit |-> t, primary |-> TRUE, role |-> role]})

\* An admin removes anybody but himself, a sub-admin anybody but an admin.
MayRemove(role, target) == role = "ADMIN" \/ (role = "SUB_ADMIN" /\ target # "ADMIN")

RemoveLoad(c, admin, t, u) ==
    /\ t \in CurrentUnits(admin)
    /\ u # admin
    /\ \E mine \in LinksTo(admin, t), target \in LinksTo(u, t) :
          /\ MayRemove(link[mine].role, link[target].role)
          /\ Open(c, "remove", u, estate[u], {target}, {})

-----------------------------------------------------------------------------
\* The links after rows have gone and at most one row has come.
Relinked(drop, add, id) ==
    [i \in Links |-> IF i \in id THEN CHOOSE l \in add : TRUE
                     ELSE IF i \in drop THEN NoLink ELSE link[i]]

\* The estate a user has after the commit of call c.
EstateAfter(c) == Flushed(estate[call[c].user], call[c].seen, call[c].new)

\* The commit of any of them.  The account of somebody added meanwhile under
\* the same address makes a creation fail; a row somebody else has deleted is
\* not missed.
Commit(c) ==
    /\ call[c] # Ready
    /\ call[c].op = "create" => call[c].user \notin people
    /\ people' = people \cup {call[c].user}
    /\ estate' = [estate EXCEPT ![call[c].user] = EstateAfter(c)]
    /\ call[c].add # {} => fresh # {}
    /\ LET id == IF call[c].add = {} THEN {} ELSE {CHOOSE i \in fresh : TRUE} IN
          /\ link' = Relinked(call[c].drop, call[c].add, id)
          /\ fresh' = fresh \ id
          /\ joined' = IF call[c].op = "join" THEN joined \cup id ELSE joined
    /\ call' = [call EXCEPT ![c] = Ready]
    /\ UNCHANGED tangled

\* Rejected, or its process dies before the commit.
Drop(c) ==
    /\ call[c] # Ready
    /\ call' = [call EXCEPT ![c] = Ready]
    /\ UNCHANGED <<people, estate, link, fresh, joined, tangled>>

MembershipNext ==
    \E c \in Calls :
        \/ \E u \in People :
              \/ LeaveLoad(c, u) \/ ContextLoad(c, u)
              \/ \E t \in Units :
                    \/ JoinLoad(c, u, t)
                    \/ \E admin \in People :
                          \/ RemoveLoad(c, admin, t, u)
                          \/ \E role \in Roles : AddLoad(c, admin, t, u, role)
                                                 \/ CreateLoad(c, admin, t, u, role)
        \/ Commit(c) \/ Drop(c)

MembershipSpec == MembershipInit /\ [][MembershipNext]_membershipVars

-----------------------------------------------------------------------------
(* Properties.                                                             *)

\* A user has at most one primary unit and at most one link to a unit, and is
\* in the estate of every unit he joined himself, through any sequence of
\* joins, leaves, additions, removals and logins (auth.py:225-251, 281,
\* household.py:103), unless two requests about him overlapped.
LinksAreSound ==
    \A u \in people \ tangled :
        /\ \A i, j \in LinksOf(u) :
              \/ i = j
              \/ link[i].unit # link[j].unit /\ ~(link[i].primary /\ link[j].primary)
        /\ \A i \in LinksOf(u) \cap joined : estate[u] = EstateOf[link[i].unit]
=============================================================================
