------------------------------ MODULE Accounts ------------------------------
(***************************************************************************)
(* Accounts, login sessions and push registrations (client/routes/auth.py, *)
(* routes/device_tokens.py, routes/user.py, core/deps.py, core/push.py).   *)
(*                                                                         *)
(* An account holds the id of its one current login, `active'.  Whoever    *)
(* logs in last replaces it; a token of another login is refused, but any  *)
(* token is accepted while it is empty.  A row of device_tokens says which *)
(* login registered a device for push messages.                            *)
(*                                                                         *)
(* A request is a database session that loads the account, may clear push  *)
(* registrations, and commits.  Requests overlap freely; `raced' tells     *)
(* which accounts and devices two requests have worked on at once.         *)
(***************************************************************************)
EXTENDS Integers, Sequences, UnitOfWork

CONSTANTS
    Users,       \* e-mail addresses
    Devices,     \* installations of the app, each with its push token
    Requests,    \* requests the service works on at a time
    MaxLogins    \* bound on the logins of a behaviour

ASSUME AccountsAreBounded == MaxLogins \in Nat /\ Users \cap Devices = {}

Logins == 1..MaxLogins    \* token ids; 0 stands for none

VARIABLES
    registered,  \* users that have a row
    active,      \* users.active_token_id
    leaving,     \* users whose deletion_requested_at is set
    tokens,      \* rows of device_tokens
    held,        \* the login whose tokens each device keeps
    req,         \* the requests under way
    born,        \* history: the device and the account of each login
    latest,      \* history: the login of each account committed last
    signedOut,   \* history: logins whose logout was committed
    raced        \* history: accounts and devices that requests overlapped on

account == <<registered, active, leaving, tokens>>
history == <<born, latest, signedOut>>
accountsVars == <<account, held, req, history, raced>>

-----------------------------------------------------------------------------
Registration == [device : Devices, user : Users, login : 0..MaxLogins]

Idle == [op |-> "idle"]

\* What a request knows: who sent it, the login it is about, the account as it
\* was loaded, and the registrations it has deleted so far.
Request == [op : {"signup", "login", "register", "logout", "delete"},
            device : Devices, user : Users, login : Logins,
            active : 0..MaxLogins, leaving : BOOLEAN,
            push : BOOLEAN, cleared : BOOLEAN, doomed : SUBSET Registration]

AccountsTypeOK ==
    /\ registered \subseteq Users
    /\ active \in [Users -> 0..MaxLogins]
    /\ leaving \subseteq registered
    /\ tokens \subseteq Registration
    /\ held \in [Devices -> 0..MaxLogins]
    /\ req \in [Requests -> {Idle} \cup Request]
    /\ born \in Seq([device : Devices, user : Users]) /\ Len(born) <= MaxLogins
    /\ latest \in [Users -> 0..MaxLogins]
    /\ signedOut \subseteq Logins
    /\ raced \subseteq Users \cup Devices

AccountsInit ==
    /\ registered = {}
    /\ active = [u \in Users |-> 0]
    /\ leaving = {}
    /\ tokens = {}
    /\ held = [d \in Devices |-> 0]
    /\ req = [r \in Requests |-> Idle]
    /\ born = << >>
    /\ latest = [u \in Users |-> 0]
    /\ signedOut = {}
    /\ raced = {}

\* Whoever shares the account or the device of this request races with it.
Overlap(r, d, u) ==
    UNION {{d, u} \cap {req[other].device, req[other].user} :
              other \in {q \in Requests \ {r} : req[q].op # "idle"}}

\* The request has loaded the account and goes on with op.
Start(r, op, d, u, login, push) ==
    /\ req[r].op = "idle"
    /\ req' = [req EXCEPT ![r] =
                  [op |-> op, device |-> d, user |-> u, login |-> login,
                   active |-> active[u], leaving |-> u \in leaving,
                   push |-> push, cleared |-> FALSE, doomed |-> {}]]
    /\ raced' = raced \cup Overlap(r, d, u)
    /\ UNCHANGED <<account, held, latest, signedOut>>

\* A new token id.
NewLogin == Len(born) + 1
Issue(d, u) == NewLogin <= MaxLogins /\ born' = Append(born, [device |-> d, user |-> u])

Finish(r) == req' = [req EXCEPT ![r] = Idle]

\* The answer of a login reaches the device, or is lost.
Answer(r) == held' \in {held, [held EXCEPT ![req[r].device] = req[r].login]}

\* A committed login: from now on its tokens are the ones that are accepted.
Enter(r) ==
    /\ active' = [active EXCEPT ![req[r].user] = req[r].login]
    /\ latest' = [latest EXCEPT ![req[r].user] = req[r].login]
    /\ Answer(r)
    /\ Finish(r)
    /\ UNCHANGED <<born, signedOut, raced>>

-----------------------------------------------------------------------------
SignupLoad(r, d, u) ==
    /\ u \notin registered
    /\ Issue(d, u)
    /\ Start(r, "signup", d, u, NewLogin, FALSE)

\* The e-mail address is unique: the second of two sign-ups fails.
Signup(r) ==
    /\ req[r].op = "signup"
    /\ req[r].user \notin registered
    /\ registered' = registered \cup {req[r].user}
    /\ Enter(r)
    /\ UNCHANGED <<leaving, tokens>>

\* The app may send its push token along; the OAuth2 form never does.
LoginLoad(r, d, u) ==
    /\ u \in registered
    /\ Issue(d, u)
    /\ \E push \in BOOLEAN : Start(r, "login", d, u, NewLogin, push)

\* A login takes back the deletion of the account, in a commit of its own.
CancelDeletion(r) ==
    /\ req[r].op = "login" /\ req[r].leaving
    /\ leaving' = leaving \ {req[r].user}
    /\ req' = [req EXCEPT ![r].leaving = FALSE]
    /\ UNCHANGED <<registered, active, tokens, held, history, raced>>

\* The registrations that make room for the one of device d and account u.
Replaced(d, u) == {t \in tokens : t.device = d \/ t.user = u}

\* The deletes see what is committed.  (One that meets rows another session is
\* deleting waits for it, which only rules out an order of the two commits.)
Clear(r) ==
    /\ req[r].op \in {"login", "register"}
    /\ req[r].push /\ ~req[r].cleared /\ ~req[r].leaving
    /\ req' = [req EXCEPT ![r].doomed = Replaced(req[r].device, req[r].user),
                          ![r].cleared = TRUE]
    /\ UNCHANGED <<account, held, history, raced>>

\* The registration that a request of the given login inserts.
Registered(r, login) ==
    [device |-> req[r].device, user |-> req[r].user, login |-> login]

Login(r) ==
    /\ req[r].op = "login" /\ ~req[r].leaving
    /\ req[r].push = req[r].cleared
    /\ tokens' = IF req[r].push
                 THEN (tokens \ req[r].doomed) \cup {Registered(r, req[r].login)}
                 ELSE tokens
    /\ Enter(r)
    /\ UNCHANGED <<registered, leaving>>

-----------------------------------------------------------------------------
\* A token is good when it is the current login's, or when there is none.
AcceptedAlways(u, login) == TRUE
Accepted(u, login) == active[u] \in {0, login}

\* A device sends a request with the tokens it keeps.
AuthorizedLoad(r, d, op) ==
    /\ held[d] # 0
    /\ LET u == born[held[d]].user IN
          /\ Accepted(u, held[d])
          /\ Start(r, op, d, u, held[d], op = "register")
    /\ UNCHANGED born

\* A registration belongs to the login that was current when it was loaded.
RegisteredLoginNow(r) == active[req[r].user]
RegisteredLogin(r) == req[r].active

RegisterDevice(r) ==
    /\ req[r].op = "register" /\ req[r].cleared
    /\ tokens' = (tokens \ req[r].doomed) \cup {Registered(r, RegisteredLogin(r))}
    /\ Finish(r)
    /\ UNCHANGED <<registered, active, leaving, held, history, raced>>

\* The device forgets its tokens, unless the answer is lost.
Logout(r) ==
    /\ req[r].op = "logout"
    /\ LET u == req[r].user IN
          active' = [active EXCEPT ![u] = Flushed(@, req[r].active, 0)]
    /\ signedOut' = signedOut \cup {req[r].login}
    /\ held' \in {held, [held EXCEPT ![req[r].device] = 0]}
    /\ Finish(r)
    /\ UNCHANGED <<registered, leaving, tokens, born, latest, raced>>

RequestDeletion(r) ==
    /\ req[r].op = "delete"
    /\ leaving' = leaving \cup {req[r].user}
    /\ Finish(r)
    /\ UNCHANGED <<registered, active, tokens, held, history, raced>>

\* The registrations a push for account u goes to.
PushTargets(u) ==
    {t \in tokens : t.user = u /\ t.login = active[u] /\ active[u] # 0}

\* The push service knows the device no more: its registrations go.
Unregister(u) ==
    /\ \E t \in PushTargets(u) : tokens' = {other \in tokens : other.device # t.device}
    /\ UNCHANGED <<registered, active, leaving, held, req, history, raced>>

\* The request is rejected or its process dies: what is not committed is gone.
GiveUp(r) ==
    /\ req[r].op # "idle"
    /\ Finish(r)
    /\ UNCHANGED <<account, held, history, raced>>

\* The tokens of the device have expired, or a refresh was refused.
Expire(d) ==
    /\ held[d] # 0
    /\ held' = [held EXCEPT ![d] = 0]
    /\ UNCHANGED <<account, req, history, raced>>

AccountsNext ==
    \/ \E r \in Requests, d \in Devices :
          \/ \E u \in Users : SignupLoad(r, d, u) \/ LoginLoad(r, d, u)
          \/ \E op \in {"register", "logout", "delete"} : AuthorizedLoad(r, d, op)
    \/ \E r \in Requests :
          \/ Signup(r) \/ CancelDeletion(r) \/ Clear(r) \/ Login(r)
          \/ RegisterDevice(r) \/ Logout(r) \/ RequestDeletion(r) \/ GiveUp(r)
    \/ \E u \in Users : Unregister(u)
    \/ \E d \in Devices : Expire(d)

AccountsSpec == AccountsInit /\ [][AccountsNext]_accountsVars

-----------------------------------------------------------------------------
(* Properties.                                                             *)

\* A device is registered for one account and an account on one device, unless
\* requests about them overlapped: "to prevent notification leaks if device
\* changes hands" and "exactly 1 active token maximum" (auth.py:318, 321).
OneRegistration ==
    \A t1, t2 \in tokens :
        /\ t1.device = t2.device /\ t1.device \notin raced => t1 = t2
        /\ t1.user = t2.user /\ t1.user \notin raced => t1 = t2

\* A push message reaches only the device of the login that is current, however
\* logins, registrations and logouts overlap (push.py:148, device_tokens.py:47),
\* and registrations are unique.
PushFollowsLogin ==
    /\ \A u \in Users : \A t \in PushTargets(u) :
          t.device = born[active[u]].device /\ born[active[u]].user = u
    /\ OneRegistration

\* The current login is the last one that was committed, and only its own
\* logout ends it (auth.py:460, deps.py:36), unless requests overlapped: a
\* logout still under way when its account logs in elsewhere ends the new login.
LoginIsLatest ==
    \A u \in Users \ raced :
        active[u] # latest[u] => active[u] = 0 /\ latest[u] \in signedOut
=============================================================================
