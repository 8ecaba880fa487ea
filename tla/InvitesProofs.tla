----------------------------- MODULE InvitesProofs -----------------------------
(***************************************************************************)
(* Proofs about Invites, for any number of invites, phones and gates.      *)
(***************************************************************************)
EXTENDS Invites, TLAPS

\* A commit that finds the row as it loaded it stores what it computed.
LEMMA FlushedFresh ==
    ASSUME NEW x, NEW new
    PROVE  Flushed(x, x, new) = new
  BY DEF Flushed

\* What a session that holds rows may be doing.
Names == {"expire", "verify", "extend", "revoke"}

\* The invariant that all properties follow from: the types, and what a
\* session that holds rows knows of them.
Holding ==
    \A s \in Sessions :
        /\ op[s] \in {"idle", "listing"} => rows[s] = {}
        /\ now[s] <= clock
        /\ \A i \in rows[s] : seen[s][i].status # "none"
        /\ op[s] = "expire" =>
              \A i \in rows[s] : seen[s][i].status = "ACTIVE" /\ seen[s][i].until < now[s]
        /\ op[s] = "verify" => \A i \in rows[s] : seen[s][i].status = "ACTIVE"
        /\ op[s] # "expire" => \A i, j \in rows[s] : i = j
        /\ op[s] \in {"extend", "revoke"} => s \in Residents

\* An invite that was never raced for is held by one session, which knows the
\* stored row.
Fresh ==
    \A i \in Invites \ raced, s \in Sessions :
        i \in rows[s] =>
            /\ seen[s][i].status = status[i]
            /\ seen[s][i].until = until[i]
            /\ \A other \in Sessions : i \in rows[other] => other = s

\* What an entry leaves behind.
Spent ==
    \A i \in Invites \ (Group \cup raced) :
        \/ entries[i] = 0
        \/ entries[i] = 1 /\ status[i] \in {"USED", "REVOKED"}

\* An invite that was revoked exists and is closed.
Closed == \A i \in revoked : status[i] \notin {"none", "ACTIVE"}

-----------------------------------------------------------------------------
\* The columns, the sessions and the histories keep their types.
THEOREM InviteTypes == Spec => []TypeOK
<1>1. Init => TypeOK
  BY InvitesAreBounded DEF Init, TypeOK, Statuses, Row, Blank
<1>2. TypeOK /\ [Next]_vars => TypeOK'
  <2> SUFFICES ASSUME TypeOK, [Next]_vars
               PROVE  TypeOK'
    OBVIOUS
  <2> USE InvitesAreBounded DEF TypeOK
  <2>1. CASE Tick
    BY <2>1 DEF Tick, invites, session, history
  <2>2. ASSUME NEW i \in Invites, Create(i)
        PROVE  TypeOK'
    BY <2>2 DEF Create, session, history, Statuses
  <2> DEFINE Loads(s) == \E name \in Names, I \in SUBSET Invites : Load(s, name, I)
  <2>3. ASSUME NEW s \in Sessions, Loads(s)
        PROVE  TypeOK'
    <3>1. PICK name \in Names, I \in SUBSET Invites : Load(s, name, I)
      BY <2>3
    <3>2. Loaded(I) \in [Invites -> Row]
      BY DEF Loaded, Row, Blank, Statuses
    <3> QED
      BY <3>1, <3>2 DEF Load, invites, Names
  <2>4. ASSUME NEW s \in Sessions, ListStart(s)
        PROVE  TypeOK'
    BY <2>4 DEF ListStart, invites, history
  <2>5. ASSUME NEW s \in Sessions, Close(s)
        PROVE  /\ clock' \in Nat
               /\ op' \in [Sessions -> {"idle", "listing", "expire", "verify", "extend", "revoke"}]
               /\ now' \in [Sessions -> Nat]
               /\ rows' \in [Sessions -> SUBSET Invites]
               /\ seen' \in [Sessions -> [Invites -> Row]]
               /\ raced' \subseteq Invites
    BY <2>5 DEF Close, Blank, Row, Statuses
  <2>6. ASSUME NEW s \in Sessions, NEW new \in Statuses, SetStatus(s, new)
        PROVE  status' \in [Invites -> Statuses]
    BY <2>6 DEF SetStatus, Flushed
  <2>7. ASSUME NEW s \in Sessions, Expire(s)
        PROVE  TypeOK'
    BY <2>5, <2>6, <2>7 DEF Expire, Statuses
  <2>8. ASSUME NEW s \in Sessions, Revoke(s)
        PROVE  TypeOK'
    BY <2>5, <2>6, <2>8 DEF Revoke, Statuses
  <2>9. ASSUME NEW s \in Sessions, Extend(s)
        PROVE  TypeOK'
    <3>1. PICK i \in rows[s], end \in 1..MaxUntil :
             /\ until' = [until EXCEPT ![i] = Flushed(@, seen[s][i].until, end)]
             /\ status' = [status EXCEPT ![i] =
                              Flushed(@, seen[s][i].status, Renewed(seen[s][i].status))]
             /\ revoked' = revoked \ {i}
      BY <2>9 DEF Extend
    <3>2. i \in Invites /\ seen[s][i].status \in Statuses
      BY DEF Row
    <3>3. until' \in [Invites -> Nat] /\ status' \in [Invites -> Statuses]
      BY <3>1, <3>2 DEF Flushed, Renewed, Statuses
    <3> QED
      BY <2>5, <2>9, <3>1, <3>3 DEF Extend
  <2>10. ASSUME NEW s \in Sessions, VerifyLapsed(s)
         PROVE  TypeOK'
    BY <2>5, <2>6, <2>10 DEF VerifyLapsed, Statuses
  <2>11. ASSUME NEW s \in Sessions, VerifyEntry(s)
         PROVE  TypeOK'
    <3>1. PICK i \in rows[s] :
             /\ SetStatus(s, EntryStatus(i))
             /\ entries' = [entries EXCEPT ![i] = IF @ < MaxEntries THEN @ + 1 ELSE @]
      BY <2>11 DEF VerifyEntry
    <3>2. EntryStatus(i) \in Statuses /\ i \in Invites
      BY DEF EntryStatus, Statuses
    <3> QED
      BY <2>5, <2>6, <2>11, <3>1, <3>2 DEF VerifyEntry
  <2>12. ASSUME NEW s \in Sessions, Abandon(s)
         PROVE  TypeOK'
    BY <2>5, <2>12 DEF Abandon, invites
  <2>13. CASE UNCHANGED vars
    BY <2>13 DEF vars, invites, session, history
  <2>14. ASSUME NEW s \in Sessions, Resident(s) \/ Gate(s)
         PROVE  TypeOK'
    <3>1. CASE History(s) \/ List(s)
      BY <2>3, <3>1 DEF History, List, Names
    <3>2. CASE \E i \in Invites : RevokeLoad(s, i) \/ ExtendLoad(s, i) \/ VerifyLoad(s, i)
      BY <2>3, <3>2 DEF RevokeLoad, ExtendLoad, VerifyLoad, Names
    <3> QED
      BY <2>4, <2>7, <2>8, <2>9, <2>10, <2>11, <2>14, <3>1, <3>2 DEF Resident, Gate
  <2> QED
    BY <2>1, <2>2, <2>12, <2>13, <2>14 DEF Next
<1> QED
  BY <1>1, <1>2, PTL DEF Spec

-----------------------------------------------------------------------------
\* A request that loads rows, and one that ends.
Begins(s, name, I) ==
    /\ op[s] \in {"idle", "listing"}
    /\ \A i \in I : status[i] # "none"
    /\ name = "expire" => \A i \in I : Lapsed(i)
    /\ name = "verify" => \A i \in I : status[i] = "ACTIVE"
    /\ name # "expire" => \A i, j \in I : i = j
    /\ name \in {"extend", "revoke"} => s \in Residents
    /\ Load(s, name, I)

Ends(s) ==
    \/ Expire(s) \/ Revoke(s) \/ Extend(s)
    \/ VerifyLapsed(s) \/ VerifyEntry(s) \/ Abandon(s)

\* Every step is one of six kinds.
LEMMA Kinds ==
    ASSUME TypeOK, [Next]_vars
    PROVE  \/ Tick
           \/ \E i \in Invites : Create(i)
           \/ \E s \in Sessions : ListStart(s)
           \/ \E s \in Sessions, name \in Names, I \in SUBSET Invites : Begins(s, name, I)
           \/ \E s \in Sessions : Ends(s)
           \/ UNCHANGED vars
  <1>1. ASSUME NEW s \in Sessions, History(s)
        PROVE  \E name \in Names, I \in SUBSET Invites : Begins(s, name, I)
    <2>1. PICK I \in (SUBSET {i \in Invites : Lapsed(i)}) \ {{}} : Load(s, "expire", I)
      BY <1>1 DEF History
    <2>2. Begins(s, "expire", I)
      BY <1>1, <2>1 DEF History, Begins, Lapsed
    <2> QED BY <2>1, <2>2 DEF Names
  <1>2. ASSUME NEW s \in Sessions, List(s)
        PROVE  \E name \in Names, I \in SUBSET Invites : Begins(s, name, I)
    <2>1. PICK I \in SUBSET {i \in Invites : Lapsed(i)} : Load(s, "expire", I)
      BY <1>2 DEF List
    <2>2. Begins(s, "expire", I)
      BY <1>2, <2>1 DEF List, Begins, Lapsed
    <2> QED BY <2>1, <2>2 DEF Names
  <1>3. ASSUME NEW s \in Sessions, NEW i \in Invites, RevokeLoad(s, i)
        PROVE  Begins(s, "revoke", {i})
    BY <1>3 DEF RevokeLoad, Begins
  <1>4. ASSUME NEW s \in Sessions, NEW i \in Invites, ExtendLoad(s, i)
        PROVE  Begins(s, "extend", {i})
    BY <1>4 DEF ExtendLoad, Begins
  <1>5. ASSUME NEW s \in Sessions, NEW i \in Invites, VerifyLoad(s, i)
        PROVE  Begins(s, "verify", {i})
    BY <1>5 DEF VerifyLoad, Begins
  <1>6. \A i \in Invites : {i} \in SUBSET Invites
    OBVIOUS
  <1>7. ASSUME NEW s \in Sessions, Resident(s) \/ Gate(s)
        PROVE  \/ ListStart(s)
               \/ \E name \in Names, I \in SUBSET Invites : Begins(s, name, I)
               \/ Ends(s)
    <2>1. CASE \E i \in Invites : RevokeLoad(s, i) \/ ExtendLoad(s, i) \/ VerifyLoad(s, i)
      BY <1>3, <1>4, <1>5, <1>6, <2>1 DEF Names
    <2>2. CASE History(s) \/ List(s)
      BY <1>1, <1>2, <2>2
    <2> QED BY <1>7, <2>1, <2>2 DEF Resident, Gate, Ends
  <1>8. ASSUME NEW s \in Sessions, Abandon(s)
        PROVE  Ends(s)
    BY <1>8 DEF Ends
  <1> QED BY <1>7, <1>8 DEF Next

\* A session that ends holds nothing, and disturbs no other session.
LEMMA EndsLetsGo ==
    ASSUME TypeOK, NEW s \in Sessions, Ends(s)
    PROVE  /\ clock' = clock /\ raced' = raced
           /\ op'[s] = "idle" /\ rows'[s] = {} /\ now'[s] = 0
           /\ \A t \in Sessions \ {s} :
                 /\ op'[t] = op[t] /\ rows'[t] = rows[t]
                 /\ now'[t] = now[t] /\ seen'[t] = seen[t]
  <1>1. Close(s)
    BY DEF Ends, Expire, Revoke, Extend, VerifyLapsed, VerifyEntry, Abandon
  <1> QED BY <1>1 DEF Close, TypeOK

\* A session that begins holds what it loads, and disturbs no other session.
LEMMA BeginsLoads ==
    ASSUME TypeOK, NEW s \in Sessions, NEW name \in Names, NEW I \in SUBSET Invites, Begins(s, name, I)
    PROVE  /\ op'[s] = name /\ rows'[s] = I /\ now'[s] = clock
           /\ \A i \in I : seen'[s][i].status = status[i] /\ seen'[s][i].until = until[i]
           /\ \A t \in Sessions \ {s} :
                 /\ op'[t] = op[t] /\ rows'[t] = rows[t]
                 /\ now'[t] = now[t] /\ seen'[t] = seen[t]
  <1>1. seen'[s] = Loaded(I)
    BY DEF Begins, Load, TypeOK
  <1>2. ASSUME NEW i \in I
        PROVE  Loaded(I)[i] = [status |-> status[i], until |-> until[i]]
    BY DEF Loaded
  <1>3. ASSUME NEW i \in I
        PROVE  seen'[s][i].status = status[i] /\ seen'[s][i].until = until[i]
    <2>1. seen'[s][i] = [status |-> status[i], until |-> until[i]]
      BY <1>1, <1>2
    <2> QED BY <2>1
  <1>4. op'[s] = name /\ rows'[s] = I /\ now'[s] = clock
    BY DEF Begins, Load, TypeOK
  <1>5. \A t \in Sessions \ {s} :
           /\ op'[t] = op[t] /\ rows'[t] = rows[t]
           /\ now'[t] = now[t] /\ seen'[t] = seen[t]
    BY DEF Begins, Load, TypeOK
  <1> QED BY <1>3, <1>4, <1>5

\* What sessions know of the rows they hold is never disturbed.
LEMMA HoldingKept ==
    ASSUME TypeOK, Holding, [Next]_vars
    PROVE  Holding'
  <1>1. CASE Tick
    BY <1>1 DEF Tick, Holding, session, TypeOK
  <1>2. CASE UNCHANGED vars \/ \E i \in Invites : Create(i)
    BY <1>2 DEF Create, Holding, session, vars
  <1>3. ASSUME NEW s \in Sessions, ListStart(s)
        PROVE  Holding'
    BY <1>3 DEF ListStart, Holding, TypeOK
  <1>4. ASSUME NEW s \in Sessions, NEW name \in Names, NEW I \in SUBSET Invites, Begins(s, name, I)
        PROVE  Holding'
    <2>1. clock' = clock
      BY <1>4 DEF Begins, Load
    <2>2. clock <= clock
      BY DEF TypeOK
    <2> QED
      BY <1>4, <2>1, <2>2, BeginsLoads DEF Begins, Holding, Lapsed, Names
  <1>5. ASSUME NEW s \in Sessions, Ends(s)
        PROVE  Holding'
    <2>1. clock \in Nat
      BY DEF TypeOK
    <2>2. /\ clock' = clock
          /\ op'[s] = "idle" /\ rows'[s] = {} /\ now'[s] = 0
      BY <1>5, EndsLetsGo
    <2>3. \A t \in Sessions \ {s} :
             /\ op'[t] = op[t] /\ rows'[t] = rows[t]
             /\ now'[t] = now[t] /\ seen'[t] = seen[t]
      BY <1>5, EndsLetsGo
    <2> QED BY <2>1, <2>2, <2>3 DEF Holding
  <1> QED BY <1>1, <1>2, <1>3, <1>4, <1>5, Kinds

\* A session that ends writes the rows it holds only.
LEMMA EndsWritesRows ==
    ASSUME TypeOK, NEW s \in Sessions, Ends(s), NEW i \in Invites \ rows[s]
    PROVE  status'[i] = status[i] /\ until'[i] = until[i] /\ entries'[i] = entries[i]
  <1>1. ASSUME NEW new, SetStatus(s, new)
        PROVE  status'[i] = status[i]
    BY <1>1 DEF SetStatus
  <1>2. CASE Extend(s)
    BY <1>2 DEF Extend, TypeOK
  <1>3. CASE VerifyEntry(s)
    BY <1>1, <1>3 DEF VerifyEntry, TypeOK
  <1>4. CASE Expire(s) \/ Revoke(s) \/ VerifyLapsed(s)
    BY <1>1, <1>4 DEF Expire, Revoke, VerifyLapsed
  <1>5. CASE Abandon(s)
    BY <1>5 DEF Abandon, invites
  <1> QED BY <1>2, <1>3, <1>4, <1>5 DEF Ends

LEMMA FreshKept ==
    ASSUME TypeOK, Holding, Fresh, [Next]_vars
    PROVE  Fresh'
  <1>1. CASE Tick \/ UNCHANGED vars
    BY <1>1 DEF Tick, Fresh, invites, session, history, vars
  <1>2. ASSUME NEW i \in Invites, Create(i)
        PROVE  Fresh'
    <2>1. \A s \in Sessions, j \in Invites \ raced : j \in rows[s] => j # i
      BY <1>2 DEF Create, Fresh, Holding
    <2> QED BY <1>2, <2>1 DEF Create, Fresh, session, history, TypeOK
  <1>3. ASSUME NEW s \in Sessions, ListStart(s)
        PROVE  Fresh'
    BY <1>3 DEF ListStart, Fresh, invites, history
  <1>4. ASSUME NEW s \in Sessions, NEW name \in Names, NEW I \in SUBSET Invites, Begins(s, name, I)
        PROVE  Fresh'
    <2> SUFFICES ASSUME NEW i \in Invites \ raced', NEW t \in Sessions, i \in rows'[t]
                 PROVE  /\ seen'[t][i].status = status[i]
                        /\ seen'[t][i].until = until[i]
                        /\ \A other \in Sessions : i \in rows'[other] => other = t
      BY <1>4 DEF Begins, Load, Fresh, invites
    <2>1. i \notin raced /\ (i \in I => \A other \in Sessions \ {s} : i \notin rows[other])
      BY <1>4 DEF Begins, Load
    <2>2. CASE t = s
      BY <1>4, <2>1, <2>2, BeginsLoads
    <2>3. CASE t # s
      BY <1>4, <2>1, <2>3, BeginsLoads DEF Fresh
    <2> QED BY <2>2, <2>3
  <1>5. ASSUME NEW s \in Sessions, Ends(s)
        PROVE  Fresh'
    <2> SUFFICES ASSUME NEW i \in Invites \ raced, NEW t \in Sessions, i \in rows'[t]
                 PROVE  /\ seen'[t][i].status = status'[i]
                        /\ seen'[t][i].until = until'[i]
                        /\ \A other \in Sessions : i \in rows'[other] => other = t
      BY <1>5, EndsLetsGo DEF Fresh
    <2>1. t # s /\ i \in rows[t]
      BY <1>5, EndsLetsGo
    <2>2. i \notin rows[s]
      BY <2>1 DEF Fresh
    <2>3. status'[i] = status[i] /\ until'[i] = until[i]
      BY <1>5, <2>2, EndsWritesRows
    <2>4. seen'[t] = seen[t] /\ \A other \in Sessions : i \in rows'[other] => i \in rows[other]
      BY <1>5, <2>1, EndsLetsGo
    <2> QED BY <2>1, <2>3, <2>4 DEF Fresh
  <1> QED BY <1>1, <1>2, <1>3, <1>4, <1>5, Kinds

-----------------------------------------------------------------------------
\* What the end of a session makes of an invite that is fresh.
LEMMA EndsWrites ==
    ASSUME TypeOK, Holding, Fresh,
           NEW s \in Sessions, Ends(s), NEW i \in rows[s], i \notin raced
    PROVE  \/ status'[i] = status[i] /\ until'[i] = until[i] /\ entries'[i] = entries[i]
           \/ status'[i] = "REVOKED" /\ entries'[i] = entries[i]
           \/ /\ status[i] = "ACTIVE" /\ status'[i] = "EXPIRED"
              /\ until[i] < clock /\ until'[i] = until[i] /\ entries'[i] = entries[i]
           \/ status'[i] = Renewed(status[i]) /\ entries'[i] = entries[i]
           \/ /\ status[i] = "ACTIVE" /\ status'[i] = EntryStatus(i)
              /\ entries'[i] \in {entries[i], entries[i] + 1}
  <1>0. i \in Invites
    BY DEF TypeOK
  <1>1. seen[s][i].status = status[i] /\ seen[s][i].until = until[i]
    BY <1>0 DEF Fresh
  <1>2. ASSUME NEW new, SetStatus(s, new)
        PROVE  status'[i] = new
    BY <1>0, <1>1, <1>2 DEF SetStatus, Flushed
  <1>3. now[s] \in Nat /\ clock \in Nat /\ until[i] \in Nat /\ now[s] <= clock
    BY <1>0 DEF Holding, TypeOK
  <1>4. CASE Expire(s)
    <2>1. status[i] = "ACTIVE" /\ until[i] < now[s]
      BY <1>1, <1>4 DEF Expire, Holding
    <2> QED BY <1>2, <1>3, <1>4, <2>1 DEF Expire
  <1>5. CASE Revoke(s)
    BY <1>2, <1>5 DEF Revoke
  <1>6. CASE Extend(s)
    <2>1. PICK j \in rows[s] :
             status' = [status EXCEPT ![j] =
                           Flushed(@, seen[s][j].status, Renewed(seen[s][j].status))]
      BY <1>6 DEF Extend
    <2>3. entries' = entries
      BY <1>6 DEF Extend
    <2>4. j = i
      BY <1>6 DEF Extend, Holding
    <2>5. status'[i] = Flushed(status[i], seen[s][i].status, Renewed(seen[s][i].status))
      BY <1>0, <2>1, <2>4 DEF TypeOK
    <2> QED BY <1>1, <2>3, <2>5 DEF Flushed
  <1>7. CASE VerifyLapsed(s)
    <2>1. status[i] = "ACTIVE" /\ until[i] < now[s]
      BY <1>1, <1>7 DEF VerifyLapsed, Holding
    <2>2. status'[i] = "EXPIRED" /\ until' = until /\ entries' = entries
      BY <1>2, <1>7 DEF VerifyLapsed
    <2> QED BY <1>3, <2>1, <2>2
  <1>8. CASE VerifyEntry(s)
    <2>1. PICK j \in rows[s] :
             /\ SetStatus(s, EntryStatus(j))
             /\ entries' = [entries EXCEPT ![j] = IF @ < MaxEntries THEN @ + 1 ELSE @]
      BY <1>8 DEF VerifyEntry
    <2>2. j = i /\ status[i] = "ACTIVE"
      BY <1>1, <1>8 DEF VerifyEntry, Holding
    <2>3. status'[i] = EntryStatus(i)
      BY <1>2, <2>1, <2>2
    <2>4. entries'[i] \in {entries[i], entries[i] + 1}
      BY <1>0, <2>1, <2>2 DEF TypeOK
    <2> QED BY <2>2, <2>3, <2>4
  <1>9. CASE Abandon(s)
    BY <1>9 DEF Abandon, invites
  <1> QED BY <1>4, <1>5, <1>6, <1>7, <1>8, <1>9 DEF Ends

\* Races are not forgotten.
LEMMA RacedGrows ==
    ASSUME TypeOK, [Next]_vars
    PROVE  raced \subseteq raced'
  <1>1. ASSUME NEW s \in Sessions, Ends(s)
        PROVE  raced' = raced
    BY <1>1, EndsLetsGo
  <1> QED BY <1>1, Kinds DEF Tick, Create, ListStart, Begins, Load, history, vars

\* What a step makes of an invite that is fresh.
LEMMA Steps ==
    ASSUME TypeOK, Holding, Fresh, [Next]_vars, NEW i \in Invites \ raced
    PROVE  /\ clock' \in Nat /\ clock' >= clock
           /\ \/ status'[i] = status[i] /\ until'[i] = until[i] /\ entries'[i] = entries[i]
              \/ /\ status[i] = "none" /\ status'[i] = "ACTIVE"
                 /\ entries'[i] = entries[i]
              \/ status'[i] = "REVOKED" /\ entries'[i] = entries[i]
              \/ /\ status[i] = "ACTIVE" /\ status'[i] = "EXPIRED"
                 /\ until[i] < clock /\ until'[i] = until[i] /\ entries'[i] = entries[i]
              \/ status'[i] = Renewed(status[i]) /\ entries'[i] = entries[i]
              \/ /\ status[i] = "ACTIVE" /\ status'[i] = EntryStatus(i)
                 /\ entries'[i] \in {entries[i], entries[i] + 1}
  <1>0. clock \in Nat
    BY DEF TypeOK
  <1>1. CASE Tick \/ UNCHANGED vars
    BY <1>0, <1>1 DEF Tick, invites, history, vars
  <1>2. ASSUME NEW j \in Invites, Create(j)
        PROVE  /\ clock' = clock /\ entries' = entries
               /\ \/ status'[i] = status[i] /\ until'[i] = until[i]
                  \/ status[i] = "none" /\ status'[i] = "ACTIVE"
    <2>1. CASE i = j
      BY <1>2, <2>1 DEF Create, history, TypeOK
    <2>2. CASE i # j
      BY <1>2, <2>2 DEF Create, history, TypeOK
    <2> QED BY <2>1, <2>2
  <1>3. ASSUME NEW s \in Sessions, ListStart(s)
        PROVE  clock' = clock /\ UNCHANGED <<invites, history>>
    BY <1>3 DEF ListStart
  <1>4. ASSUME NEW s \in Sessions, NEW name \in Names, NEW I \in SUBSET Invites, Begins(s, name, I)
        PROVE  clock' = clock /\ UNCHANGED <<invites, entries>>
    BY <1>4 DEF Begins, Load
  <1>5. ASSUME NEW s \in Sessions, Ends(s), i \notin rows[s]
        PROVE  /\ clock' = clock
               /\ status'[i] = status[i] /\ until'[i] = until[i] /\ entries'[i] = entries[i]
    BY <1>5, EndsLetsGo, EndsWritesRows
  <1>6. ASSUME NEW s \in Sessions, Ends(s)
        PROVE  clock' = clock
    BY <1>6, EndsLetsGo
  <1>7. CASE \E j \in Invites : Create(j)
    BY <1>0, <1>2, <1>7
  <1>8. CASE \E s \in Sessions : ListStart(s)
    BY <1>0, <1>3, <1>8 DEF invites, history
  <1>9. CASE \E s \in Sessions, name \in Names, I \in SUBSET Invites : Begins(s, name, I)
    BY <1>0, <1>4, <1>9 DEF invites
  <1>10. CASE \E s \in Sessions : Ends(s)
    <2>1. PICK s \in Sessions : Ends(s)
      BY <1>10
    <2> QED BY <1>0, <1>5, <1>6, <2>1, EndsWrites
  <1> QED BY <1>1, <1>7, <1>8, <1>9, <1>10, Kinds

\* What one session at a time per invite keeps.
Inv == TypeOK /\ Holding /\ Fresh /\ Spent /\ ExpiredIsOver

LEMMA InvInductive == Spec => []Inv
<1>1. Init => Inv
  BY DEF Init, Inv, Holding, Fresh, Spent, ExpiredIsOver, TypeOK, Statuses, Row, Blank
<1>2. Inv /\ TypeOK' /\ [Next]_vars => Inv'
  <2> SUFFICES ASSUME Inv, TypeOK', [Next]_vars
               PROVE  Inv'
    OBVIOUS
  <2> USE DEF Inv
  <2>1. Spent'
    <3> SUFFICES ASSUME NEW i \in Invites \ (Group \cup raced')
                 PROVE  \/ entries'[i] = 0
                        \/ entries'[i] = 1 /\ status'[i] \in {"USED", "REVOKED"}
      BY DEF Spent
    <3>1. i \in Invites \ raced /\ i \notin Group
      BY RacedGrows
    <3>2. \/ entries[i] = 0
          \/ entries[i] = 1 /\ status[i] \in {"USED", "REVOKED"}
      BY <3>1 DEF Spent
    <3> QED BY <3>1, <3>2, Steps DEF Renewed, EntryStatus
  <2>2. ExpiredIsOver'
    <3> SUFFICES ASSUME NEW i \in Invites \ raced', status'[i] = "EXPIRED"
                 PROVE  until'[i] < clock'
      BY DEF ExpiredIsOver
    <3>1. i \in Invites \ raced
      BY RacedGrows
    <3>2. clock \in Nat /\ until[i] \in Nat /\ clock' \in Nat /\ clock' >= clock
      BY <3>1, Steps DEF TypeOK
    <3>3. until'[i] = until[i] /\ until[i] < clock
      BY <3>1, Steps DEF Renewed, EntryStatus, ExpiredIsOver
    <3> QED BY <3>2, <3>3
  <2> QED BY <2>1, <2>2, HoldingKept, FreshKept
<1> QED BY <1>1, <1>2, InviteTypes, PTL DEF Spec

\* A single-entry code that no two sessions held at once lets in one visitor at
\* most (invites.py:478).
THEOREM CodesEnterOnce == Spec => []EntersOnce
<1>1. Inv => EntersOnce
  BY DEF Inv, Spent, EntersOnce
<1> QED BY <1>1, InvInductive, PTL

\* An invite that no two sessions held at once is shown as expired only when its
\* validity is over (invites.py:322, 430, 470).
THEOREM ExpiredMeansOver == Spec => []ExpiredIsOver
<1>1. Inv => ExpiredIsOver
  BY DEF Inv
<1> QED BY <1>1, InvInductive, PTL

\* No later request undoes a revocation, unless it overlapped with another
\* (invites.py:358, 430, 460).
THEOREM RevocationStands == Spec => RevocationIsFinal
<1>1. Inv /\ [Next]_vars =>
         [\A i \in Invites \ raced : status[i] = "REVOKED" => status'[i] = "REVOKED"]_vars
  BY Steps DEF Inv, Renewed
<1> QED BY <1>1, InvInductive, PTL DEF Spec, RevocationIsFinal

-----------------------------------------------------------------------------
\* A session that is going to revoke an invite it loaded as revoked, which it
\* will not write, finds it closed.
StaysClosed ==
    \A s \in Sessions : op[s] = "revoke" =>
        \A i \in rows[s] : seen[s][i].status = "REVOKED" => status[i] \notin {"none", "ACTIVE"}

\* Only an extension opens an invite.
LEMMA EndsKeepsClosed ==
    ASSUME TypeOK, Holding, NEW s \in Sessions, Ends(s), ~ Extend(s),
           NEW i \in Invites, status[i] \notin {"none", "ACTIVE"}
    PROVE  status'[i] \notin {"none", "ACTIVE"}
  <1>1. ASSUME NEW new, SetStatus(s, new),
               new = "ACTIVE" /\ i \in rows[s] => seen[s][i].status = "ACTIVE",
               new # "none"
        PROVE  status'[i] \notin {"none", "ACTIVE"}
    BY <1>1 DEF SetStatus, Flushed, TypeOK
  <1>2. CASE Expire(s) \/ Revoke(s) \/ VerifyLapsed(s)
    BY <1>1, <1>2 DEF Expire, Revoke, VerifyLapsed
  <1>3. CASE VerifyEntry(s)
    <2>1. PICK j \in rows[s] : SetStatus(s, EntryStatus(j))
      BY <1>3 DEF VerifyEntry
    <2>2. i \in rows[s] => seen[s][i].status = "ACTIVE"
      BY <1>3 DEF VerifyEntry, Holding
    <2>3. EntryStatus(j) # "none"
      BY DEF EntryStatus
    <2> QED BY <1>1, <2>1, <2>2, <2>3
  <1>4. CASE Abandon(s)
    BY <1>4 DEF Abandon, invites
  <1> QED BY <1>2, <1>3, <1>4 DEF Ends

\* A revoked invite stays closed until it is extended, for any number of gates
\* and a resident with one phone (invites.py:358, 477).
THEOREM RevocationCloses ==
    ASSUME \A a, b \in Residents : a = b
    PROVE  Spec => []RevokedIsClosed
<1>1. Init => Closed /\ StaysClosed
  BY DEF Init, Closed, StaysClosed
<1>2. Inv /\ Closed /\ StaysClosed /\ [Next]_vars => (Closed /\ StaysClosed)'
  <2> SUFFICES ASSUME TypeOK, Holding, Closed, StaysClosed, [Next]_vars
               PROVE  (Closed /\ StaysClosed)'
    BY DEF Inv
  <2> USE DEF Closed, StaysClosed
  <2>1. CASE Tick \/ UNCHANGED vars
    BY <2>1 DEF Tick, invites, session, history, vars
  <2>2. ASSUME NEW i \in Invites, Create(i)
        PROVE  (Closed /\ StaysClosed)'
    <3>1. \A j \in Invites : status[j] # "none" => status'[j] = status[j]
      BY <2>2 DEF Create, TypeOK
    <3> QED BY <2>2, <3>1 DEF Create, session, history, TypeOK, Holding
  <2>3. ASSUME NEW s \in Sessions, ListStart(s)
        PROVE  (Closed /\ StaysClosed)'
    BY <2>3 DEF ListStart, invites, history, TypeOK
  <2>4. ASSUME NEW s \in Sessions, NEW name \in Names, NEW I \in SUBSET Invites, Begins(s, name, I)
        PROVE  (Closed /\ StaysClosed)'
    <3>1. status' = status /\ revoked' = revoked
      BY <2>4 DEF Begins, Load, invites
    <3> QED BY <2>4, <3>1, BeginsLoads
  <2>5. ASSUME NEW s \in Sessions, Ends(s), ~ Extend(s)
        PROVE  (Closed /\ StaysClosed)'
    <3>1. StaysClosed'
      BY <2>5, EndsKeepsClosed, EndsLetsGo DEF TypeOK
    <3>2. CASE Revoke(s)
      <4>1. revoked' = revoked \cup rows[s] /\ SetStatus(s, "REVOKED")
        BY <3>2 DEF Revoke
      <4>2. ASSUME NEW i \in rows[s]
            PROVE  status'[i] \notin {"none", "ACTIVE"}
        BY <3>2, <4>1 DEF Revoke, SetStatus, Flushed, TypeOK
      <4>3. ASSUME NEW i \in revoked
            PROVE  status'[i] \notin {"none", "ACTIVE"}
        BY <2>5, EndsKeepsClosed DEF TypeOK
      <4> QED BY <3>1, <4>1, <4>2, <4>3
    <3>3. CASE ~ Revoke(s)
      <4>1. revoked' = revoked
        BY <2>5, <3>3 DEF Ends, Expire, VerifyLapsed, VerifyEntry, Abandon
      <4> QED BY <2>5, <3>1, <4>1, EndsKeepsClosed DEF TypeOK
    <3> QED BY <3>2, <3>3
  <2>6. ASSUME NEW s \in Sessions, Extend(s)
        PROVE  (Closed /\ StaysClosed)'
    <3>1. Ends(s) /\ op[s] = "extend"
      BY <2>6 DEF Ends, Extend
    <3>2. \A t \in Sessions : op'[t] # "revoke"
      BY <3>1, EndsLetsGo DEF Holding
    <3>3. PICK i \in rows[s] :
             /\ \A j \in Invites \ {i} : status'[j] = status[j]
             /\ revoked' = revoked \ {i}
      BY <2>6 DEF Extend, TypeOK
    <3> QED BY <3>2, <3>3 DEF TypeOK
  <2> QED BY <2>1, <2>2, <2>3, <2>4, <2>5, <2>6, Kinds
<1>3. Closed => RevokedIsClosed
  BY DEF Closed, RevokedIsClosed
<1> QED BY <1>1, <1>2, <1>3, InvInductive, PTL DEF Spec
=============================================================================
