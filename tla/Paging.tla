------------------------------- MODULE Paging -------------------------------
(***************************************************************************)
(* Lists read page by page, newest first: the messages of a conversation   *)
(* (client/routes/dm.py) and the posts of the feed (client/routes/feed.py).*)
(*                                                                         *)
(* Items are numbered in the order of (created_at, id), which is the order *)
(* of the lists.  created_at is the time at which the inserting            *)
(* transaction began, so that an item may appear after a newer one has.    *)
(* The page of a conversation is loaded first and marked as read then; the *)
(* clocks of the service and of the database are taken to agree.           *)
(***************************************************************************)
EXTENDS Integers, FiniteSets

CONSTANTS
    Limit,      \* items on a page
    MaxItem     \* bound on the items ever written

\* limit=0 makes the handlers fail at the last item of an empty page.
ASSUME PagesHoldItems == Limit \in Nat \ {0} /\ MaxItem \in Nat

VARIABLES
    newest,     \* the number of the newest item begun
    writing,    \* items whose transaction is open
    visible,    \* items in the table that are not deleted
    cursor,     \* where the reader's next page starts: below this item
    page,       \* the page that has been loaded for the reader
    lastRead,   \* last_read_at of the reader, as the newest item of the time
    shown,      \* history: what the reader has seen since he opened the list
    late        \* history: items that appeared where he had been already

pagingVars == <<newest, writing, visible, cursor, page, lastRead, shown, late>>

-----------------------------------------------------------------------------
Items == 1..MaxItem
Top == MaxItem + 1
NoPage == [open |-> FALSE, items |-> {}]

PagingTypeOK ==
    /\ newest \in 0..MaxItem /\ lastRead \in 0..MaxItem
    /\ writing \subseteq Items /\ visible \subseteq Items
    /\ cursor \in 0..Top
    /\ page \in [open : BOOLEAN, items : SUBSET Items]
    /\ shown \subseteq Items /\ late \subseteq Items

PagingInit ==
    /\ newest = 0 /\ writing = {} /\ visible = {}
    /\ cursor = Top /\ page = NoPage /\ lastRead = 0
    /\ shown = {} /\ late = {}

-----------------------------------------------------------------------------
\* A page of the items in B is the newest Limit of them, or all.
IsPageOf(S, B) ==
    /\ S \subseteq B
    /\ \A m \in S, k \in B : k > m => k \in S
    /\ Cardinality(S) = Limit \/ (S = B /\ Cardinality(S) < Limit)

Full(S) == Cardinality(S) = Limit

\* A full page hands out its oldest item as the cursor of the next one.
NextCursorNewest(S, c) ==
    IF Full(S) THEN c \in S /\ \A k \in S : k <= c ELSE c = 0
NextCursor(S, c) ==
    IF Full(S) THEN c \in S /\ \A k \in S : c <= k ELSE c = 0

\* Whether the reader, with the page on its way to him, is past item m.
Passed(m) == m >= cursor \/ (page.open /\ (~Full(page.items) \/ \E k \in page.items : k <= m))

\* INSERT, whose row has the time of its transaction, and COMMIT.
Write ==
    /\ newest < MaxItem
    /\ newest' = newest + 1
    /\ writing' = writing \cup {newest'}
    /\ UNCHANGED <<visible, cursor, page, lastRead, shown, late>>

Appear(m) ==
    /\ m \in writing
    /\ writing' = writing \ {m}
    /\ visible' = visible \cup {m}
    /\ late' = IF Passed(m) THEN late \cup {m} ELSE late
    /\ UNCHANGED <<newest, cursor, page, lastRead, shown>>

\* Unsent, deleted, or never committed.
Vanish(m) ==
    /\ m \in visible \cup writing
    /\ visible' = visible \ {m} /\ writing' = writing \ {m}
    /\ UNCHANGED <<newest, cursor, page, lastRead, shown, late>>

\* The list is asked for without a cursor.
OpenList ==
    /\ ~page.open
    /\ cursor' = Top /\ shown' = {} /\ late' = {}
    /\ UNCHANGED <<newest, writing, visible, page, lastRead>>

LoadPage ==
    /\ ~page.open /\ cursor > 0
    /\ \E S \in SUBSET {m \in visible : m < cursor} :
          /\ IsPageOf(S, {m \in visible : m < cursor})
          /\ page' = [open |-> TRUE, items |-> S]
    /\ UNCHANGED <<newest, writing, visible, cursor, lastRead, shown, late>>

\* A page with messages moves the reader's mark to the present; posts have none.
ShowPage ==
    /\ page.open
    /\ \E c \in 0..Top : NextCursor(page.items, c) /\ cursor' = c
    /\ lastRead' = IF page.items # {} THEN newest ELSE lastRead
    /\ shown' = shown \cup page.items
    /\ page' = NoPage
    /\ UNCHANGED <<newest, writing, visible, late>>

\* The mark may be stored and the answer lost.
LosePage ==
    /\ page.open
    /\ page' = NoPage
    /\ lastRead' \in {lastRead, newest}
    /\ UNCHANGED <<newest, writing, visible, cursor, shown, late>>

\* Everything in the conversation is marked as read, whatever has been shown.
MarkAllRead ==
    /\ lastRead' = newest
    /\ UNCHANGED <<newest, writing, visible, cursor, page, shown, late>>

PagingNext ==
    \/ Write \/ OpenList \/ LoadPage \/ ShowPage \/ LosePage \/ MarkAllRead
    \/ \E m \in Items : Appear(m) \/ Vanish(m)

PagingSpec == PagingInit /\ [][PagingNext]_pagingVars

-----------------------------------------------------------------------------
(* Properties.                                                             *)

\* Unread counts of a conversation are of the messages newer than the mark.
Unread == {m \in visible : m > lastRead}

\* However items come and go while somebody scrolls, the next page repeats
\* nothing, whatever he has scrolled past he has seen unless it appeared there
\* only afterwards, and what he has seen is not counted as unread (dm.py:543,
\* 554; feed.py:422).
ListsAreWhole ==
    /\ \A m \in shown : m >= cursor /\ m \notin page.items
    /\ \A m \in visible : m >= cursor => m \in shown \cup late
    /\ shown \cap Unread = {}
=============================================================================
