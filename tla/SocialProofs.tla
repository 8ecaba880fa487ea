---------------------------- MODULE SocialProofs ----------------------------
(***************************************************************************)
(* What holds of the conversations, the feed and the lists of residents,   *)
(* for any number of them, of messages, posts and overlapping requests; and*)
(* of all that residents do beside paying.                                 *)
(***************************************************************************)
EXTENDS MCResidents, AccountProofs, SumTheorems

-----------------------------------------------------------------------------
(* Paging.                                                                 *)

\* Nothing is newer than the newest item.
Numbered == \A m \in writing \cup visible \cup shown \cup page.items : m <= newest

\* What the reader has seen is read.
SeenIsRead == lastRead <= newest /\ \A m \in shown : m <= lastRead

\* The page on its way lies between the next cursor and the present one.
PageIsNext ==
    /\ ~page.open => page.items = {}
    /\ \A m \in page.items : m < cursor
    /\ \A m \in shown : m >= cursor

\* What the reader is past is with him, on its way to him, or came late.
PassedIsKnown ==
    /\ \A m \in visible : m >= cursor => m \in shown \cup late
    /\ page.open => \A m \in visible : Passed(m) => m \in shown \cup late \cup page.items

\* The inductive invariant of the lists.
PagingInv == PagingTypeOK /\ Numbered /\ SeenIsRead /\ PageIsNext /\ PassedIsKnown

-----------------------------------------------------------------------------
\* A page that was just loaded has every item of the table that it is past.
LEMMA PageHasPassed ==
    ASSUME NEW V, V \subseteq Items, NEW c \in 0..Top, NEW S,
           IsPageOf(S, {m \in V : m < c}),
           NEW m \in V, m < c,
           ~Full(S) \/ \E k \in S : k <= m
    PROVE  m \in S
<1> DEFINE B == {k \in V : k < c}
<1>1. m \in B  OBVIOUS
<1>2. CASE ~Full(S)  BY <1>1, <1>2 DEF IsPageOf, Full
<1>3. CASE \E k \in S : k <= m
  <2>1. PICK k \in S : k <= m  BY <1>3
  <2>2. k \in Int /\ m \in Int  BY <2>1, PagesHoldItems DEF IsPageOf, Items
  <2>3. k = m \/ m > k  BY <2>1, <2>2
  <2> QED  BY <1>1, <2>1, <2>3 DEF IsPageOf
<1> QED  BY <1>2, <1>3

\* It holds at the start.
LEMMA PagingInvInit == PagingInit => PagingInv
  BY PagesHoldItems DEF PagingInit, PagingInv, PagingTypeOK, Numbered, SeenIsRead, PageIsNext,
     PassedIsKnown, Passed, NoPage, Items, Top

\* Every step keeps it.
LEMMA PagingInvNext == PagingInv /\ [PagingNext]_pagingVars => PagingInv'
<1> SUFFICES ASSUME PagingInv, [PagingNext]_pagingVars
             PROVE  PagingInv'
  OBVIOUS
<1> USE PagesHoldItems
<1>0. /\ newest \in Nat /\ lastRead \in Nat /\ cursor \in Nat
      /\ \A m \in Items : m \in Nat
  BY DEF PagingInv, PagingTypeOK, Items, Top
<1>1. CASE Write
  BY <1>0, <1>1 DEF Write, PagingInv, PagingTypeOK, Numbered, SeenIsRead, PageIsNext,
     PassedIsKnown, Passed, Items
<1>2. ASSUME NEW n \in Items, Appear(n)
      PROVE  PagingInv'
  <2>1. (PagingTypeOK /\ Numbered /\ SeenIsRead /\ PageIsNext)'
    BY <1>2 DEF Appear, PagingInv, PagingTypeOK, Numbered, SeenIsRead, PageIsNext
  <2>2. \A m : Passed(m)' <=> Passed(m)  BY <1>2 DEF Appear, Passed
  <2>3. Passed(n) => n \in late'  BY <1>2 DEF Appear
  <2>4. PassedIsKnown'
    BY <1>2, <2>2, <2>3 DEF Appear, PagingInv, PassedIsKnown, Passed
  <2> QED  BY <2>1, <2>4 DEF PagingInv
<1>3. ASSUME NEW n \in Items, Vanish(n)
      PROVE  PagingInv'
  BY <1>3 DEF Vanish, PagingInv, PagingTypeOK, Numbered, SeenIsRead, PageIsNext,
     PassedIsKnown, Passed
<1>4. CASE OpenList
  BY <1>0, <1>4 DEF OpenList, PagingInv, PagingTypeOK, Numbered, SeenIsRead, PageIsNext,
     PassedIsKnown, Items, Top
<1>5. CASE LoadPage
  <2> DEFINE B == {m \in visible : m < cursor}
  <2>1. PICK S \in SUBSET B : IsPageOf(S, B) /\ page' = [open |-> TRUE, items |-> S]
    BY <1>5 DEF LoadPage
  <2>2. page'.open /\ page'.items = S  BY <2>1
  <2>3. (PagingTypeOK /\ Numbered /\ SeenIsRead /\ PageIsNext)'
    BY <1>5, <2>1, <2>2 DEF LoadPage, PagingInv, PagingTypeOK, Numbered, SeenIsRead, PageIsNext
  <2>4. ASSUME NEW m \in visible, Passed(m)', ~(m >= cursor)
        PROVE  m \in S
    <3>1. ~Full(S) \/ \E k \in S : k <= m  BY <1>5, <2>2, <2>4 DEF LoadPage, Passed
    <3>2. m < cursor  BY <1>0, <2>4 DEF PagingInv, PagingTypeOK
    <3>3. visible \subseteq Items /\ cursor \in 0..Top  BY DEF PagingInv, PagingTypeOK
    <3> QED  BY <2>1, <3>1, <3>2, <3>3, PageHasPassed
  <2>5. PassedIsKnown'
    BY <1>5, <2>2, <2>4 DEF LoadPage, PagingInv, PassedIsKnown
  <2> QED  BY <2>3, <2>5 DEF PagingInv
<1>6. CASE ShowPage
  <2>1. PICK c \in 0..Top : NextCursor(page.items, c) /\ cursor' = c  BY <1>6 DEF ShowPage
  <2>2. page' = NoPage /\ page'.items = {} /\ ~page'.open  BY <1>6 DEF ShowPage, NoPage
  <2>3. lastRead' \in {lastRead, newest} /\ (page.items # {} => lastRead' = newest)
    BY <1>6 DEF ShowPage
  <2>4. (PagingTypeOK /\ Numbered /\ SeenIsRead)'
    BY <1>0, <1>6, <2>1, <2>2, <2>3
       DEF ShowPage, PagingInv, PagingTypeOK, Numbered, SeenIsRead, NoPage
  <2>5. \A m \in shown' : m >= cursor'
    BY <1>0, <1>6, <2>1 DEF ShowPage, NextCursor, PagingInv, PagingTypeOK, PageIsNext
  <2>6. \A m \in visible : m >= cursor' => Passed(m)
    BY <1>6, <2>1 DEF ShowPage, NextCursor, Passed
  <2>7. PageIsNext' /\ PassedIsKnown'
    BY <1>6, <2>2, <2>5, <2>6 DEF ShowPage, PagingInv, PageIsNext, PassedIsKnown
  <2> QED  BY <2>4, <2>7 DEF PagingInv
<1>7. CASE LosePage
  BY <1>0, <1>7 DEF LosePage, PagingInv, PagingTypeOK, Numbered, SeenIsRead, PageIsNext,
     PassedIsKnown, NoPage
<1>8. CASE MarkAllRead
  BY <1>0, <1>8 DEF MarkAllRead, PagingInv, PagingTypeOK, Numbered, SeenIsRead, PageIsNext,
     PassedIsKnown, Passed
<1>9. CASE UNCHANGED pagingVars
  BY <1>9 DEF pagingVars, PagingInv, PagingTypeOK, Numbered, SeenIsRead, PageIsNext,
     PassedIsKnown, Passed
<1> QED
  BY <1>1, <1>2, <1>3, <1>4, <1>5, <1>6, <1>7, <1>8, <1>9 DEF PagingNext

-----------------------------------------------------------------------------
\* A list that is read page by page repeats nothing, leaves out nothing that
\* was there, and does not count as unread what it has shown (dm.py:493,
\* feed.py:390).
THEOREM PagedListsAreWhole == PagingSpec => []ListsAreWhole
<1>1. PagingInv => ListsAreWhole
  <2> SUFFICES ASSUME PagingInv
               PROVE  ListsAreWhole
    OBVIOUS
  <2>1. /\ lastRead \in Nat /\ cursor \in Nat
        /\ \A m \in shown : m \in Nat
    BY PagesHoldItems DEF PagingInv, PagingTypeOK, Items, Top
  <2> QED
    BY <2>1 DEF PagingInv, SeenIsRead, PageIsNext, PassedIsKnown, ListsAreWhole, Unread
<1> QED  BY <1>1, PagingInvInit, PagingInvNext, PTL DEF PagingSpec

-----------------------------------------------------------------------------
(* The inductive invariant of the chats.                                   *)

\* What a request under way is about to write.
Creates(h, pair) ==
    handler[h].op = "create" /\ {handler[h].by} \cup handler[h].with = pair
JoinsOrLeaves(h, c) == handler[h].op \in {"add", "leave"} /\ handler[h].chat = c
Leaves(h, c) == handler[h].op = "leave" /\ handler[h].chat = c
Writes(h, m) == handler[h].op \in {"send", "unsend"} /\ m \in handler[h].messages
Unsends(h, m) == handler[h].op = "unsend" /\ m \in handler[h].messages

\* What a request has loaded is there: a pair, a group or a conversation that
\* has not been made again, messages that were written.
RequestsFit ==
    \A h \in Handlers :
        /\ handler[h].op = "create" => \E v \in Chatters : handler[h].with = {v}
        /\ handler[h].op = "add" => chat[handler[h].chat] \in {"group", "gone"}
        /\ handler[h].op = "leave" => chat[handler[h].chat] # "unused"
        /\ \A m \in Messages : Writes(h, m) => message[m] \in Message

\* A pair that no two requests have worked on at once has one conversation, or
\* one on its way.
PairsAreOne ==
    \A u, v \in Chatters : u # v /\ {u, v} \notin crossed =>
        /\ \A c, d \in PairChatsOf(u, v) : c = d
        /\ \A h \in Handlers : Creates(h, {u, v}) =>
              PairChatsOf(u, v) = {} /\ \A g \in Handlers \ {h} : ~Creates(g, {u, v})

\* A conversation that no two requests have worked on at once has somebody in
\* it, and who leaves it knows who stays.
RowsAreKnown ==
    \A c \in Chats \ crossed :
        /\ Live(c) => Participants(c) # {}
        /\ \A h \in Handlers : JoinsOrLeaves(h, c) => \A g \in Handlers \ {h} : ~JoinsOrLeaves(g, c)
        /\ \A h \in Handlers : Leaves(h, c) => handler[h].with = Remaining(c, handler[h].by)

\* Whoever unsends a message wrote it, and if it has been read since, the
\* reader was seen.
ReadersAreSeen ==
    /\ unsent \subseteq crossed
    /\ \A h \in Handlers, m \in Messages : Unsends(h, m) =>
          message[m].from = handler[h].by /\ (message[m].read => m \in crossed)

\* The inductive invariant of the chats.
MessagingInv ==
    MessagingTypeOK /\ RequestsFit /\ PairsAreOne /\ RowsAreKnown /\ ReadersAreSeen

-----------------------------------------------------------------------------
\* A message is one of three records, and so is a request.
LEMMA MessagingRecords ==
    ASSUME MessagingTypeOK
    PROVE  /\ \A m \in Messages : message[m].state # "unused" => message[m] \in Message
           /\ \A h \in Handlers : handler[h].op # "waiting" => handler[h] \in Handler
           /\ NoMessage \notin Message
BY DEF MessagingTypeOK, Message, NoMessage, Handler, Waiting

\* A request that begins is the one that was loaded; the others stay.
LEMMA HandlerBegins ==
    ASSUME MessagingTypeOK, NEW h \in Handlers, NEW op, NEW u, NEW c, NEW P, NEW M,
           Begin(h, op, u, c, P, M),
           op \in {"create", "add", "leave", "send", "unsend"}, u \in Chatters, c \in Chats,
           P \subseteq Chatters, M \subseteq Messages
    PROVE  /\ handler' \in [Handlers -> {Waiting} \cup Handler]
           /\ \A g \in Handlers \ {h} : handler'[g] = handler[g]
           /\ handler'[h].op = op /\ handler'[h].by = u /\ handler'[h].chat = c
           /\ handler'[h].with = P /\ handler'[h].messages = M
<1> DEFINE new == [op |-> op, by |-> u, chat |-> c, with |-> P, messages |-> M]
<1>1. new \in Handler  BY DEF Handler
<1>2. new.op = op /\ new.by = u /\ new.chat = c /\ new.with = P /\ new.messages = M
  OBVIOUS
<1>3. handler' = [handler EXCEPT ![h] = new]  BY DEF Begin
<1> HIDE DEF new
<1> QED  BY <1>1, <1>2, <1>3 DEF MessagingTypeOK

\* A request that ends leaves the others as they are.
LEMMA HandlerEnds ==
    ASSUME MessagingTypeOK, NEW h \in Handlers, End(h)
    PROVE  /\ handler' \in [Handlers -> {Waiting} \cup Handler]
           /\ \A g \in Handlers \ {h} : handler'[g] = handler[g]
           /\ handler'[h].op = "waiting"
           /\ \A x : \A g \in Handlers : /\ Creates(g, x)' <=> g # h /\ Creates(g, x)
                                         /\ JoinsOrLeaves(g, x)' <=> g # h /\ JoinsOrLeaves(g, x)
                                         /\ Leaves(g, x)' <=> g # h /\ Leaves(g, x)
                                         /\ Writes(g, x)' <=> g # h /\ Writes(g, x)
                                         /\ Unsends(g, x)' <=> g # h /\ Unsends(g, x)
<1>1. /\ handler' \in [Handlers -> {Waiting} \cup Handler]
      /\ \A g \in Handlers \ {h} : handler'[g] = handler[g]
      /\ handler'[h].op = "waiting"
  BY DEF MessagingTypeOK, End, Waiting
<1> QED  BY <1>1 DEF Creates, JoinsOrLeaves, Leaves, Writes, Unsends

\* The pairs stay one when there are fewer of their conversations.
LEMMA PairsStayOne ==
    ASSUME PairsAreOne, crossed \subseteq crossed',
           \A u, v \in Chatters : u # v => PairChatsOf(u, v)' \subseteq PairChatsOf(u, v),
           \A pair : \A g \in Handlers : Creates(g, pair)' => Creates(g, pair)
    PROVE  PairsAreOne'
<1> SUFFICES ASSUME NEW u \in Chatters, NEW v \in Chatters, u # v, {u, v} \notin crossed'
             PROVE  /\ \A c, d \in PairChatsOf(u, v)' : c = d
                    /\ \A h \in Handlers : Creates(h, {u, v})' =>
                          /\ PairChatsOf(u, v)' = {}
                          /\ \A g \in Handlers \ {h} : ~Creates(g, {u, v})'
  BY DEF PairsAreOne
<1>1. /\ \A c, d \in PairChatsOf(u, v) : c = d
      /\ \A h \in Handlers : Creates(h, {u, v}) =>
            PairChatsOf(u, v) = {} /\ \A g \in Handlers \ {h} : ~Creates(g, {u, v})
  BY DEF PairsAreOne
<1> QED  BY <1>1

\* What is known of the rows stays known when no request comes to them.
LEMMA RowsStayKnown ==
    ASSUME RowsAreKnown, UNCHANGED <<chat, rows>>, crossed \subseteq crossed',
           \A c : \A g \in Handlers : JoinsOrLeaves(g, c)' => JoinsOrLeaves(g, c),
           \A c : \A g \in Handlers : Leaves(g, c)' =>
              Leaves(g, c) /\ handler'[g].with = handler[g].with /\ handler'[g].by = handler[g].by
    PROVE  RowsAreKnown'
<1>1. \A c, w : Remaining(c, w)' = Remaining(c, w)  BY DEF Remaining
<1> QED  BY <1>1 DEF RowsAreKnown, Live, Participants

\* It holds at the start.
LEMMA MessagingInvInit == MessagingInit => MessagingInv
<1> SUFFICES ASSUME MessagingInit PROVE MessagingInv
  OBVIOUS
<1>1. MessagingTypeOK
  BY RowsAreBounded DEF MessagingInit, MessagingTypeOK, Kinds
<1>2. /\ \A h \in Handlers : handler[h].op = "waiting"
      /\ \A c \in Chats : chat[c] = "unused"
  BY DEF MessagingInit, Waiting
<1> QED
  BY <1>1, <1>2 DEF MessagingInit, MessagingInv, RequestsFit, PairsAreOne, RowsAreKnown,
     ReadersAreSeen, Creates, JoinsOrLeaves, Leaves, Writes, Unsends, PairChatsOf, Live

-----------------------------------------------------------------------------
\* A pair asks for a conversation.
LEMMA CreatePairLoadKeeps ==
    ASSUME MessagingInv, NEW h \in Handlers, NEW u \in Chatters, NEW v \in Chatters,
           CreatePairLoad(h, u, v)
    PROVE  MessagingInv'
<1>t. MessagingTypeOK  BY DEF MessagingInv
<1>p. PICK k \in Chats : Begin(h, "create", u, k, {v}, {})  BY DEF CreatePairLoad
<1>1. /\ PairChatsOf(u, v) = {}
      /\ UNCHANGED <<chat, rows, message, unsent>>
      /\ \A other \in Handlers \ {h} : Creates(other, {u, v}) => {u, v} \in crossed'
      /\ crossed \subseteq crossed' /\ crossed' \subseteq crossed \cup {{u, v}}
  BY DEF CreatePairLoad, Meet, OthersIn, Creates
<1>2. /\ handler' \in [Handlers -> {Waiting} \cup Handler]
      /\ \A g \in Handlers \ {h} : handler'[g] = handler[g]
      /\ handler'[h].op = "create" /\ handler'[h].by = u /\ handler'[h].with = {v}
  BY <1>t, <1>p, HandlerBegins
<1>3. MessagingTypeOK'
  <2>1. crossed' \subseteq (SUBSET Chatters) \cup Chats \cup Messages
    BY <1>t, <1>1 DEF MessagingTypeOK
  <2> QED  BY <1>t, <1>1, <1>2, <2>1 DEF MessagingTypeOK
<1>4. \A c : \A g \in Handlers : /\ JoinsOrLeaves(g, c)' <=> g # h /\ JoinsOrLeaves(g, c)
                                 /\ Leaves(g, c)' <=> g # h /\ Leaves(g, c)
                                 /\ Writes(g, c)' <=> g # h /\ Writes(g, c)
                                 /\ Unsends(g, c)' <=> g # h /\ Unsends(g, c)
  BY <1>2 DEF JoinsOrLeaves, Leaves, Writes, Unsends
<1>5. \A pair : \A g \in Handlers : Creates(g, pair)' <=> IF g = h THEN pair = {u, v}
                                                             ELSE Creates(g, pair)
  BY <1>2 DEF Creates
<1>6. \A w, z : PairChatsOf(w, z)' = PairChatsOf(w, z)
  BY <1>1 DEF PairChatsOf, Participants
<1>7. RequestsFit'
  BY <1>1, <1>2, <1>4 DEF MessagingInv, RequestsFit
<1>8. PairsAreOne'
  <2> SUFFICES ASSUME NEW w \in Chatters, NEW z \in Chatters, w # z, {w, z} \notin crossed'
               PROVE  /\ \A c, d \in PairChatsOf(w, z) : c = d
                      /\ \A g \in Handlers : Creates(g, {w, z})' =>
                            /\ PairChatsOf(w, z) = {}
                            /\ \A o \in Handlers \ {g} : ~Creates(o, {w, z})'
    BY <1>6 DEF PairsAreOne
  <2>1. /\ \A c, d \in PairChatsOf(w, z) : c = d
        /\ \A g \in Handlers : Creates(g, {w, z}) =>
              PairChatsOf(w, z) = {} /\ \A o \in Handlers \ {g} : ~Creates(o, {w, z})
    BY <1>1 DEF MessagingInv, PairsAreOne
  <2>2. CASE {w, z} = {u, v}
    <3>1. PairChatsOf(w, z) = {}  BY <1>1, <2>2 DEF PairChatsOf
    <3>2. \A o \in Handlers \ {h} : ~Creates(o, {w, z})  BY <1>1, <2>2
    <3> QED  BY <1>5, <2>1, <3>1, <3>2
  <2>3. CASE {w, z} # {u, v}
    <3>1. \A g \in Handlers : Creates(g, {w, z})' <=> g # h /\ Creates(g, {w, z})
      BY <1>5, <2>3
    <3> QED  BY <2>1, <3>1
  <2> QED  BY <2>2, <2>3
<1>9. RowsAreKnown'
  <2>1. \A g \in Handlers \ {h} : handler'[g].with = handler[g].with /\ handler'[g].by = handler[g].by
    BY <1>2
  <2>2. \A c, w : Remaining(c, w)' = Remaining(c, w)  BY <1>1 DEF Remaining
  <2> QED  BY <1>1, <1>4, <2>1, <2>2 DEF MessagingInv, RowsAreKnown, Live, Participants
<1>10. ReadersAreSeen'
  BY <1>1, <1>2, <1>4 DEF MessagingInv, ReadersAreSeen
<1> QED  BY <1>3, <1>7, <1>8, <1>9, <1>10 DEF MessagingInv

\* A pair that no two requests have worked on gets its only conversation.
LEMMA CreatePairKeeps ==
    ASSUME MessagingInv, NEW h \in Handlers, CreatePair(h)
    PROVE  MessagingInv'
<1>t. MessagingTypeOK  BY DEF MessagingInv
<1>p. PICK c \in Chats : /\ chat[c] = "unused"
                         /\ chat' = [chat EXCEPT ![c] = "pair"]
                         /\ rows' = [rows EXCEPT ![c] = RowsFor(handler[h].by, handler[h].with)]
  BY DEF CreatePair
<1>1. handler[h].op = "create" /\ End(h) /\ UNCHANGED <<message, unsent, crossed>>
  BY DEF CreatePair
<1>2. PICK v \in Chatters : handler[h].with = {v}  BY <1>1 DEF MessagingInv, RequestsFit
<1>u. PICK u \in Chatters : handler[h].by = u
  BY <1>t, <1>1, MessagingRecords DEF Handler
<1>3. /\ handler' \in [Handlers -> {Waiting} \cup Handler]
      /\ \A g \in Handlers \ {h} : handler'[g] = handler[g]
      /\ handler'[h].op = "waiting"
      /\ \A x : \A g \in Handlers : /\ Creates(g, x)' <=> g # h /\ Creates(g, x)
                                    /\ JoinsOrLeaves(g, x)' <=> g # h /\ JoinsOrLeaves(g, x)
                                    /\ Leaves(g, x)' <=> g # h /\ Leaves(g, x)
                                    /\ Writes(g, x)' <=> g # h /\ Writes(g, x)
                                    /\ Unsends(g, x)' <=> g # h /\ Unsends(g, x)
  BY <1>t, <1>1, HandlerEnds
<1>4. /\ chat' \in [Chats -> Kinds] /\ chat'[c] = "pair"
      /\ \A d \in Chats \ {c} : chat'[d] = chat[d] /\ rows'[d] = rows[d]
  BY <1>t, <1>p DEF MessagingTypeOK, Kinds
<1>5. /\ rows' \in [Chats -> [Chatters -> 0..MaxRows]]
      /\ \A w \in Chatters : rows'[c][w] > 0 <=> w \in {u, v}
  <2>1. /\ RowsFor(u, {v}) \in [Chatters -> 0..MaxRows]
        /\ \A w \in Chatters : RowsFor(u, {v})[w] > 0 <=> w \in {u, v}
    BY RowsAreBounded DEF RowsFor
  <2>2. rows' = [rows EXCEPT ![c] = RowsFor(u, {v})]  BY <1>p, <1>2, <1>u
  <2>3. rows'[c] = RowsFor(u, {v})  BY <1>t, <2>2 DEF MessagingTypeOK
  <2> HIDE DEF RowsFor
  <2> QED  BY <1>t, <2>1, <2>2, <2>3 DEF MessagingTypeOK
<1>6. MessagingTypeOK'  BY <1>t, <1>1, <1>3, <1>4, <1>5 DEF MessagingTypeOK
<1>7. RequestsFit'
  <2>1. \A g \in Handlers : handler[g].op \in {"add", "leave"} => handler[g].chat \in Chats
    BY <1>t, MessagingRecords DEF Handler
  <2> QED  BY <1>p, <1>1, <1>3, <1>4, <2>1 DEF MessagingInv, RequestsFit
<1>8. PairsAreOne'
  <2> SUFFICES ASSUME NEW w \in Chatters, NEW z \in Chatters, w # z, {w, z} \notin crossed
               PROVE  /\ \A d, e \in PairChatsOf(w, z)' : d = e
                      /\ \A g \in Handlers : Creates(g, {w, z})' =>
                            /\ PairChatsOf(w, z)' = {}
                            /\ \A o \in Handlers \ {g} : ~Creates(o, {w, z})'
    BY <1>1 DEF PairsAreOne
  <2>1. /\ \A d, e \in PairChatsOf(w, z) : d = e
        /\ \A g \in Handlers : Creates(g, {w, z}) =>
              PairChatsOf(w, z) = {} /\ \A o \in Handlers \ {g} : ~Creates(o, {w, z})
    BY DEF MessagingInv, PairsAreOne
  <2>2. /\ \A d \in Chats \ {c} : d \in PairChatsOf(w, z)' <=> d \in PairChatsOf(w, z)
        /\ c \in PairChatsOf(w, z)' <=> {w, z} \subseteq {u, v}
        /\ PairChatsOf(w, z)' \subseteq Chats
    BY <1>4, <1>5 DEF PairChatsOf, Participants
  <2>3. CASE {w, z} = {u, v}
    <3>1. Creates(h, {w, z})  BY <1>1, <1>2, <1>u, <2>3 DEF Creates
    <3> QED  BY <1>3, <2>1, <2>2, <3>1
  <2>4. CASE {w, z} # {u, v}
    <3>1. PairChatsOf(w, z)' \subseteq PairChatsOf(w, z)
      <4>1. ~({w, z} \subseteq {u, v})  BY <2>4
      <4> QED  BY <2>2, <4>1
    <3> QED  BY <1>3, <2>1, <3>1
  <2> QED  BY <2>3, <2>4
<1>9. RowsAreKnown'
  <2>1. \A g \in Handlers : ~Leaves(g, c)
    BY <1>p DEF Leaves, MessagingInv, RequestsFit
  <2>2. Participants(c)' # {}  BY <1>5 DEF Participants
  <2>3. \A d \in Chats \ {c} : /\ Participants(d)' = Participants(d) /\ (Live(d)' <=> Live(d))
                               /\ \A w : Remaining(d, w)' = Remaining(d, w)
    BY <1>4 DEF Participants, Live, Remaining
  <2> QED  BY <1>1, <1>3, <2>1, <2>2, <2>3 DEF MessagingInv, RowsAreKnown
<1>10. ReadersAreSeen'  BY <1>1, <1>3 DEF MessagingInv, ReadersAreSeen
<1> QED  BY <1>6, <1>7, <1>8, <1>9, <1>10 DEF MessagingInv

\* A group starts with somebody in it.
LEMMA CreateGroupKeeps ==
    ASSUME MessagingInv, NEW u \in Chatters, NEW P \in SUBSET Chatters, CreateGroup(u, P)
    PROVE  MessagingInv'
<1>t. MessagingTypeOK  BY DEF MessagingInv
<1>p. PICK c \in Chats : /\ chat[c] = "unused"
                         /\ chat' = [chat EXCEPT ![c] = "group"]
                         /\ rows' = [rows EXCEPT ![c] = RowsFor(u, P)]
  BY DEF CreateGroup
<1>1. UNCHANGED <<message, handler, unsent, crossed>>  BY DEF CreateGroup
<1>2. /\ chat' \in [Chats -> Kinds] /\ chat'[c] = "group"
      /\ \A d \in Chats \ {c} : chat'[d] = chat[d] /\ rows'[d] = rows[d]
  BY <1>t, <1>p DEF MessagingTypeOK, Kinds
<1>3. /\ rows' \in [Chats -> [Chatters -> 0..MaxRows]]
      /\ rows'[c][u] > 0
  <2>1. RowsFor(u, P) \in [Chatters -> 0..MaxRows] /\ RowsFor(u, P)[u] > 0
    BY RowsAreBounded DEF RowsFor
  <2>2. rows'[c] = RowsFor(u, P)  BY <1>t, <1>p DEF MessagingTypeOK
  <2> HIDE DEF RowsFor
  <2> QED  BY <1>t, <1>p, <2>1, <2>2 DEF MessagingTypeOK
<1>4. MessagingTypeOK'  BY <1>t, <1>1, <1>2, <1>3 DEF MessagingTypeOK
<1>5. \A x : \A g \in Handlers : /\ Creates(g, x)' <=> Creates(g, x)
                                 /\ JoinsOrLeaves(g, x)' <=> JoinsOrLeaves(g, x)
                                 /\ Leaves(g, x)' <=> Leaves(g, x)
                                 /\ Writes(g, x)' <=> Writes(g, x)
                                 /\ Unsends(g, x)' <=> Unsends(g, x)
  BY <1>1 DEF Creates, JoinsOrLeaves, Leaves, Writes, Unsends
<1>6. RequestsFit'
  <2>1. \A g \in Handlers : handler[g].op \in {"add", "leave"} => handler[g].chat \in Chats
    BY <1>t, MessagingRecords DEF Handler
  <2> QED  BY <1>p, <1>1, <1>2, <1>5, <2>1 DEF MessagingInv, RequestsFit
<1>7. PairsAreOne'
  <2>1. \A w, z : PairChatsOf(w, z)' \subseteq PairChatsOf(w, z)
    BY <1>2 DEF PairChatsOf, Participants
  <2> QED  BY <1>1, <1>5, <2>1, PairsStayOne DEF MessagingInv
<1>8. RowsAreKnown'
  <2>1. \A g \in Handlers : ~Leaves(g, c)
    BY <1>p DEF Leaves, MessagingInv, RequestsFit
  <2>2. Participants(c)' # {}  BY <1>3 DEF Participants
  <2>3. \A d \in Chats \ {c} : /\ Participants(d)' = Participants(d) /\ (Live(d)' <=> Live(d))
                               /\ \A w : Remaining(d, w)' = Remaining(d, w)
    BY <1>2 DEF Participants, Live, Remaining
  <2> QED  BY <1>1, <1>5, <2>1, <2>2, <2>3 DEF MessagingInv, RowsAreKnown
<1>9. ReadersAreSeen'  BY <1>1, <1>5 DEF MessagingInv, ReadersAreSeen
<1> QED  BY <1>4, <1>6, <1>7, <1>8, <1>9 DEF MessagingInv

\* A request that is not one for a pair begins.
LEMMA LoadKeepsPairs ==
    ASSUME MessagingInv, NEW h \in Handlers, handler'[h].op # "create",
           \A g \in Handlers \ {h} : handler'[g] = handler[g],
           crossed \subseteq crossed', UNCHANGED <<chat, rows>>
    PROVE  PairsAreOne'
<1>1. \A u, v : PairChatsOf(u, v)' = PairChatsOf(u, v)  BY DEF PairChatsOf, Participants
<1>2. \A pair : \A g \in Handlers : Creates(g, pair)' => Creates(g, pair)  BY DEF Creates
<1> QED  BY <1>1, <1>2, PairsStayOne DEF MessagingInv

\* A participant asks to add residents to the group.
LEMMA AddToGroupLoadKeeps ==
    ASSUME MessagingInv, NEW h \in Handlers, NEW u \in Chatters, NEW c \in Chats,
           NEW P \in SUBSET Chatters, AddToGroupLoad(h, u, c, P)
    PROVE  MessagingInv'
<1>t. MessagingTypeOK  BY DEF MessagingInv
<1>1. /\ chat[c] = "group" /\ UNCHANGED <<chat, rows, message, unsent>>
      /\ Begin(h, "add", u, c, P \ Participants(c), {})
      /\ crossed \subseteq crossed' /\ crossed' \subseteq crossed \cup {c}
      /\ \A g \in Handlers \ {h} : JoinsOrLeaves(g, c) => c \in crossed'
  BY DEF AddToGroupLoad, Meet, OthersIn, JoinsOrLeaves
<1>2. /\ handler' \in [Handlers -> {Waiting} \cup Handler]
      /\ \A g \in Handlers \ {h} : handler'[g] = handler[g]
      /\ handler'[h].op = "add" /\ handler'[h].chat = c
  BY <1>t, <1>1, HandlerBegins
<1>3. MessagingTypeOK'
  <2>1. crossed' \subseteq (SUBSET Chatters) \cup Chats \cup Messages
    BY <1>t, <1>1 DEF MessagingTypeOK
  <2> QED  BY <1>t, <1>1, <1>2, <2>1 DEF MessagingTypeOK
<1>4. RequestsFit'  BY <1>1, <1>2 DEF MessagingInv, RequestsFit, Writes
<1>5. PairsAreOne'  BY <1>1, <1>2, LoadKeepsPairs
<1>6. RowsAreKnown'
  <2>1. \A d : \A g \in Handlers : Leaves(g, d)' => Leaves(g, d)
              /\ handler'[g].with = handler[g].with /\ handler'[g].by = handler[g].by
    BY <1>2 DEF Leaves
  <2>2. \A g \in Handlers, d \in Chats : JoinsOrLeaves(g, d)' => (g # h /\ JoinsOrLeaves(g, d)) \/ (g = h /\ d = c)
    BY <1>2 DEF JoinsOrLeaves
  <2>3. \A d, w : Remaining(d, w)' = Remaining(d, w)  BY <1>1 DEF Remaining
  <2>4. \A d \in Chats \ crossed', g \in Handlers :
          JoinsOrLeaves(g, d)' => \A o \in Handlers \ {g} : ~JoinsOrLeaves(o, d)'
    BY <1>1, <2>2 DEF MessagingInv, RowsAreKnown
  <2> QED  BY <1>1, <2>1, <2>3, <2>4 DEF MessagingInv, RowsAreKnown, Live, Participants
<1>7. ReadersAreSeen'  BY <1>1, <1>2 DEF MessagingInv, ReadersAreSeen, Unsends
<1> QED  BY <1>3, <1>4, <1>5, <1>6, <1>7 DEF MessagingInv

\* A participant asks to leave: he has loaded who stays.
LEMMA LeaveChatLoadKeeps ==
    ASSUME MessagingInv, NEW h \in Handlers, NEW u \in Chatters, NEW c \in Chats,
           LeaveChatLoad(h, u, c)
    PROVE  MessagingInv'
<1>t. MessagingTypeOK  BY DEF MessagingInv
<1>1. /\ Live(c) /\ UNCHANGED <<chat, rows, message, unsent>>
      /\ Begin(h, "leave", u, c, Remaining(c, u), Sent(c))
      /\ crossed \subseteq crossed' /\ crossed' \subseteq crossed \cup {c}
      /\ \A g \in Handlers \ {h} : JoinsOrLeaves(g, c) => c \in crossed'
  BY DEF LeaveChatLoad, Meet, OthersIn, JoinsOrLeaves
<1>2. /\ handler' \in [Handlers -> {Waiting} \cup Handler]
      /\ \A g \in Handlers \ {h} : handler'[g] = handler[g]
      /\ handler'[h].op = "leave" /\ handler'[h].chat = c /\ handler'[h].by = u
      /\ handler'[h].with = Remaining(c, u)
  <2>1. Remaining(c, u) \subseteq Chatters /\ Sent(c) \subseteq Messages
    BY DEF Remaining, Sent
  <2> QED  BY <1>t, <1>1, <2>1, HandlerBegins
<1>3. MessagingTypeOK'
  <2>1. crossed' \subseteq (SUBSET Chatters) \cup Chats \cup Messages
    BY <1>t, <1>1 DEF MessagingTypeOK
  <2> QED  BY <1>t, <1>1, <1>2, <2>1 DEF MessagingTypeOK
<1>4. RequestsFit'  BY <1>1, <1>2 DEF MessagingInv, RequestsFit, Writes, Live
<1>5. PairsAreOne'  BY <1>1, <1>2, LoadKeepsPairs
<1>6. RowsAreKnown'
  <2>1. \A d : \A g \in Handlers : Leaves(g, d)' =>
           \/ /\ g # h /\ Leaves(g, d)
              /\ handler'[g].with = handler[g].with /\ handler'[g].by = handler[g].by
           \/ g = h /\ d = c
    BY <1>2 DEF Leaves
  <2>2. \A g \in Handlers, d \in Chats : JoinsOrLeaves(g, d)' => (g # h /\ JoinsOrLeaves(g, d)) \/ (g = h /\ d = c)
    BY <1>2 DEF JoinsOrLeaves
  <2>3. \A d, w : Remaining(d, w)' = Remaining(d, w)  BY <1>1 DEF Remaining
  <2>4. \A d \in Chats \ crossed', g \in Handlers :
          JoinsOrLeaves(g, d)' => \A o \in Handlers \ {g} : ~JoinsOrLeaves(o, d)'
    BY <1>1, <2>2 DEF MessagingInv, RowsAreKnown
  <2>5. \A d \in Chats \ crossed', g \in Handlers :
          Leaves(g, d)' => handler'[g].with = Remaining(d, handler'[g].by)
    BY <1>1, <1>2, <2>1 DEF MessagingInv, RowsAreKnown
  <2> QED  BY <1>1, <2>3, <2>4, <2>5 DEF MessagingInv, RowsAreKnown, Live, Participants
<1>7. ReadersAreSeen'  BY <1>1, <1>2 DEF MessagingInv, ReadersAreSeen, Unsends
<1> QED  BY <1>3, <1>4, <1>5, <1>6, <1>7 DEF MessagingInv

\* Residents come to a group that is still there.
LEMMA AddKeeps ==
    ASSUME MessagingInv, NEW h \in Handlers, Add(h)
    PROVE  MessagingInv'
<1>t. MessagingTypeOK  BY DEF MessagingInv
<1>a. handler[h].op = "add" /\ Live(handler[h].chat) /\ End(h)
      /\ UNCHANGED <<chat, message, unsent, crossed>>
  BY DEF Add
<1>c. PICK c \in Chats : c = handler[h].chat
  BY <1>t, <1>a, MessagingRecords DEF Handler
<1>1. /\ Live(c) /\ chat[c] = "group" /\ JoinsOrLeaves(h, c)
  BY <1>a, <1>c DEF MessagingInv, RequestsFit, Live, JoinsOrLeaves
<1>2. /\ handler' \in [Handlers -> {Waiting} \cup Handler]
      /\ \A g \in Handlers \ {h} : handler'[g] = handler[g]
      /\ handler'[h].op = "waiting"
      /\ \A x : \A g \in Handlers : /\ Creates(g, x)' <=> g # h /\ Creates(g, x)
                                    /\ JoinsOrLeaves(g, x)' <=> g # h /\ JoinsOrLeaves(g, x)
                                    /\ Leaves(g, x)' <=> g # h /\ Leaves(g, x)
                                    /\ Writes(g, x)' <=> g # h /\ Writes(g, x)
                                    /\ Unsends(g, x)' <=> g # h /\ Unsends(g, x)
  BY <1>t, <1>a, HandlerEnds
<1>3. /\ rows' \in [Chats -> [Chatters -> 0..MaxRows]]
      /\ \A d \in Chats \ {c} : rows'[d] = rows[d]
      /\ \A w \in Chatters : rows'[c][w] >= rows[c][w]
  <2> DEFINE new == [w \in Chatters |-> IF w \in handler[h].with /\ rows[c][w] < MaxRows
                                        THEN rows[c][w] + 1 ELSE rows[c][w]]
  <2>1. rows' = [rows EXCEPT ![c] = new]  BY <1>c DEF Add
  <2>2. \A w \in Chatters : rows[c][w] \in 0..MaxRows /\ MaxRows \in Nat
    BY <1>t, RowsAreBounded DEF MessagingTypeOK
  <2>3. new \in [Chatters -> 0..MaxRows] /\ \A w \in Chatters : new[w] >= rows[c][w]
    BY <2>2
  <2>4. rows'[c] = new  BY <1>t, <2>1 DEF MessagingTypeOK
  <2> HIDE DEF new
  <2> QED  BY <1>t, <2>1, <2>3, <2>4 DEF MessagingTypeOK
<1>4. MessagingTypeOK'  BY <1>t, <1>a, <1>2, <1>3 DEF MessagingTypeOK
<1>5. RequestsFit'  BY <1>a, <1>2 DEF MessagingInv, RequestsFit
<1>6. PairsAreOne'
  <2>1. \A u, v : PairChatsOf(u, v)' \subseteq PairChatsOf(u, v)
    BY <1>a, <1>1, <1>3 DEF PairChatsOf, Participants
  <2> QED  BY <1>a, <1>2, <2>1, PairsStayOne DEF MessagingInv
<1>7. RowsAreKnown'
  <2>1. c \notin crossed => \A g \in Handlers \ {h} : ~JoinsOrLeaves(g, c)
    BY <1>1 DEF MessagingInv, RowsAreKnown
  <2>2. \A g \in Handlers : Leaves(g, c) => JoinsOrLeaves(g, c)  BY DEF Leaves, JoinsOrLeaves
  <2>3. Participants(c) \subseteq Participants(c)'
    <3>1. \A w \in Chatters : rows[c][w] \in Int /\ rows'[c][w] \in Int
      BY <1>t, <1>3, RowsAreBounded DEF MessagingTypeOK
    <3> QED  BY <1>3, <3>1 DEF Participants
  <2>4. \A d \in Chats \ {c} : /\ Participants(d)' = Participants(d)
                               /\ \A w : Remaining(d, w)' = Remaining(d, w)
    BY <1>3 DEF Participants, Remaining
  <2>5. \A d \in Chats : Live(d)' <=> Live(d)  BY <1>a DEF Live
  <2> QED  BY <1>a, <1>2, <2>1, <2>2, <2>3, <2>4, <2>5 DEF MessagingInv, RowsAreKnown
<1>8. ReadersAreSeen'  BY <1>a, <1>2 DEF MessagingInv, ReadersAreSeen
<1> QED  BY <1>4, <1>5, <1>6, <1>7, <1>8 DEF MessagingInv

-----------------------------------------------------------------------------
\* A message that changes its state keeps its author and its reader.
LEMMA MessagesKeepTheirReader ==
    ASSUME MessagingTypeOK, NEW S, NEW state \in {"sent", "gone"},
           \A m \in Messages : m \in S => message[m] \in Message,
           message' = [m \in Messages |-> IF m \in S THEN [message[m] EXCEPT !.state = state]
                                                     ELSE message[m]]
    PROVE  /\ message' \in [Messages -> {NoMessage} \cup Message]
           /\ \A m \in Messages : message[m] \in Message =>
                 /\ message'[m] \in Message
                 /\ message'[m].from = message[m].from /\ message'[m].read = message[m].read
<1>1. \A m \in Messages : m \in S => /\ message'[m] \in Message
                                     /\ message'[m].from = message[m].from
                                     /\ message'[m].read = message[m].read
  BY DEF Message
<1>2. \A m \in Messages : m \notin S => message'[m] = message[m]
  OBVIOUS
<1> QED  BY <1>1, <1>2 DEF MessagingTypeOK

\* Only one's own messages that nobody has read, or whose reader was seen.
LEMMA ReadersStaySeen ==
    ASSUME MessagingInv, UNCHANGED <<unsent, crossed>>,
           \A m \in Messages : message[m] \in Message =>
              message'[m].from = message[m].from /\ message'[m].read = message[m].read,
           \A g \in Handlers, m \in Messages : Unsends(g, m)' =>
              Unsends(g, m) /\ handler'[g].by = handler[g].by
    PROVE  ReadersAreSeen'
<1>1. \A g \in Handlers, m \in Messages : Unsends(g, m) => message[m] \in Message
  BY DEF MessagingInv, RequestsFit, Writes, Unsends
<1> QED  BY <1>1 DEF MessagingInv, ReadersAreSeen

\* One row goes, and the conversation with it when nobody stays.
LEMMA LeaveKeeps ==
    ASSUME MessagingInv, NEW h \in Handlers, Leave(h)
    PROVE  MessagingInv'
<1>t. MessagingTypeOK  BY DEF MessagingInv
<1>a. handler[h].op = "leave" /\ End(h) /\ UNCHANGED <<unsent, crossed>>
  BY DEF Leave
<1>c. PICK c \in Chats, u \in Chatters : c = handler[h].chat /\ u = handler[h].by
  BY <1>t, <1>a, MessagingRecords DEF Handler
<1>l. PICK last \in BOOLEAN : last = (handler[h].with = {})
  OBVIOUS
<1>1. /\ rows' = [rows EXCEPT ![c] = [rows[c] EXCEPT ![u] = RowsLeft(rows[c][u])]]
      /\ chat' = IF last THEN [chat EXCEPT ![c] = "gone"] ELSE chat
      /\ message' = [m \in Messages |-> IF last /\ m \in Sent(c)
                                        THEN [message[m] EXCEPT !.state = "gone"] ELSE message[m]]
      /\ Leaves(h, c) /\ JoinsOrLeaves(h, c) /\ chat[c] # "unused"
  BY <1>a, <1>c, <1>l DEF Leave, MessagingInv, RequestsFit, Leaves, JoinsOrLeaves
<1>2. /\ handler' \in [Handlers -> {Waiting} \cup Handler]
      /\ \A g \in Handlers \ {h} : handler'[g] = handler[g]
      /\ handler'[h].op = "waiting"
      /\ \A x : \A g \in Handlers : /\ Creates(g, x)' <=> g # h /\ Creates(g, x)
                                    /\ JoinsOrLeaves(g, x)' <=> g # h /\ JoinsOrLeaves(g, x)
                                    /\ Leaves(g, x)' <=> g # h /\ Leaves(g, x)
                                    /\ Writes(g, x)' <=> g # h /\ Writes(g, x)
                                    /\ Unsends(g, x)' <=> g # h /\ Unsends(g, x)
  BY <1>t, <1>a, HandlerEnds
<1>3. /\ rows' \in [Chats -> [Chatters -> 0..MaxRows]]
      /\ \A d \in Chats \ {c} : rows'[d] = rows[d]
      /\ \A w \in Chatters \ {u} : rows'[c][w] = rows[c][w]
      /\ rows'[c][u] = IF rows[c][u] > 0 THEN rows[c][u] - 1 ELSE 0
  <2> DEFINE new == [rows[c] EXCEPT ![u] = RowsLeft(rows[c][u])]
  <2>1. rows[c] \in [Chatters -> 0..MaxRows] /\ rows[c][u] \in 0..MaxRows /\ MaxRows \in Nat
    BY <1>t, RowsAreBounded DEF MessagingTypeOK
  <2>2. RowsLeft(rows[c][u]) \in 0..MaxRows
    BY <2>1 DEF RowsLeft
  <2>3. /\ new \in [Chatters -> 0..MaxRows] /\ \A w \in Chatters \ {u} : new[w] = rows[c][w]
        /\ new[u] = IF rows[c][u] > 0 THEN rows[c][u] - 1 ELSE 0
    BY <2>1, <2>2 DEF RowsLeft
  <2>4. rows'[c] = new  BY <1>t, <1>1 DEF MessagingTypeOK
  <2>5. rows' = [rows EXCEPT ![c] = new]  BY <1>1
  <2> HIDE DEF new
  <2> QED  BY <1>t, <2>3, <2>4, <2>5 DEF MessagingTypeOK
<1>4. /\ chat' \in [Chats -> Kinds]
      /\ \A d \in Chats : chat'[d] = chat[d] \/ (d = c /\ last /\ chat'[d] = "gone")
      /\ last => chat'[c] = "gone"
  BY <1>t, <1>1 DEF MessagingTypeOK, Kinds
<1>5. /\ message' \in [Messages -> {NoMessage} \cup Message]
      /\ \A m \in Messages : message[m] \in Message =>
            /\ message'[m] \in Message
            /\ message'[m].from = message[m].from /\ message'[m].read = message[m].read
  <2> DEFINE S == {m \in Messages : last /\ m \in Sent(c)}
  <2>1. \A m \in Messages : m \in S => message[m] \in Message
    BY <1>t, MessagingRecords DEF Sent
  <2>2. message' = [m \in Messages |-> IF m \in S THEN [message[m] EXCEPT !.state = "gone"]
                                                  ELSE message[m]]
    BY <1>1
  <2> HIDE DEF S
  <2> QED  BY <1>t, <2>1, <2>2, MessagesKeepTheirReader
<1>6. MessagingTypeOK'  BY <1>t, <1>a, <1>2, <1>3, <1>4, <1>5 DEF MessagingTypeOK
<1>7. RequestsFit'
  <2>1. \A g \in Handlers : handler[g].op \in {"add", "leave"} => handler[g].chat \in Chats
    BY <1>t, MessagingRecords DEF Handler
  <2> QED  BY <1>2, <1>4, <1>5, <2>1 DEF MessagingInv, RequestsFit
<1>8. PairsAreOne'
  <2>1. \A w, z \in Chatters : PairChatsOf(w, z)' \subseteq PairChatsOf(w, z)
    <3>1. \A d \in Chats : Participants(d)' \subseteq Participants(d)
      BY <1>t, <1>3, RowsAreBounded DEF Participants, MessagingTypeOK
    <3>2. \A d \in Chats : chat'[d] = "pair" => chat[d] = "pair"  BY <1>4
    <3> QED  BY <3>1, <3>2 DEF PairChatsOf
  <2> QED  BY <1>a, <1>2, <2>1, PairsStayOne DEF MessagingInv
<1>9. RowsAreKnown'
  <2>1. c \notin crossed =>
          /\ \A g \in Handlers \ {h} : ~JoinsOrLeaves(g, c)
          /\ handler[h].with = Remaining(c, u)
    BY <1>1, <1>c DEF MessagingInv, RowsAreKnown
  <2>2. \A g \in Handlers : Leaves(g, c) => JoinsOrLeaves(g, c)  BY DEF Leaves, JoinsOrLeaves
  <2>3. ~last /\ c \notin crossed => Participants(c)' # {}
    <3> SUFFICES ASSUME ~last, c \notin crossed  PROVE Participants(c)' # {}
      OBVIOUS
    <3>1. PICK w \in Chatters : rows[c][w] > IF w = u THEN 1 ELSE 0
      BY <1>l, <2>1 DEF Remaining
    <3>2. rows[c][w] \in Nat  BY <1>t, RowsAreBounded DEF MessagingTypeOK
    <3>3. rows'[c][w] > 0  BY <1>3, <3>1, <3>2
    <3> QED  BY <3>3 DEF Participants
  <2>4. last => ~Live(c)'  BY <1>4 DEF Live
  <2>5. \A d \in Chats \ {c} : /\ Participants(d)' = Participants(d) /\ (Live(d)' <=> Live(d))
                               /\ \A w : Remaining(d, w)' = Remaining(d, w)
    BY <1>3, <1>4 DEF Participants, Remaining, Live
  <2> QED  BY <1>a, <1>2, <2>1, <2>2, <2>3, <2>4, <2>5 DEF MessagingInv, RowsAreKnown
<1>10. ReadersAreSeen'  BY <1>a, <1>2, <1>5, ReadersStaySeen
<1> QED  BY <1>6, <1>7, <1>8, <1>9, <1>10 DEF MessagingInv

\* A participant writes a message.
LEMMA SendLoadKeeps ==
    ASSUME MessagingInv, NEW h \in Handlers, NEW u \in Chatters, NEW c \in Chats,
           NEW m \in Messages, SendLoad(h, u, c, m)
    PROVE  MessagingInv'
<1>t. MessagingTypeOK  BY DEF MessagingInv
<1> DEFINE new == [state |-> "sending", chat |-> c, from |-> u, read |-> FALSE]
<1>1. /\ message[m] = NoMessage /\ message' = [message EXCEPT ![m] = new]
      /\ Begin(h, "send", u, c, {}, {m}) /\ UNCHANGED <<chat, rows, unsent, crossed>>
  BY DEF SendLoad
<1>2. new \in Message  BY DEF Message
<1> HIDE DEF new
<1>3. /\ handler' \in [Handlers -> {Waiting} \cup Handler]
      /\ \A g \in Handlers \ {h} : handler'[g] = handler[g]
      /\ handler'[h].op = "send" /\ handler'[h].messages = {m}
  BY <1>t, <1>1, HandlerBegins
<1>4. /\ message' \in [Messages -> {NoMessage} \cup Message] /\ message'[m] \in Message
      /\ \A k \in Messages : message[k] \in Message => message'[k] = message[k]
  BY <1>t, <1>1, <1>2, MessagingRecords DEF MessagingTypeOK
<1>5. MessagingTypeOK'  BY <1>t, <1>1, <1>3, <1>4 DEF MessagingTypeOK
<1>6. \A d : \A g \in Handlers : /\ JoinsOrLeaves(g, d)' <=> g # h /\ JoinsOrLeaves(g, d)
                                 /\ Leaves(g, d)' <=> g # h /\ Leaves(g, d)
                                 /\ Unsends(g, d)' <=> g # h /\ Unsends(g, d)
                                 /\ Writes(g, d)' <=> IF g = h THEN d = m ELSE Writes(g, d)
  BY <1>3 DEF JoinsOrLeaves, Leaves, Writes, Unsends
<1>7. RequestsFit'  BY <1>1, <1>3, <1>4, <1>6 DEF MessagingInv, RequestsFit
<1>8. PairsAreOne'  BY <1>1, <1>3, LoadKeepsPairs
<1>9. RowsAreKnown'  BY <1>1, <1>3, <1>6, RowsStayKnown DEF MessagingInv
<1>10. ReadersAreSeen'  BY <1>1, <1>3, <1>4, <1>6, ReadersStaySeen
<1> QED  BY <1>5, <1>7, <1>8, <1>9, <1>10 DEF MessagingInv

\* What a request that ends leaves alone when the rows stay.
LEMMA EndKeepsChats ==
    ASSUME MessagingInv, NEW h \in Handlers, End(h), UNCHANGED <<chat, rows, crossed>>
    PROVE  PairsAreOne' /\ RowsAreKnown'
<1>t. MessagingTypeOK  BY DEF MessagingInv
<1>1. /\ \A g \in Handlers \ {h} : handler'[g] = handler[g]
      /\ \A x : \A g \in Handlers : /\ Creates(g, x)' <=> g # h /\ Creates(g, x)
                                    /\ JoinsOrLeaves(g, x)' <=> g # h /\ JoinsOrLeaves(g, x)
                                    /\ Leaves(g, x)' <=> g # h /\ Leaves(g, x)
                                    /\ Writes(g, x)' <=> g # h /\ Writes(g, x)
                                    /\ Unsends(g, x)' <=> g # h /\ Unsends(g, x)
  BY <1>t, HandlerEnds
<1>2. \A w, z : PairChatsOf(w, z)' = PairChatsOf(w, z)  BY DEF PairChatsOf, Participants
<1>3. PairsAreOne'  BY <1>1, <1>2, PairsStayOne DEF MessagingInv
<1>4. RowsAreKnown'  BY <1>1, RowsStayKnown DEF MessagingInv
<1> QED  BY <1>3, <1>4

\* The message is there.
LEMMA SendKeeps ==
    ASSUME MessagingInv, NEW h \in Handlers, Send(h)
    PROVE  MessagingInv'
<1>t. MessagingTypeOK  BY DEF MessagingInv
<1>1. /\ handler[h].op = "send" /\ End(h) /\ UNCHANGED <<chat, rows, unsent, crossed>>
      /\ message' = [m \in Messages |-> IF m \in handler[h].messages
                                        THEN [message[m] EXCEPT !.state = "sent"] ELSE message[m]]
  BY DEF Send
<1>2. /\ handler' \in [Handlers -> {Waiting} \cup Handler]
      /\ \A g \in Handlers \ {h} : handler'[g] = handler[g]
      /\ handler'[h].op = "waiting"
      /\ \A x : \A g \in Handlers : /\ Creates(g, x)' <=> g # h /\ Creates(g, x)
                                    /\ JoinsOrLeaves(g, x)' <=> g # h /\ JoinsOrLeaves(g, x)
                                    /\ Leaves(g, x)' <=> g # h /\ Leaves(g, x)
                                    /\ Writes(g, x)' <=> g # h /\ Writes(g, x)
                                    /\ Unsends(g, x)' <=> g # h /\ Unsends(g, x)
  BY <1>t, <1>1, HandlerEnds
<1>3. \A m \in Messages : m \in handler[h].messages => message[m] \in Message
  BY <1>1 DEF MessagingInv, RequestsFit, Writes
<1>4. /\ message' \in [Messages -> {NoMessage} \cup Message]
      /\ \A m \in Messages : message[m] \in Message =>
            /\ message'[m] \in Message
            /\ message'[m].from = message[m].from /\ message'[m].read = message[m].read
  BY <1>t, <1>1, <1>3, MessagesKeepTheirReader
<1>5. MessagingTypeOK'  BY <1>t, <1>1, <1>2, <1>4 DEF MessagingTypeOK
<1>6. RequestsFit'  BY <1>1, <1>2, <1>4 DEF MessagingInv, RequestsFit
<1>7. PairsAreOne' /\ RowsAreKnown'  BY <1>1, EndKeepsChats
<1>8. ReadersAreSeen'  BY <1>1, <1>2, <1>4, ReadersStaySeen
<1> QED  BY <1>5, <1>6, <1>7, <1>8 DEF MessagingInv

\* Who reads a message that its author is about to take back is seen.
LEMMA MarkReadKeeps ==
    ASSUME MessagingInv, NEW u \in Chatters, NEW c \in Chats, MarkRead(u, c)
    PROVE  MessagingInv'
<1>t. MessagingTypeOK  BY DEF MessagingInv
<1>1. /\ UNCHANGED <<chat, rows, handler, unsent>>
      /\ message' = [m \in Messages |->
                        IF m \in Sent(c)
                        THEN [message[m] EXCEPT !.read = message[m].read \/ message[m].from # u]
                        ELSE message[m]]
      /\ crossed' = crossed \cup UNION {handler[h].messages : h \in {g \in Handlers :
                                           handler[g].op = "unsend" /\ handler[g].by # u}}
  BY DEF MarkRead, Meet
<1>2. \A m \in Messages : m \in Sent(c) =>
         /\ message[m] \in Message /\ message'[m] \in Message
         /\ message'[m].from = message[m].from
         /\ message'[m].read = (message[m].read \/ message[m].from # u)
  <2> SUFFICES ASSUME NEW m \in Messages, m \in Sent(c)
               PROVE  /\ message[m] \in Message /\ message'[m] \in Message
                      /\ message'[m].from = message[m].from
                      /\ message'[m].read = (message[m].read \/ message[m].from # u)
    OBVIOUS
  <2>1. message[m] \in Message  BY <1>t, MessagingRecords DEF Sent
  <2>2. PICK b \in BOOLEAN : b = (message[m].read \/ message[m].from # u)
    OBVIOUS
  <2>3. message'[m] = [message[m] EXCEPT !.read = b]  BY <1>1, <2>2
  <2>4. message'[m] \in Message /\ message'[m].from = message[m].from /\ message'[m].read = b
    BY <2>1, <2>3 DEF Message
  <2> QED  BY <2>1, <2>2, <2>4
<1>3. \A m \in Messages : m \notin Sent(c) => message'[m] = message[m]  BY <1>1
<1>4. MessagingTypeOK'
  <2>1. message' \in [Messages -> {NoMessage} \cup Message]
    <3>1. message' = [m \in Messages |-> message'[m]]  BY <1>1
    <3>2. \A m \in Messages : message'[m] \in {NoMessage} \cup Message
      BY <1>t, <1>2, <1>3 DEF MessagingTypeOK
    <3> QED  BY <3>1, <3>2
  <2>2. \A g \in Handlers : handler[g].op = "unsend" => handler[g].messages \subseteq Messages
    BY <1>t, MessagingRecords DEF Handler
  <2>3. crossed' \subseteq (SUBSET Chatters) \cup Chats \cup Messages
    BY <1>t, <1>1, <2>2 DEF MessagingTypeOK
  <2> QED  BY <1>t, <1>1, <2>1, <2>3 DEF MessagingTypeOK
<1>5. \A x : \A g \in Handlers : /\ Creates(g, x)' <=> Creates(g, x)
                                 /\ JoinsOrLeaves(g, x)' <=> JoinsOrLeaves(g, x)
                                 /\ Leaves(g, x)' <=> Leaves(g, x)
                                 /\ Writes(g, x)' <=> Writes(g, x)
                                 /\ Unsends(g, x)' <=> Unsends(g, x)
  BY <1>1 DEF Creates, JoinsOrLeaves, Leaves, Writes, Unsends
<1>6. RequestsFit'  BY <1>1, <1>2, <1>3, <1>5 DEF MessagingInv, RequestsFit
<1>7. PairsAreOne'
  <2>1. \A w, z : PairChatsOf(w, z)' = PairChatsOf(w, z)  BY <1>1 DEF PairChatsOf, Participants
  <2> QED  BY <1>1, <1>5, <2>1, PairsStayOne DEF MessagingInv
<1>8. RowsAreKnown'  BY <1>1, <1>5, RowsStayKnown DEF MessagingInv
<1>9. ReadersAreSeen'
  <2>1. \A g \in Handlers, m \in Messages : Unsends(g, m) /\ handler[g].by # u => m \in crossed'
    BY <1>1 DEF Unsends
  <2>2. \A g \in Handlers, m \in Messages : Unsends(g, m) =>
          /\ message'[m].from = message[m].from
          /\ handler[g].by = u => message'[m].read = message[m].read
    <3> SUFFICES ASSUME NEW g \in Handlers, NEW m \in Messages, Unsends(g, m)
                 PROVE  /\ message'[m].from = message[m].from
                        /\ handler[g].by = u => message'[m].read = message[m].read
      OBVIOUS
    <3>1. message[m].from = handler[g].by /\ message[m] \in Message
      BY DEF MessagingInv, ReadersAreSeen, RequestsFit, Writes, Unsends
    <3>2. message[m].read \in BOOLEAN  BY <3>1 DEF Message
    <3> QED  BY <1>2, <1>3, <3>1, <3>2
  <2> QED  BY <1>1, <1>5, <2>1, <2>2 DEF MessagingInv, ReadersAreSeen
<1> QED  BY <1>4, <1>6, <1>7, <1>8, <1>9 DEF MessagingInv

\* An author asks to take back what nobody has read.
LEMMA UnsendLoadKeeps ==
    ASSUME MessagingInv, NEW h \in Handlers, NEW u \in Chatters, NEW m \in Messages,
           UnsendLoad(h, u, m)
    PROVE  MessagingInv'
<1>t. MessagingTypeOK  BY DEF MessagingInv
<1>1. /\ message[m].state = "sent" /\ message[m].from = u /\ ~message[m].read
      /\ Begin(h, "unsend", u, message[m].chat, {}, {m})
      /\ UNCHANGED <<chat, rows, message, unsent, crossed>>
  BY DEF UnsendLoad, MayUnsend
<1>2. message[m] \in Message /\ message[m].chat \in Chats
  BY <1>t, <1>1, MessagingRecords DEF Message
<1>3. /\ handler' \in [Handlers -> {Waiting} \cup Handler]
      /\ \A g \in Handlers \ {h} : handler'[g] = handler[g]
      /\ handler'[h].op = "unsend" /\ handler'[h].by = u /\ handler'[h].messages = {m}
  BY <1>t, <1>1, <1>2, HandlerBegins
<1>4. MessagingTypeOK'  BY <1>t, <1>1, <1>3 DEF MessagingTypeOK
<1>5. \A d : \A g \in Handlers : /\ JoinsOrLeaves(g, d)' <=> g # h /\ JoinsOrLeaves(g, d)
                                 /\ Leaves(g, d)' <=> g # h /\ Leaves(g, d)
                                 /\ Unsends(g, d)' <=> IF g = h THEN d = m ELSE Unsends(g, d)
                                 /\ Writes(g, d)' <=> IF g = h THEN d = m ELSE Writes(g, d)
  BY <1>3 DEF JoinsOrLeaves, Leaves, Writes, Unsends
<1>6. RequestsFit'  BY <1>1, <1>2, <1>3, <1>5 DEF MessagingInv, RequestsFit
<1>7. PairsAreOne'  BY <1>1, <1>3, LoadKeepsPairs
<1>8. RowsAreKnown'  BY <1>1, <1>3, <1>5, RowsStayKnown DEF MessagingInv
<1>9. ReadersAreSeen'  BY <1>1, <1>3, <1>5 DEF MessagingInv, ReadersAreSeen
<1> QED  BY <1>4, <1>6, <1>7, <1>8, <1>9 DEF MessagingInv

\* The message goes: who has read it by now was seen.
LEMMA UnsendKeeps ==
    ASSUME MessagingInv, NEW h \in Handlers, Unsend(h)
    PROVE  MessagingInv'
<1>t. MessagingTypeOK  BY DEF MessagingInv
<1>1. /\ handler[h].op = "unsend" /\ End(h) /\ UNCHANGED <<chat, rows, crossed>>
      /\ message' = [m \in Messages |-> IF m \in handler[h].messages
                                        THEN [message[m] EXCEPT !.state = "gone"] ELSE message[m]]
      /\ unsent' = unsent \cup {m \in handler[h].messages : message[m].read}
  BY DEF Unsend
<1>2. /\ handler' \in [Handlers -> {Waiting} \cup Handler]
      /\ \A g \in Handlers \ {h} : handler'[g] = handler[g]
      /\ handler'[h].op = "waiting"
      /\ \A x : \A g \in Handlers : /\ Creates(g, x)' <=> g # h /\ Creates(g, x)
                                    /\ JoinsOrLeaves(g, x)' <=> g # h /\ JoinsOrLeaves(g, x)
                                    /\ Leaves(g, x)' <=> g # h /\ Leaves(g, x)
                                    /\ Writes(g, x)' <=> g # h /\ Writes(g, x)
                                    /\ Unsends(g, x)' <=> g # h /\ Unsends(g, x)
  BY <1>t, <1>1, HandlerEnds
<1>3. handler[h].messages \subseteq Messages
  BY <1>t, <1>1, MessagingRecords DEF Handler
<1>4. \A m \in Messages : m \in handler[h].messages => message[m] \in Message
  BY <1>1 DEF MessagingInv, RequestsFit, Writes
<1>5. /\ message' \in [Messages -> {NoMessage} \cup Message]
      /\ \A m \in Messages : message[m] \in Message =>
            /\ message'[m] \in Message
            /\ message'[m].from = message[m].from /\ message'[m].read = message[m].read
  BY <1>t, <1>1, <1>4, MessagesKeepTheirReader
<1>6. unsent' \subseteq Messages  BY <1>t, <1>1, <1>3 DEF MessagingTypeOK
<1>7. MessagingTypeOK'  BY <1>t, <1>1, <1>2, <1>5, <1>6 DEF MessagingTypeOK
<1>8. RequestsFit'  BY <1>1, <1>2, <1>5 DEF MessagingInv, RequestsFit
<1>9. PairsAreOne' /\ RowsAreKnown'  BY <1>1, EndKeepsChats
<1>10. ReadersAreSeen'
  <2>1. unsent' \subseteq crossed
    BY <1>1, <1>3 DEF MessagingInv, ReadersAreSeen, Unsends
  <2>2. \A g \in Handlers, m \in Messages : Unsends(g, m) => message[m] \in Message
    BY DEF MessagingInv, RequestsFit, Writes, Unsends
  <2> QED  BY <1>1, <1>2, <1>5, <2>1, <2>2 DEF MessagingInv, ReadersAreSeen
<1> QED  BY <1>7, <1>8, <1>9, <1>10 DEF MessagingInv

\* A request that is given up leaves a message it was sending unsent.
LEMMA BreakKeeps ==
    ASSUME MessagingInv, NEW h \in Handlers, Break(h)
    PROVE  MessagingInv'
<1>t. MessagingTypeOK  BY DEF MessagingInv
<1>1. /\ End(h) /\ UNCHANGED <<chat, rows, unsent, crossed>>
      /\ message' = [m \in Messages |-> IF handler[h].op = "send" /\ m \in handler[h].messages
                                        THEN [message[m] EXCEPT !.state = "gone"] ELSE message[m]]
  BY DEF Break
<1>2. /\ handler' \in [Handlers -> {Waiting} \cup Handler]
      /\ \A g \in Handlers \ {h} : handler'[g] = handler[g]
      /\ handler'[h].op = "waiting"
      /\ \A x : \A g \in Handlers : /\ Creates(g, x)' <=> g # h /\ Creates(g, x)
                                    /\ JoinsOrLeaves(g, x)' <=> g # h /\ JoinsOrLeaves(g, x)
                                    /\ Leaves(g, x)' <=> g # h /\ Leaves(g, x)
                                    /\ Writes(g, x)' <=> g # h /\ Writes(g, x)
                                    /\ Unsends(g, x)' <=> g # h /\ Unsends(g, x)
  BY <1>t, <1>1, HandlerEnds
<1>3. /\ message' \in [Messages -> {NoMessage} \cup Message]
      /\ \A m \in Messages : message[m] \in Message =>
            /\ message'[m] \in Message
            /\ message'[m].from = message[m].from /\ message'[m].read = message[m].read
  <2> DEFINE S == {m \in Messages : handler[h].op = "send" /\ m \in handler[h].messages}
  <2>1. \A m \in Messages : m \in S => message[m] \in Message
    BY DEF MessagingInv, RequestsFit, Writes
  <2>2. message' = [m \in Messages |-> IF m \in S THEN [message[m] EXCEPT !.state = "gone"]
                                                  ELSE message[m]]
    BY <1>1
  <2> HIDE DEF S
  <2> QED  BY <1>t, <2>1, <2>2, MessagesKeepTheirReader
<1>4. MessagingTypeOK'  BY <1>t, <1>1, <1>2, <1>3 DEF MessagingTypeOK
<1>5. RequestsFit'  BY <1>1, <1>2, <1>3 DEF MessagingInv, RequestsFit
<1>6. PairsAreOne' /\ RowsAreKnown'  BY <1>1, EndKeepsChats
<1>7. ReadersAreSeen'  BY <1>1, <1>2, <1>3, ReadersStaySeen
<1> QED  BY <1>4, <1>5, <1>6, <1>7 DEF MessagingInv

\* Every step keeps the invariant.
LEMMA MessagingInvNext == MessagingInv /\ [MessagingNext]_messagingVars => MessagingInv'
<1> SUFFICES ASSUME MessagingInv, [MessagingNext]_messagingVars
             PROVE  MessagingInv'
  OBVIOUS
<1>1. CASE UNCHANGED messagingVars
  BY <1>1 DEF messagingVars, MessagingInv, MessagingTypeOK, RequestsFit, PairsAreOne,
     RowsAreKnown, ReadersAreSeen, Creates, JoinsOrLeaves, Leaves, Writes, Unsends, PairChatsOf,
     Participants, Live, Remaining
<1>2. CASE \E u \in Chatters, P \in SUBSET Chatters : CreateGroup(u, P)
  BY <1>2, CreateGroupKeeps
<1>3. CASE \E u \in Chatters, c \in Chats : MarkRead(u, c)  BY <1>3, MarkReadKeeps
<1>4. CASE \E h \in Handlers, u \in Chatters, v \in Chatters : CreatePairLoad(h, u, v)
  BY <1>4, CreatePairLoadKeeps
<1>5. CASE \E h \in Handlers, u \in Chatters, m \in Messages : UnsendLoad(h, u, m)
  BY <1>5, UnsendLoadKeeps
<1>6. CASE \E h \in Handlers, u \in Chatters, c \in Chats : LeaveChatLoad(h, u, c)
  BY <1>6, LeaveChatLoadKeeps
<1>7. CASE \E h \in Handlers, u \in Chatters, c \in Chats, P \in SUBSET Chatters :
              AddToGroupLoad(h, u, c, P)
  BY <1>7, AddToGroupLoadKeeps
<1>8. CASE \E h \in Handlers, u \in Chatters, c \in Chats, m \in Messages : SendLoad(h, u, c, m)
  BY <1>8, SendLoadKeeps
<1>9. CASE \E h \in Handlers : CreatePair(h)  BY <1>9, CreatePairKeeps
<1>10. CASE \E h \in Handlers : Add(h)  BY <1>10, AddKeeps
<1>11. CASE \E h \in Handlers : Leave(h)  BY <1>11, LeaveKeeps
<1>12. CASE \E h \in Handlers : Send(h)  BY <1>12, SendKeeps
<1>13. CASE \E h \in Handlers : Unsend(h)  BY <1>13, UnsendKeeps
<1>14. CASE \E h \in Handlers : Break(h)  BY <1>14, BreakKeeps
<1> QED
  BY <1>1, <1>2, <1>3, <1>4, <1>5, <1>6, <1>7, <1>8, <1>9, <1>10, <1>11, <1>12, <1>13, <1>14
  DEF MessagingNext

\* It holds of every behaviour.
LEMMA MessagingInvHolds == MessagingSpec => []MessagingInv
  BY MessagingInvInit, MessagingInvNext, PTL DEF MessagingSpec

\* Two residents share at most one conversation, every conversation has
\* somebody in it, and nobody takes back what has been read, except where two
\* requests had both checked before either wrote (dm.py:348, 258, 655).
THEOREM ChatsStaySound == MessagingSpec => []ChatsAreSound
<1>1. MessagingInv => ChatsAreSound
  <2> SUFFICES ASSUME MessagingInv PROVE ChatsAreSound
    OBVIOUS
  <2>1. ASSUME NEW u \in Chatters, NEW v \in Chatters, u # v, {u, v} \notin crossed
        PROVE  Cardinality(PairChatsOf(u, v)) <= 1
    <3>1. \A c, d \in PairChatsOf(u, v) : c = d
      BY <2>1 DEF MessagingInv, PairsAreOne
    <3>2. PairChatsOf(u, v) = {} \/ \E c : PairChatsOf(u, v) = {c}
      BY <3>1
    <3>3. Cardinality(PairChatsOf(u, v)) \in {0, 1}
      BY <3>2, FS_EmptySet, FS_Singleton
    <3> QED  BY <3>3
  <2> QED  BY <2>1 DEF MessagingInv, RowsAreKnown, ReadersAreSeen, ChatsAreSound
<1> QED  BY <1>1, MessagingInvHolds, PTL

-----------------------------------------------------------------------------
(* Feed.                                                                   *)

\* What request r is about to do to mark k or post p.
Marks(r, k) == feedRequest[r].op = "mark" /\ feedRequest[r].key = k
\* Requests about to reply to a post, and about to delete it.
Replies(r, p) == feedRequest[r].op = "reply" /\ feedRequest[r].to = p
Deletes(r, p) == feedRequest[r].op = "delete" /\ p \in feedRequest[r].posts

\* One request at most is about to insert a row, and there is none yet.
OneMarks ==
    \A k \in MarkKeys \ feedCrossed :
        /\ marks[k] <= 1
        /\ \A r \in FeedRequests : Marks(r, k) =>
              marks[k] = 0 /\ \A s \in FeedRequests \ {r} : ~Marks(s, k)

\* Votes are on posts with a poll, which no delete has taken.
VotesHavePolls ==
    /\ \A k \in MarkKeys :
          k.kind = "vote" /\ (marks[k] > 0 \/ \E r \in FeedRequests : Marks(r, k)) =>
              post[k.of] # Unmade /\ post[k.of].poll
    /\ \A p \in Posts : post[p].state = "deleted" => ~post[p].poll

\* A request to like or to answer a post and one to delete it know of each
\* other, and a delete knows the replies.
DeletesAreNoticed ==
    /\ \A r \in FeedRequests, p \in Posts : Deletes(r, p) => post[p] # Unmade
    /\ \A p \in Posts \ feedCrossed, r \in FeedRequests :
          /\ Replies(r, p) \/ (\E k \in MarkKeys : k.kind = "like" /\ k.of = p /\ Marks(r, k)) =>
                Up(p) /\ \A s \in FeedRequests : ~Deletes(s, p)
          /\ Deletes(r, p) /\ TopLevel(p) => \A q \in RepliesTo(p) : Deletes(r, q)

\* A deleted post that no requests met on has no likes, and no replies if it can
\* have any.
DeletedAreBare ==
    \A p \in Posts \ feedCrossed : post[p].state = "deleted" =>
        /\ \A k \in MarkKeys : k.kind = "like" /\ k.of = p => marks[k] = 0
        /\ TopLevel(p) => RepliesTo(p) = {}

\* The inductive invariant of the feed.
FeedInv == FeedTypeOK /\ OneMarks /\ VotesHavePolls /\ DeletesAreNoticed /\ DeletedAreBare

\* It holds at the start.
LEMMA FeedInvInit == FeedInit => FeedInv
<1> SUFFICES ASSUME FeedInit PROVE FeedInv
  OBVIOUS
<1>1. /\ \A r \in FeedRequests : feedRequest[r].op = "idle"
      /\ \A p \in Posts : post[p].state = "unmade"
      /\ \A k \in MarkKeys : marks[k] = 0
  BY DEF FeedInit, FeedIdle, Unmade
<1>2. FeedTypeOK
  <2>1. 0 \in 0..MaxMarkRows  BY MarksAreBounded
  <2> QED  BY <2>1 DEF FeedInit, FeedTypeOK
<1>3. \A r \in FeedRequests : (\A k : ~Marks(r, k)) /\ \A p : ~Replies(r, p) /\ ~Deletes(r, p)
  BY <1>1 DEF Marks, Replies, Deletes
<1> QED  BY <1>1, <1>2, <1>3
            DEF FeedInv, OneMarks, VotesHavePolls, DeletesAreNoticed, DeletedAreBare

\* What the records of the requests and posts hold.
LEMMA FeedRecords ==
    ASSUME FeedTypeOK
    PROVE  /\ \A r \in FeedRequests :
                 /\ feedRequest[r].op = "mark" => feedRequest[r].key \in MarkKeys
                 /\ feedRequest[r].op = "reply" =>
                       feedRequest[r].to \in Posts /\ feedRequest[r].by \in Neighbors
                 /\ feedRequest[r].op = "delete" => feedRequest[r].posts \subseteq Posts
           /\ \A p \in Posts :
                 /\ post[p] # Unmade => post[p] \in Post
                 /\ post[p] = Unmade => post[p].state = "unmade" /\ ~Up(p)
<1>1. \A r \in FeedRequests : feedRequest[r] \in {FeedIdle} \cup FeedRequest
  BY DEF FeedTypeOK
<1>2. \A p \in Posts : post[p] \in {Unmade} \cup Post
  BY DEF FeedTypeOK
<1> QED  BY <1>1, <1>2, MarksAreBounded DEF FeedIdle, FeedRequest, Unmade, Up

\* What is still about to happen once a request has ended.
LEMMA FeedRequestEnds ==
    ASSUME FeedTypeOK, NEW r \in FeedRequests, FeedEnd(r)
    PROVE  /\ feedRequest' \in [FeedRequests -> {FeedIdle} \cup FeedRequest]
           /\ \A s \in FeedRequests : \A k : Marks(s, k)' <=> s # r /\ Marks(s, k)
           /\ \A s \in FeedRequests : \A p :
                 /\ Replies(s, p)' <=> s # r /\ Replies(s, p)
                 /\ Deletes(s, p)' <=> s # r /\ Deletes(s, p)
<1>1. feedRequest'[r].op = "idle" /\ \A s \in FeedRequests \ {r} : feedRequest'[s] = feedRequest[s]
  BY DEF FeedTypeOK, FeedEnd, FeedIdle
<1>2. feedRequest' \in [FeedRequests -> {FeedIdle} \cup FeedRequest]
  BY DEF FeedTypeOK, FeedEnd
<1> QED  BY <1>1, <1>2 DEF Marks, Replies, Deletes

\* And once one has begun.
LEMMA FeedRequestBegins ==
    ASSUME FeedTypeOK, NEW r \in FeedRequests, NEW new \in FeedRequest,
           feedRequest[r] = FeedIdle, feedRequest' = [feedRequest EXCEPT ![r] = new]
    PROVE  /\ feedRequest' \in [FeedRequests -> {FeedIdle} \cup FeedRequest]
           /\ (\A k : ~Marks(r, k)) /\ \A p : ~Replies(r, p) /\ ~Deletes(r, p)
           /\ \A s \in FeedRequests : \A k :
                 Marks(s, k)' <=> IF s = r THEN new.op = "mark" /\ new.key = k ELSE Marks(s, k)
           /\ \A s \in FeedRequests : \A p :
                 /\ Replies(s, p)' <=> IF s = r THEN new.op = "reply" /\ new.to = p
                                                ELSE Replies(s, p)
                 /\ Deletes(s, p)' <=> IF s = r THEN new.op = "delete" /\ p \in new.posts
                                                ELSE Deletes(s, p)
<1>1. feedRequest'[r] = new /\ \A s \in FeedRequests \ {r} : feedRequest'[s] = feedRequest[s]
  BY DEF FeedTypeOK
<1>2. feedRequest' \in [FeedRequests -> {FeedIdle} \cup FeedRequest]
  BY DEF FeedTypeOK
<1>3. feedRequest[r].op = "idle"  BY DEF FeedIdle
<1> QED  BY <1>1, <1>2, <1>3 DEF Marks, Replies, Deletes

\* Nothing is disturbed when a request ends and rows go.
LEMMA FeedShrinks ==
    ASSUME FeedInv,
           feedRequest' \in [FeedRequests -> {FeedIdle} \cup FeedRequest],
           marks' \in [MarkKeys -> 0..MaxMarkRows], refused' \in BOOLEAN,
           UNCHANGED <<post, feedCrossed>>,
           \A s \in FeedRequests : \A k : Marks(s, k)' => Marks(s, k),
           \A s \in FeedRequests : \A p : Replies(s, p)' => Replies(s, p),
           \A s \in FeedRequests :
              \/ \A p : Deletes(s, p)' <=> Deletes(s, p)
              \/ \A p : ~Deletes(s, p)',
           \A k \in MarkKeys : marks'[k] <= marks[k]
    PROVE  FeedInv'
<1>1. FeedTypeOK'  BY DEF FeedInv, FeedTypeOK
<1>2. \A k \in MarkKeys : marks[k] \in Nat /\ marks'[k] \in Nat /\ marks'[k] <= marks[k]
  BY MarksAreBounded DEF FeedInv, FeedTypeOK
<1>3. OneMarks'  BY <1>2 DEF FeedInv, OneMarks
<1>4. VotesHavePolls'  BY <1>2 DEF FeedInv, VotesHavePolls
<1>5. DeletesAreNoticed'
  BY DEF FeedInv, DeletesAreNoticed, Up, TopLevel, RepliesTo
<1>6. DeletedAreBare'  BY <1>2 DEF FeedInv, DeletedAreBare, TopLevel, RepliesTo, Up
<1> QED  BY <1>1, <1>3, <1>4, <1>5, <1>6 DEF FeedInv

\* Refused and failed requests, and rows taken back, disturb nothing.
LEMMA FeedEndsAndRemovals ==
    ASSUME FeedInv,
           \/ \E r \in FeedRequests : DeleteRefused(r) \/ FeedBreak(r)
           \/ \E u \in Neighbors, p \in Posts : Unlike(u, p)
           \/ \E u, v \in Neighbors : RemoveFavorite(u, v)
    PROVE  FeedInv'
<1>t. FeedTypeOK /\ \A k \in MarkKeys : marks[k] \in 0..MaxMarkRows
  BY DEF FeedInv, FeedTypeOK
<1>m. MaxMarkRows \in Nat  BY MarksAreBounded
<1>1. ASSUME NEW r \in FeedRequests, DeleteRefused(r) \/ FeedBreak(r)
      PROVE  FeedInv'
  <2>1. /\ FeedEnd(r) /\ UNCHANGED <<post, marks, feedCrossed>>
        /\ refused' \in BOOLEAN
    BY <1>1, <1>t DEF DeleteRefused, FeedBreak, FeedTypeOK
  <2>2. \A k \in MarkKeys : marks'[k] <= marks[k]
    BY <1>t, <1>m, <2>1
  <2>3. marks' \in [MarkKeys -> 0..MaxMarkRows]  BY <1>t, <2>1 DEF FeedTypeOK
  <2> QED  BY <1>t, <2>1, <2>2, <2>3, FeedRequestEnds, FeedShrinks
<1>2. ASSUME marks' \in [MarkKeys -> 0..MaxMarkRows],
             \A j \in MarkKeys : marks'[j] <= marks[j],
             UNCHANGED <<post, feedRequest, refused, feedCrossed>>
      PROVE  FeedInv'
  <2>2. /\ \A s \in FeedRequests : \A j : Marks(s, j)' <=> Marks(s, j)
        /\ \A s \in FeedRequests : \A p :
              (Replies(s, p)' <=> Replies(s, p)) /\ (Deletes(s, p)' <=> Deletes(s, p))
    BY <1>2 DEF Marks, Replies, Deletes
  <2>3. feedRequest' \in [FeedRequests -> {FeedIdle} \cup FeedRequest] /\ refused' \in BOOLEAN
    BY <1>2, <1>t DEF FeedTypeOK
  <2> QED  BY <1>2, <2>2, <2>3, FeedShrinks
<1>3. ASSUME NEW u \in Neighbors, NEW p \in Posts, Unlike(u, p) PROVE FeedInv'
  <2> DEFINE k == [kind |-> "like", of |-> p, by |-> u]
  <2>1. k \in MarkKeys  BY DEF MarkKeys
  <2>2. /\ marks[k] > 0 /\ marks' = [marks EXCEPT ![k] = marks[k] - 1]
        /\ UNCHANGED <<post, feedRequest, refused, feedCrossed>>
    BY <1>3 DEF Unlike
  <2> HIDE DEF k
  <2>3. marks[k] - 1 \in 0..MaxMarkRows /\ marks[k] - 1 <= marks[k]
    BY <1>t, <1>m, <2>1, <2>2
  <2>4. marks' \in [MarkKeys -> 0..MaxMarkRows]
    BY <1>t, <2>1, <2>2, <2>3 DEF FeedTypeOK
  <2>5. \A j \in MarkKeys : marks'[j] <= marks[j]
    BY <1>t, <1>m, <2>1, <2>2, <2>3 DEF FeedTypeOK
  <2> QED  BY <1>2, <2>2, <2>4, <2>5
<1>4. ASSUME NEW u \in Neighbors, NEW v \in Neighbors, RemoveFavorite(u, v) PROVE FeedInv'
  <2> DEFINE k == [kind |-> "favorite", of |-> v, by |-> u]
  <2>1. k \in MarkKeys  BY DEF MarkKeys
  <2>2. /\ marks' = [marks EXCEPT ![k] = 0]
        /\ UNCHANGED <<post, feedRequest, refused, feedCrossed>>
    BY <1>4 DEF RemoveFavorite
  <2> HIDE DEF k
  <2>3. 0 \in 0..MaxMarkRows /\ 0 <= marks[k]
    BY <1>t, <1>m, <2>1
  <2>4. marks' \in [MarkKeys -> 0..MaxMarkRows]
    BY <1>t, <2>1, <2>2, <2>3 DEF FeedTypeOK
  <2>5. \A j \in MarkKeys : marks'[j] <= marks[j]
    BY <1>t, <1>m, <2>1, <2>2, <2>3 DEF FeedTypeOK
  <2> QED  BY <1>2, <2>2, <2>4, <2>5
<1> QED  BY <1>1, <1>3, <1>4

\* A post that is made has no marks and no replies, and no delete knows it.
LEMMA InsertKeeps ==
    ASSUME FeedInv, NEW u \in Neighbors, NEW parent \in Posts \cup {NoPost}, NEW poll \in BOOLEAN,
           Insert(u, parent, poll),
           parent = NoPost \/ \E r \in FeedRequests : Replies(r, parent),
           feedRequest' \in [FeedRequests -> {FeedIdle} \cup FeedRequest],
           UNCHANGED <<marks, refused, feedCrossed>>,
           \A s \in FeedRequests : \A k : Marks(s, k)' <=> Marks(s, k),
           \A s \in FeedRequests : \A p :
              (Replies(s, p)' => Replies(s, p)) /\ (Deletes(s, p)' <=> Deletes(s, p))
    PROVE  FeedInv'
<1>1. PICK q \in Posts :
         /\ post[q] = Unmade
         /\ post' = [post EXCEPT ![q] = [state |-> "up", author |-> u, parent |-> parent,
                                         poll |-> poll]]
  BY DEF Insert
<1>2. /\ post'[q] = [state |-> "up", author |-> u, parent |-> parent, poll |-> poll]
      /\ post'[q] \in Post /\ post'[q].state = "up" /\ post'[q].parent = parent
      /\ \A p \in Posts \ {q} : post'[p] = post[p]
      /\ post' \in [Posts -> {Unmade} \cup Post]
  BY <1>1 DEF FeedInv, FeedTypeOK, Post
<1>3. post'[q] # Unmade /\ post[q].state = "unmade"
  <2>1. Unmade.state = "unmade"  BY DEF Unmade
  <2> QED  BY <1>1, <1>2, <2>1
<1>4. FeedTypeOK'  BY <1>2 DEF FeedInv, FeedTypeOK
<1>5. OneMarks'  BY DEF FeedInv, OneMarks
<1>6. VotesHavePolls'
  <2>1. \A k \in MarkKeys : k.kind = "vote" => k.of \in Posts  BY DEF MarkKeys
  <2> QED  BY <1>1, <1>2, <1>3, <2>1 DEF FeedInv, VotesHavePolls
<1>7. DeletesAreNoticed'
  <2>1. \A r \in FeedRequests, p \in Posts : Deletes(r, p)' => post'[p] # Unmade
    BY <1>2, <1>3 DEF FeedInv, DeletesAreNoticed
  <2>2. ASSUME NEW p \in Posts \ feedCrossed, NEW r \in FeedRequests,
               Replies(r, p)' \/ (\E k \in MarkKeys : k.kind = "like" /\ k.of = p /\ Marks(r, k)')
        PROVE  Up(p)' /\ \A s \in FeedRequests : ~Deletes(s, p)'
    <3>1. Up(p) /\ \A s \in FeedRequests : ~Deletes(s, p)
      BY <2>2 DEF FeedInv, DeletesAreNoticed
    <3>2. p # q  BY <1>3, <3>1 DEF Up
    <3> QED  BY <1>2, <3>1, <3>2 DEF Up
  <2>3. ASSUME NEW p \in Posts \ feedCrossed, NEW r \in FeedRequests,
               Deletes(r, p)', TopLevel(p)', NEW w \in RepliesTo(p)'
        PROVE  Deletes(r, w)'
    <3>1. Deletes(r, p)  BY <2>3
    <3>2. p # q  BY <1>1, <3>1 DEF FeedInv, DeletesAreNoticed
    <3>3. TopLevel(p)  BY <1>2, <2>3, <3>2 DEF TopLevel
    <3>4. w # q
      <4> SUFFICES ASSUME w = q PROVE FALSE
        OBVIOUS
      <4>1. parent = p  BY <1>2, <2>3 DEF RepliesTo
      <4>2. PICK s \in FeedRequests : Replies(s, p)  BY <4>1, MarksAreBounded
      <4> QED  BY <3>1, <4>2 DEF FeedInv, DeletesAreNoticed
    <3>5. w \in RepliesTo(p)  BY <1>2, <2>3, <3>4 DEF RepliesTo, Up
    <3> QED  BY <2>3, <3>1, <3>3, <3>5 DEF FeedInv, DeletesAreNoticed
  <2> QED  BY <2>1, <2>2, <2>3 DEF DeletesAreNoticed
<1>8. DeletedAreBare'
  <2> SUFFICES ASSUME NEW p \in Posts \ feedCrossed, post'[p].state = "deleted"
               PROVE  /\ \A k \in MarkKeys : k.kind = "like" /\ k.of = p => marks[k] = 0
                      /\ TopLevel(p)' => RepliesTo(p)' = {}
    BY DEF DeletedAreBare
  <2>1. p # q /\ post'[p] = post[p]  BY <1>2
  <2>2. parent # p
    <3>1. ~Up(p)  BY <2>1 DEF Up
    <3> QED  BY <3>1, MarksAreBounded DEF FeedInv, DeletesAreNoticed
  <2>3. RepliesTo(p)' = RepliesTo(p)
    <3>1. q \notin RepliesTo(p)' /\ q \notin RepliesTo(p)
      BY <1>1, <1>2, <1>3, <2>2 DEF RepliesTo, Up
    <3> QED  BY <1>2, <3>1 DEF RepliesTo, Up
  <2> QED  BY <2>1, <2>3 DEF FeedInv, DeletedAreBare, TopLevel
<1> QED  BY <1>4, <1>5, <1>6, <1>7, <1>8 DEF FeedInv

\* Marks and posts that requests met on are marks and posts.
LEMMA CrossedType ==
    ASSUME FeedTypeOK, NEW S \in SUBSET (Posts \cup MarkKeys), Cross(S)
    PROVE  feedCrossed' \subseteq Posts \cup MarkKeys /\ feedCrossed \subseteq feedCrossed'
           /\ S \subseteq feedCrossed'
BY DEF FeedTypeOK, Cross

\* A request that is about to insert a mark.
LEMMA MarkLoadKeeps ==
    ASSUME FeedInv, NEW r \in FeedRequests, NEW k \in MarkKeys, MarkLoad(r, k),
           k.kind = "like" => Up(k.of), k.kind = "vote" => HasPoll(k.of)
    PROVE  FeedInv'
<1> DEFINE new == [op |-> "mark", key |-> k]
<1>t. FeedTypeOK  BY DEF FeedInv
<1>1. /\ feedRequest[r] = FeedIdle /\ marks[k] = 0
      /\ feedRequest' = [feedRequest EXCEPT ![r] = new]
      /\ UNCHANGED <<post, marks, refused>>
      /\ new \in FeedRequest /\ new.op = "mark" /\ new.key = k
  BY DEF MarkLoad, FeedRequest
<1>2. /\ feedRequest' \in [FeedRequests -> {FeedIdle} \cup FeedRequest]
      /\ (\A j : ~Marks(r, j)) /\ \A p : ~Replies(r, p) /\ ~Deletes(r, p)
      /\ \A s \in FeedRequests : \A j : Marks(s, j)' <=> IF s = r THEN j = k ELSE Marks(s, j)
      /\ \A s \in FeedRequests : \A p :
            (Replies(s, p)' <=> Replies(s, p)) /\ (Deletes(s, p)' <=> Deletes(s, p))
  <2> HIDE DEF new
  <2> QED  BY <1>t, <1>1, FeedRequestBegins
<1>3. /\ feedCrossed' \subseteq Posts \cup MarkKeys /\ feedCrossed \subseteq feedCrossed'
      /\ MetBy(r, k) \subseteq feedCrossed'
  <2>1. MetBy(r, k) \in SUBSET (Posts \cup MarkKeys)  BY DEF MetBy
  <2>2. Cross(MetBy(r, k))  BY DEF MarkLoad
  <2> QED  BY <1>t, <2>1, <2>2, CrossedType
<1>4. ASSUME k \notin feedCrossed', NEW s \in FeedRequests, s # r PROVE ~Marks(s, k)
  BY <1>3, <1>4 DEF MetBy, InFlight, Marks
<1>5. ASSUME k.of \in Posts \ feedCrossed', NEW s \in FeedRequests PROVE ~Deletes(s, k.of)
  <2>1. ASSUME s # r PROVE ~Deletes(s, k.of)
    BY <1>3, <1>5, <2>1 DEF MetBy, InFlight, Deletes
  <2> QED  BY <1>2, <2>1
<1>6. FeedTypeOK'  BY <1>t, <1>1, <1>2, <1>3 DEF FeedTypeOK
<1>7. OneMarks'  BY <1>1, <1>2, <1>3, <1>4 DEF FeedInv, OneMarks
<1>8. VotesHavePolls'
  <2>1. k.kind = "vote" => post[k.of] # Unmade /\ post[k.of].poll
    <3>1. k.kind = "vote" => k.of \in Posts  BY DEF MarkKeys
    <3> QED  BY <1>t, <3>1, FeedRecords DEF HasPoll
  <2> QED  BY <1>1, <1>2, <2>1 DEF FeedInv, VotesHavePolls
<1>9. DeletesAreNoticed'
  <2>1. ASSUME NEW p \in Posts \ feedCrossed', NEW s \in FeedRequests,
               Replies(s, p)' \/ (\E j \in MarkKeys : j.kind = "like" /\ j.of = p /\ Marks(s, j)')
        PROVE  Up(p)' /\ \A o \in FeedRequests : ~Deletes(o, p)'
    <3>1. CASE Replies(s, p)' \/ s # r
      BY <1>1, <1>2, <1>3, <2>1, <3>1 DEF FeedInv, DeletesAreNoticed, Up
    <3>2. CASE s = r /\ ~Replies(s, p)'
      <4>1. k.kind = "like" /\ k.of = p  BY <1>2, <2>1, <3>2
      <4> QED  BY <1>1, <1>2, <1>5, <4>1 DEF Up
    <3> QED  BY <3>1, <3>2
  <2>2. \A p \in Posts : (TopLevel(p)' <=> TopLevel(p)) /\ RepliesTo(p)' = RepliesTo(p)
    BY <1>1 DEF TopLevel, RepliesTo, Up
  <2> QED  BY <1>1, <1>2, <1>3, <2>1, <2>2 DEF FeedInv, DeletesAreNoticed
<1>10. DeletedAreBare'
  BY <1>1, <1>3 DEF FeedInv, DeletedAreBare, TopLevel, RepliesTo, Up
<1> QED  BY <1>6, <1>7, <1>8, <1>9, <1>10 DEF FeedInv

\* The row is inserted.
LEMMA MarkKeeps ==
    ASSUME FeedInv, NEW r \in FeedRequests, Mark(r)
    PROVE  FeedInv'
<1>t. FeedTypeOK  BY DEF FeedInv
<1>p. PICK k \in MarkKeys : k = feedRequest[r].key
  <2>1. Marks(r, feedRequest[r].key)  BY DEF Mark, Marks
  <2> QED  BY <1>t, <2>1, FeedRecords DEF Marks
<1>1. /\ Marks(r, k) /\ marks[k] < MaxMarkRows /\ marks' = [marks EXCEPT ![k] = marks[k] + 1]
      /\ FeedEnd(r) /\ UNCHANGED <<post, refused, feedCrossed>>
  BY <1>p DEF Mark, Marks
<1>2. k \in MarkKeys  BY <1>p
<1>3. /\ feedRequest' \in [FeedRequests -> {FeedIdle} \cup FeedRequest]
      /\ \A s \in FeedRequests : \A j : Marks(s, j)' <=> s # r /\ Marks(s, j)
      /\ \A s \in FeedRequests : \A p :
            (Replies(s, p)' <=> s # r /\ Replies(s, p)) /\ (Deletes(s, p)' <=> s # r /\ Deletes(s, p))
  BY <1>t, <1>1, FeedRequestEnds
<1>4. (\A p : ~Deletes(r, p) /\ ~Replies(r, p)) /\ \A j : Marks(r, j) => j = k
  BY <1>1 DEF Deletes, Replies, Marks
<1>5. /\ marks' \in [MarkKeys -> 0..MaxMarkRows] /\ marks'[k] = marks[k] + 1 /\ marks[k] \in Nat
      /\ \A j \in MarkKeys \ {k} : marks'[j] = marks[j]
  <2>1. marks[k] \in 0..MaxMarkRows /\ MaxMarkRows \in Nat
    BY <1>t, <1>2, MarksAreBounded DEF FeedTypeOK
  <2>2. marks[k] + 1 \in 0..MaxMarkRows  BY <1>1, <2>1
  <2> QED  BY <1>t, <1>1, <1>2, <2>1, <2>2 DEF FeedTypeOK
<1>6. FeedTypeOK'  BY <1>t, <1>1, <1>3, <1>5 DEF FeedTypeOK
<1>7. OneMarks'
  <2>a. ASSUME k \notin feedCrossed
        PROVE  marks[k] = 0 /\ \A s \in FeedRequests \ {r} : ~Marks(s, k)
    BY <1>1, <1>2, <2>a DEF FeedInv, OneMarks
  <2>1. k \notin feedCrossed => marks'[k] = 1 /\ \A s \in FeedRequests : ~Marks(s, k)'
    <3>1. marks[k] = 0 => marks'[k] = 1  BY <1>5
    <3> QED  BY <1>3, <2>a, <3>1
  <2>2. \A j \in MarkKeys : j \notin feedCrossed' => j \notin feedCrossed
    BY <1>1
  <2>3. \A j \in (MarkKeys \ feedCrossed) \ {k} :
          /\ marks'[j] <= 1
          /\ \A s \in FeedRequests : Marks(s, j)' =>
                marks'[j] = 0 /\ \A o \in FeedRequests \ {s} : ~Marks(o, j)'
    BY <1>3, <1>5 DEF FeedInv, OneMarks
  <2>4. k \notin feedCrossed =>
          /\ marks'[k] <= 1
          /\ \A s \in FeedRequests : Marks(s, k)' =>
                marks'[k] = 0 /\ \A o \in FeedRequests \ {s} : ~Marks(o, k)'
    BY <2>1
  <2> QED  BY <2>2, <2>3, <2>4 DEF OneMarks
<1>8. VotesHavePolls'
  BY <1>1, <1>2, <1>3, <1>5 DEF FeedInv, VotesHavePolls
<1>9. DeletesAreNoticed'
  <2>1. \A p \in Posts : (TopLevel(p)' <=> TopLevel(p)) /\ RepliesTo(p)' = RepliesTo(p)
                         /\ (Up(p)' <=> Up(p))
    BY <1>1 DEF TopLevel, RepliesTo, Up
  <2> QED  BY <1>1, <1>3, <1>4, <2>1 DEF FeedInv, DeletesAreNoticed
<1>10. DeletedAreBare'
  <2>1. \A p \in Posts : (TopLevel(p)' <=> TopLevel(p)) /\ RepliesTo(p)' = RepliesTo(p)
    BY <1>1 DEF TopLevel, RepliesTo, Up
  <2>2. ASSUME NEW p \in Posts \ feedCrossed, post[p].state = "deleted",
               NEW j \in MarkKeys, j.kind = "like", j.of = p
        PROVE  marks'[j] = 0
    <3>1. j # k  BY <1>1, <1>2, <2>2 DEF FeedInv, DeletesAreNoticed, Up
    <3> QED  BY <1>5, <2>2, <3>1 DEF FeedInv, DeletedAreBare
  <2> QED  BY <1>1, <2>1, <2>2 DEF FeedInv, DeletedAreBare
<1> QED  BY <1>6, <1>7, <1>8, <1>9, <1>10 DEF FeedInv

\* A request that is about to insert a reply.
LEMMA ReplyLoadKeeps ==
    ASSUME FeedInv, NEW r \in FeedRequests, NEW u \in Neighbors, NEW q \in Posts,
           ReplyLoad(r, u, q)
    PROVE  FeedInv'
<1> DEFINE new == [op |-> "reply", by |-> u, to |-> q]
           S == {p \in {q} : \E d \in InFlight(r, "delete") : q \in d.posts}
<1>t. FeedTypeOK  BY DEF FeedInv
<1>1. /\ feedRequest[r] = FeedIdle /\ Up(q)
      /\ feedRequest' = [feedRequest EXCEPT ![r] = new]
      /\ UNCHANGED <<post, marks, refused>>
      /\ new \in FeedRequest /\ new.op = "reply" /\ new.to = q
  BY DEF ReplyLoad, FeedRequest
<1>2. /\ feedRequest' \in [FeedRequests -> {FeedIdle} \cup FeedRequest]
      /\ (\A j : ~Marks(r, j)) /\ \A p : ~Replies(r, p) /\ ~Deletes(r, p)
      /\ \A s \in FeedRequests : \A j : Marks(s, j)' <=> Marks(s, j)
      /\ \A s \in FeedRequests : \A p :
            /\ Replies(s, p)' <=> IF s = r THEN p = q ELSE Replies(s, p)
            /\ Deletes(s, p)' <=> Deletes(s, p)
  <2> HIDE DEF new
  <2> QED  BY <1>t, <1>1, FeedRequestBegins
<1>3. /\ feedCrossed' \subseteq Posts \cup MarkKeys /\ feedCrossed \subseteq feedCrossed'
      /\ S \subseteq feedCrossed'
  <2>1. S \in SUBSET (Posts \cup MarkKeys)  OBVIOUS
  <2>2. Cross(S)
    <3>1. S = {p \in {q} : \E d \in InFlight(r, "delete") : p \in d.posts}  OBVIOUS
    <3> QED  BY <3>1 DEF ReplyLoad
  <2> HIDE DEF S
  <2> QED  BY <1>t, <2>1, <2>2, CrossedType
<1>4. ASSUME q \notin feedCrossed', NEW s \in FeedRequests PROVE ~Deletes(s, q)
  <2>1. ASSUME s # r PROVE ~Deletes(s, q)
    BY <1>3, <1>4, <2>1 DEF InFlight, Deletes
  <2> QED  BY <1>2, <2>1
<1>5. FeedTypeOK'  BY <1>t, <1>1, <1>2, <1>3 DEF FeedTypeOK
<1>6. OneMarks' /\ VotesHavePolls'
  BY <1>1, <1>2, <1>3 DEF FeedInv, OneMarks, VotesHavePolls
<1>7. \A p \in Posts : (TopLevel(p)' <=> TopLevel(p)) /\ RepliesTo(p)' = RepliesTo(p)
                       /\ (Up(p)' <=> Up(p))
  BY <1>1 DEF TopLevel, RepliesTo, Up
<1>8. DeletesAreNoticed'
  BY <1>1, <1>2, <1>3, <1>4, <1>7 DEF FeedInv, DeletesAreNoticed
<1>9. DeletedAreBare'
  BY <1>1, <1>3, <1>7 DEF FeedInv, DeletedAreBare
<1> QED  BY <1>5, <1>6, <1>8, <1>9 DEF FeedInv

\* A reply is a new post, and bare.
LEMMA ReplyKeeps ==
    ASSUME FeedInv, NEW r \in FeedRequests, Reply(r)
    PROVE  FeedInv'
<1> DEFINE u == feedRequest[r].by
           q == feedRequest[r].to
<1>t. FeedTypeOK  BY DEF FeedInv
<1>1. /\ Replies(r, q) /\ Insert(u, q, FALSE) /\ FeedEnd(r)
      /\ UNCHANGED <<marks, refused, feedCrossed>>
  BY DEF Reply, Replies
<1>2. q \in Posts /\ u \in Neighbors  BY <1>t, <1>1, FeedRecords DEF Replies
<1> HIDE DEF u, q
<1>3. (\A p : ~Deletes(r, p)) /\ \A j : ~Marks(r, j)
  BY <1>1 DEF Deletes, Replies, Marks
<1>4. /\ feedRequest' \in [FeedRequests -> {FeedIdle} \cup FeedRequest]
      /\ \A s \in FeedRequests : \A j : Marks(s, j)' <=> Marks(s, j)
      /\ \A s \in FeedRequests : \A p :
            (Replies(s, p)' => Replies(s, p)) /\ (Deletes(s, p)' <=> Deletes(s, p))
  BY <1>t, <1>1, <1>3, FeedRequestEnds
<1> QED  BY <1>1, <1>2, <1>4, InsertKeeps

\* So is a post of its own.
LEMMA CreateKeeps ==
    ASSUME FeedInv, NEW u \in Neighbors, NEW poll \in BOOLEAN, CreatePost(u, poll)
    PROVE  FeedInv'
<1>1. Insert(u, NoPost, poll) /\ UNCHANGED <<marks, feedRequest, refused, feedCrossed>>
  BY DEF CreatePost
<1>2. /\ feedRequest' \in [FeedRequests -> {FeedIdle} \cup FeedRequest]
      /\ \A s \in FeedRequests : \A j : Marks(s, j)' <=> Marks(s, j)
      /\ \A s \in FeedRequests : \A p :
            (Replies(s, p)' => Replies(s, p)) /\ (Deletes(s, p)' <=> Deletes(s, p))
  BY <1>1 DEF FeedInv, FeedTypeOK, Marks, Replies, Deletes
<1> QED  BY <1>1, <1>2, InsertKeeps

\* A request that is about to delete a post.
LEMMA DeleteLoadKeeps ==
    ASSUME FeedInv, NEW r \in FeedRequests, NEW u \in Neighbors, NEW q \in Posts,
           DeleteLoad(r, u, q)
    PROVE  FeedInv'
<1> DEFINE T == Targets(q)
           new == [op |-> "delete", posts |-> T]
           S == {p \in T : \/ \E m \in InFlight(r, "mark") : m.key.of = p
                           \/ \E m \in InFlight(r, "reply") : m.to = p}
<1>t. FeedTypeOK  BY DEF FeedInv
<1>0. T \subseteq Posts /\ \A p \in T : post[p] # Unmade /\ (TopLevel(p) => RepliesTo(p) \subseteq T)
  <2>1. Up(q)  BY DEF DeleteLoad
  <2>2. \A p \in Posts : p \in T => Up(p)  BY <2>1 DEF Targets, RepliesTo
  <2>3. T \subseteq Posts  BY DEF Targets, RepliesTo
  <2>4. \A p \in T : p # q => post[p].parent = q  BY DEF Targets, RepliesTo
  <2>5. \A p \in T : TopLevel(p) => p = q  BY <2>4, MarksAreBounded DEF TopLevel
  <2>6. TopLevel(q) => RepliesTo(q) \subseteq T  BY DEF Targets
  <2> QED  BY <1>t, <2>2, <2>3, <2>5, <2>6, FeedRecords
<1>1. /\ feedRequest[r] = FeedIdle
      /\ feedRequest' = [feedRequest EXCEPT ![r] = new]
      /\ UNCHANGED <<post, marks, refused>>
      /\ new \in FeedRequest /\ new.op = "delete" /\ new.posts = T
  BY <1>0 DEF DeleteLoad, FeedRequest
<1>2. Cross(S)  BY DEF DeleteLoad
<1> HIDE DEF T
<1>3. /\ feedRequest' \in [FeedRequests -> {FeedIdle} \cup FeedRequest]
      /\ (\A j : ~Marks(r, j)) /\ \A p : ~Replies(r, p) /\ ~Deletes(r, p)
      /\ \A s \in FeedRequests : \A j : Marks(s, j)' <=> Marks(s, j)
      /\ \A s \in FeedRequests : \A p :
            /\ Replies(s, p)' <=> Replies(s, p)
            /\ Deletes(s, p)' <=> IF s = r THEN p \in T ELSE Deletes(s, p)
  <2> HIDE DEF new
  <2> QED  BY <1>t, <1>1, FeedRequestBegins
<1>4. /\ feedCrossed' \subseteq Posts \cup MarkKeys /\ feedCrossed \subseteq feedCrossed'
      /\ S \subseteq feedCrossed'
  <2>1. S \in SUBSET (Posts \cup MarkKeys)  BY <1>0
  <2> HIDE DEF S
  <2> QED  BY <1>t, <1>2, <2>1, CrossedType
<1>5. ASSUME NEW p \in T, p \notin feedCrossed', NEW s \in FeedRequests
      PROVE  ~Replies(s, p) /\ \A k \in MarkKeys : k.of = p => ~Marks(s, k)
  <2>1. ASSUME s # r PROVE ~Replies(s, p) /\ \A k \in MarkKeys : k.of = p => ~Marks(s, k)
    <3>1. ~(\E m \in InFlight(r, "mark") : m.key.of = p) /\ ~(\E m \in InFlight(r, "reply") : m.to = p)
      BY <1>4, <1>5
    <3> QED  BY <2>1, <3>1 DEF InFlight, Replies, Marks
  <2> QED  BY <1>3, <2>1
<1> HIDE DEF S
<1>6. FeedTypeOK'  BY <1>t, <1>1, <1>3, <1>4 DEF FeedTypeOK
<1>7. OneMarks' /\ VotesHavePolls'
  BY <1>1, <1>3, <1>4 DEF FeedInv, OneMarks, VotesHavePolls
<1>8. \A p \in Posts : (TopLevel(p)' <=> TopLevel(p)) /\ RepliesTo(p)' = RepliesTo(p)
                       /\ (Up(p)' <=> Up(p))
  BY <1>1 DEF TopLevel, RepliesTo, Up
<1>9. DeletesAreNoticed'
  <2>1. \A s \in FeedRequests, p \in Posts : Deletes(s, p)' => post'[p] # Unmade
    BY <1>0, <1>1, <1>3 DEF FeedInv, DeletesAreNoticed
  <2>2. ASSUME NEW p \in Posts \ feedCrossed', NEW s \in FeedRequests,
               Replies(s, p) \/ (\E j \in MarkKeys : j.kind = "like" /\ j.of = p /\ Marks(s, j))
        PROVE  Up(p) /\ \A o \in FeedRequests : ~Deletes(o, p)'
    <3>1. p \notin T  BY <1>5, <2>2
    <3> QED  BY <1>3, <1>4, <2>2, <3>1 DEF FeedInv, DeletesAreNoticed
  <2>3. ASSUME NEW p \in Posts \ feedCrossed', NEW s \in FeedRequests,
               Deletes(s, p)', TopLevel(p), NEW w \in RepliesTo(p)
        PROVE  Deletes(s, w)'
    <3>1. w \in Posts  BY DEF RepliesTo
    <3> QED  BY <1>0, <1>3, <1>4, <2>3, <3>1 DEF FeedInv, DeletesAreNoticed
  <2> QED  BY <1>3, <1>8, <2>1, <2>2, <2>3 DEF DeletesAreNoticed
<1>10. DeletedAreBare'
  BY <1>1, <1>4, <1>8 DEF FeedInv, DeletedAreBare
<1> QED  BY <1>6, <1>7, <1>9, <1>10 DEF FeedInv

\* Posts and likes go.
LEMMA DeleteKeeps ==
    ASSUME FeedInv, NEW r \in FeedRequests, Delete(r)
    PROVE  FeedInv'
<1> DEFINE D == feedRequest[r].posts
<1>t. FeedTypeOK  BY DEF FeedInv
<1>1. /\ \A p : p \in D <=> Deletes(r, p)
      /\ \A p \in D : ~post[p].poll
      /\ FeedEnd(r) /\ UNCHANGED <<refused, feedCrossed>>
      /\ marks' = [k \in MarkKeys |-> IF k.kind = "like" /\ k.of \in D THEN 0 ELSE marks[k]]
      /\ post' = [p \in Posts |-> IF p \in D THEN [post[p] EXCEPT !.state = "deleted"] ELSE post[p]]
      /\ D \subseteq Posts
  BY <1>t, FeedRecords DEF Delete, Deletes
<1> HIDE DEF D
<1>2. /\ feedRequest' \in [FeedRequests -> {FeedIdle} \cup FeedRequest]
      /\ \A s \in FeedRequests : \A j : Marks(s, j)' <=> s # r /\ Marks(s, j)
      /\ \A s \in FeedRequests : \A p :
            (Replies(s, p)' <=> s # r /\ Replies(s, p)) /\ (Deletes(s, p)' <=> s # r /\ Deletes(s, p))
  BY <1>t, <1>1, FeedRequestEnds
<1>3. \A p \in D : post[p] # Unmade /\ post[p] \in Post
  BY <1>t, <1>1, FeedRecords DEF FeedInv, DeletesAreNoticed
<1>4. /\ \A p \in D : /\ post'[p] \in Post /\ post'[p].state = "deleted" /\ ~post'[p].poll
                      /\ post'[p].parent = post[p].parent
      /\ \A p \in Posts \ D : post'[p] = post[p]
  BY <1>1, <1>3 DEF Post
<1>5. \A p \in D : post'[p] # Unmade
  <2>1. Unmade.state = "unmade"  BY DEF Unmade
  <2> QED  BY <1>4, <2>1
<1>6. /\ marks' \in [MarkKeys -> 0..MaxMarkRows]
      /\ \A k \in MarkKeys : marks'[k] = marks[k] \/ marks'[k] = 0
      /\ \A k \in MarkKeys : k.kind = "like" /\ k.of \in D => marks'[k] = 0
  <2>1. 0 \in 0..MaxMarkRows  BY MarksAreBounded
  <2> QED  BY <1>t, <1>1, <2>1 DEF FeedTypeOK
<1>7. FeedTypeOK'
  <2>1. post' \in [Posts -> {Unmade} \cup Post]  BY <1>t, <1>1, <1>4 DEF FeedTypeOK
  <2> QED  BY <1>t, <1>1, <1>2, <1>6, <2>1 DEF FeedTypeOK
<1>8. OneMarks'
  <2>1. \A k \in MarkKeys \ feedCrossed : marks'[k] <= 1
    BY <1>6 DEF FeedInv, OneMarks
  <2>2. \A k \in MarkKeys : marks[k] = 0 => marks'[k] = 0  BY <1>6
  <2> QED  BY <1>1, <1>2, <2>1, <2>2 DEF FeedInv, OneMarks
<1>9. VotesHavePolls'
  <2>1. ASSUME NEW k \in MarkKeys, k.kind = "vote",
               marks'[k] > 0 \/ \E s \in FeedRequests : Marks(s, k)'
        PROVE  post'[k.of] # Unmade /\ post'[k.of].poll
    <3>1. post[k.of] # Unmade /\ post[k.of].poll
      <4>1. marks[k] > 0 \/ \E s \in FeedRequests : Marks(s, k)
        BY <1>2, <1>6, <2>1
      <4> QED  BY <2>1, <4>1 DEF FeedInv, VotesHavePolls
    <3>2. k.of \in Posts \ D  BY <1>1, <2>1, <3>1 DEF MarkKeys
    <3> QED  BY <1>4, <3>1, <3>2
  <2>2. \A p \in Posts : post'[p].state = "deleted" => ~post'[p].poll
    BY <1>4 DEF FeedInv, VotesHavePolls
  <2> QED  BY <2>1, <2>2 DEF VotesHavePolls
<1>10. \A p \in Posts : (TopLevel(p)' <=> TopLevel(p)) /\ RepliesTo(p)' = RepliesTo(p) \ D
                        /\ (Up(p)' <=> Up(p) /\ p \notin D)
  BY <1>4 DEF TopLevel, RepliesTo, Up
<1>11. DeletesAreNoticed'
  <2>1. \A s \in FeedRequests, p \in Posts : Deletes(s, p)' => post'[p] # Unmade
    BY <1>2, <1>4, <1>5 DEF FeedInv, DeletesAreNoticed
  <2>2. ASSUME NEW p \in Posts \ feedCrossed, NEW s \in FeedRequests,
               Replies(s, p)' \/ (\E j \in MarkKeys : j.kind = "like" /\ j.of = p /\ Marks(s, j)')
        PROVE  Up(p)' /\ \A o \in FeedRequests : ~Deletes(o, p)'
    <3>1. Up(p) /\ \A o \in FeedRequests : ~Deletes(o, p)
      BY <1>2, <2>2 DEF FeedInv, DeletesAreNoticed
    <3> QED  BY <1>1, <1>2, <1>10, <3>1
  <2>3. ASSUME NEW p \in Posts \ feedCrossed, NEW s \in FeedRequests,
               Deletes(s, p)', TopLevel(p), NEW w \in RepliesTo(p) \ D
        PROVE  Deletes(s, w)'
    <3>1. w \in RepliesTo(p)  OBVIOUS
    <3> QED  BY <1>2, <2>3, <3>1 DEF FeedInv, DeletesAreNoticed
  <2> QED  BY <1>1, <1>10, <2>1, <2>2, <2>3 DEF DeletesAreNoticed
<1>12. DeletedAreBare'
  <2> SUFFICES ASSUME NEW p \in Posts \ feedCrossed, post'[p].state = "deleted"
               PROVE  /\ \A k \in MarkKeys : k.kind = "like" /\ k.of = p => marks'[k] = 0
                      /\ TopLevel(p) => RepliesTo(p) \ D = {}
    BY <1>1, <1>10 DEF DeletedAreBare
  <2>1. CASE p \in D
    <3>1. TopLevel(p) => \A w \in RepliesTo(p) : w \in D
      BY <1>1, <2>1 DEF FeedInv, DeletesAreNoticed
    <3> QED  BY <1>6, <2>1, <3>1
  <2>2. CASE p \notin D
    BY <1>4, <1>6, <2>2 DEF FeedInv, DeletedAreBare
  <2> QED  BY <2>1, <2>2
<1> QED  BY <1>7, <1>8, <1>9, <1>11, <1>12 DEF FeedInv

\* Every step keeps the invariant.
LEMMA FeedInvNext == FeedInv /\ [FeedNext]_feedVars => FeedInv'
<1> SUFFICES ASSUME FeedInv, [FeedNext]_feedVars PROVE FeedInv'
  OBVIOUS
<1>1. ASSUME NEW r \in FeedRequests, NEW u \in Neighbors, NEW p \in Posts, Like(r, u, p)
      PROVE  FeedInv'
  <2> DEFINE k == [kind |-> "like", of |-> p, by |-> u]
  <2>1. k \in MarkKeys /\ k.kind = "like" /\ k.of = p  BY DEF MarkKeys
  <2>2. MarkLoad(r, k) /\ Up(p)  BY <1>1 DEF Like
  <2> HIDE DEF k
  <2> QED  BY <2>1, <2>2, MarkLoadKeeps
<1>2. ASSUME NEW r \in FeedRequests, NEW u \in Neighbors, NEW p \in Posts, Vote(r, u, p)
      PROVE  FeedInv'
  <2> DEFINE k == [kind |-> "vote", of |-> p, by |-> u]
  <2>1. k \in MarkKeys /\ k.kind = "vote" /\ k.of = p  BY DEF MarkKeys
  <2>2. MarkLoad(r, k) /\ HasPoll(p)  BY <1>2 DEF Vote
  <2> HIDE DEF k
  <2> QED  BY <2>1, <2>2, MarkLoadKeeps
<1>3. ASSUME NEW r \in FeedRequests, NEW u \in Neighbors, NEW v \in Neighbors, Favorite(r, u, v)
      PROVE  FeedInv'
  <2> DEFINE k == [kind |-> "favorite", of |-> v, by |-> u]
  <2>1. k \in MarkKeys /\ k.kind = "favorite"  BY DEF MarkKeys
  <2>2. MarkLoad(r, k)  BY <1>3 DEF Favorite
  <2> HIDE DEF k
  <2> QED  BY <2>1, <2>2, MarkLoadKeeps
<1>4. CASE UNCHANGED feedVars
  BY <1>4 DEF feedVars, FeedInv, FeedTypeOK, OneMarks, VotesHavePolls, DeletesAreNoticed,
     DeletedAreBare, Marks, Replies, Deletes, TopLevel, RepliesTo, Up
<1> QED  BY <1>1, <1>2, <1>3, <1>4, CreateKeeps, ReplyKeeps, MarkKeeps, DeleteKeeps,
            ReplyLoadKeeps, DeleteLoadKeeps, FeedEndsAndRemovals DEF FeedNext

\* Whatever overlaps, rows are counted once and a deleted post is bare, unless
\* requests met on it (feed.py:566, 617, 645-669, 745).
THEOREM FeedStaysSound == FeedSpec => []FeedIsSound
<1>1. FeedInv => FeedIsSound
  <2> SUFFICES ASSUME FeedInv PROVE FeedIsSound
    OBVIOUS
  <2>t. FeedTypeOK  BY DEF FeedInv
  <2>1. \A k \in MarkKeys \ feedCrossed : marks[k] <= 1  BY DEF FeedInv, OneMarks
  <2>2. ASSUME NEW p \in Posts \ feedCrossed, post[p].state = "deleted"
        PROVE  LikeCount(p) + VoteCount(p) = 0 /\ (TopLevel(p) => ReplyCount(p) = 0)
    <3> DEFINE like(u) == [kind |-> "like", of |-> p, by |-> u]
               vote(u) == [kind |-> "vote", of |-> p, by |-> u]
               likes == [u \in Neighbors |-> marks[like(u)]]
               votes == [u \in Neighbors |-> marks[vote(u)]]
    <3>1. ASSUME NEW u \in Neighbors PROVE marks[like(u)] = 0
      <4>1. like(u) \in MarkKeys /\ like(u).kind = "like" /\ like(u).of = p  BY DEF MarkKeys
      <4> HIDE DEF like
      <4> QED  BY <2>2, <4>1 DEF FeedInv, DeletedAreBare
    <3>2. ASSUME NEW u \in Neighbors PROVE marks[vote(u)] = 0
      <4>1. vote(u) \in MarkKeys /\ vote(u).kind = "vote" /\ vote(u).of = p  BY DEF MarkKeys
      <4> HIDE DEF vote
      <4>2. ~post[p].poll  BY <2>2 DEF FeedInv, VotesHavePolls
      <4>3. ~(marks[vote(u)] > 0)  BY <4>1, <4>2 DEF FeedInv, VotesHavePolls
      <4>4. marks[vote(u)] \in 0..MaxMarkRows /\ MaxMarkRows \in Nat
        BY <2>t, <4>1, MarksAreBounded DEF FeedTypeOK
      <4> QED  BY <4>3, <4>4
    <3>3. LikeCount(p) = SumFunctionOnSet(likes, Neighbors)
          /\ VoteCount(p) = SumFunctionOnSet(votes, Neighbors)
      BY DEF LikeCount, VoteCount, SumFunction
    <3>4. \A u \in Neighbors : likes[u] = 0 /\ votes[u] = 0  BY <3>1, <3>2
    <3> HIDE DEF likes, votes
    <3>5. LikeCount(p) = 0 /\ VoteCount(p) = 0
      BY <3>3, <3>4, SumOfZeros, MarksAreBounded
    <3>6. TopLevel(p) => RepliesTo(p) = {}  BY <2>2 DEF FeedInv, DeletedAreBare
    <3> QED  BY <3>5, <3>6, FS_EmptySet DEF ReplyCount
  <2> QED  BY <2>1, <2>2 DEF FeedIsSound
<1> QED  BY <1>1, FeedInvInit, FeedInvNext, PTL DEF FeedSpec

-----------------------------------------------------------------------------
(* The residents.                                                          *)

\* Every step of the composition is a step of one part, and no step of any
\* other.
LEMMA ResidentsStep ==
    ASSUME [Next]_vars
    PROVE  /\ [AccountsNext]_accountsVars /\ [MembershipNext]_membershipVars
           /\ [ResetCodesNext]_resetCodesVars /\ [TransactionPinNext]_transactionPinVars
           /\ [MessagingNext]_messagingVars /\ [FeedNext]_feedVars
           /\ [PagingNext]_pagingVars
BY DEF Next, vars, accessVars, secretVars, socialVars

\* What the residents do together is, for every part, what its own
\* specification allows.
THEOREM ResidentsKeepToTheirParts ==
    Spec => /\ AccountsSpec /\ MembershipSpec /\ ResetCodesSpec /\ TransactionPinSpec
            /\ MessagingSpec /\ FeedSpec /\ PagingSpec
<1>1. Init => /\ AccountsInit /\ MembershipInit /\ ResetCodesInit /\ TransactionPinInit
              /\ MessagingInit /\ FeedInit /\ PagingInit
  BY DEF Init
<1> QED
  BY <1>1, ResidentsStep, PTL
  DEF Spec, AccountsSpec, MembershipSpec, ResetCodesSpec, TransactionPinSpec, MessagingSpec,
      FeedSpec, PagingSpec

\* Every variable of every part stays within its type, whatever residents,
\* requests and bounds there are.
THEOREM ResidentTypes == Spec => []TypeOK
<1>1. AccountsSpec => []AccountsTypeOK
  <2>1. AccountsInv => AccountsTypeOK  BY DEF AccountsInv
  <2> QED  BY <2>1, AccountsInvInit, AccountsInvNext, PTL DEF AccountsSpec
<1>2. MembershipSpec => []MembershipTypeOK
  <2>1. MembershipInv => MembershipTypeOK  BY DEF MembershipInv
  <2> QED  BY <2>1, MembershipInvInit, MembershipInvNext, PTL DEF MembershipSpec
<1>3. ResetCodesSpec => []ResetCodesTypeOK
  <2>1. ResetCodesInv => ResetCodesTypeOK  BY DEF ResetCodesInv
  <2> QED  BY <2>1, ResetCodesInvInit, ResetCodesInvNext, PTL DEF ResetCodesSpec
<1>4. TransactionPinSpec => []TransactionPinTypeOK
  <2>1. PinInv => TransactionPinTypeOK  BY DEF PinInv
  <2> QED  BY <2>1, PinInvInit, PinInvNext, PTL DEF TransactionPinSpec
<1>5. MessagingSpec => []MessagingTypeOK
  <2>1. MessagingInv => MessagingTypeOK  BY DEF MessagingInv
  <2> QED  BY <2>1, MessagingInvHolds, PTL
<1>6. FeedSpec => []FeedTypeOK
  <2>1. FeedInv => FeedTypeOK  BY DEF FeedInv
  <2> QED  BY <2>1, FeedInvInit, FeedInvNext, PTL DEF FeedSpec
<1>7. PagingSpec => []PagingTypeOK
  <2>1. PagingInv => PagingTypeOK  BY DEF PagingInv
  <2> QED  BY <2>1, PagingInvInit, PagingInvNext, PTL DEF PagingSpec
<1> QED
  BY <1>1, <1>2, <1>3, <1>4, <1>5, <1>6, <1>7, ResidentsKeepToTheirParts, PTL DEF TypeOK

\* What holds of each part holds of what the residents do together.
THEOREM ResidentsAreSafe ==
    Spec => [](/\ PushFollowsLogin /\ LoginIsLatest /\ LinksAreSound /\ CodesAreLimited
               /\ KnownPinWorks /\ ChatsAreSound /\ FeedIsSound /\ ListsAreWhole)
BY ResidentsKeepToTheirParts, PushesFollowLogins, LastLoginIsCurrent, MembersAreSound,
   CodesStayLimited, PinsAreKnown, ChatsStaySound, FeedStaysSound, PagedListsAreWhole, PTL
=============================================================================
