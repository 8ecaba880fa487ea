----------------------------- MODULE Messaging ------------------------------
(***************************************************************************)
(* Direct and group messages between residents (client/routes/dm.py).      *)
(*                                                                         *)
(* A conversation has rows of participants, with no constraint against two *)
(* rows of one user, and messages.  A handler checks what the tables hold  *)
(* and then writes; nothing is locked in between, so that two handlers may *)
(* both have checked before either has written.                            *)
(***************************************************************************)
EXTENDS Integers, FiniteSets, UnitOfWork

CONSTANTS
    Chatters,   \* residents of one estate
    Chats,      \* ids of conversations: a bound on the conversations ever made
    Messages,   \* ids of messages: a bound on the messages ever sent
    Handlers,   \* requests the service works on at a time
    MaxRows,    \* bound on the rows of one participant
    MaxMade,    \* bound on the conversations and messages ever made
    MaxOverlaps \* bound on what requests have worked on at once

ASSUME RowsAreBounded == MaxRows \in Nat /\ MaxRows >= 2 /\ MaxMade \in Nat
                            /\ MaxOverlaps \in Nat

VARIABLES
    chat,       \* feed_conversations: their kind
    rows,       \* how many rows of feed_conversation_participants there are
    message,    \* feed_messages
    handler,    \* the requests under way
    unsent,     \* history: messages unsent after somebody had read them
    crossed     \* history: what two requests have worked on at once

messagingVars == <<chat, rows, message, handler, unsent, crossed>>

-----------------------------------------------------------------------------
Kinds == {"unused", "pair", "group", "gone"}

\* read says whether readAt is set.
NoMessage == [state |-> "unused"]
Message == [state : {"sending", "sent", "gone"}, chat : Chats, from : Chatters,
            read : BOOLEAN]

Waiting == [op |-> "waiting"]
Handler == [op : {"create", "add", "leave", "send", "unsend"}, by : Chatters,
            chat : Chats, with : SUBSET Chatters, messages : SUBSET Messages]

MessagingTypeOK ==
    /\ chat \in [Chats -> Kinds]
    /\ rows \in [Chats -> [Chatters -> 0..MaxRows]]
    /\ message \in [Messages -> {NoMessage} \cup Message]
    /\ handler \in [Handlers -> {Waiting} \cup Handler]
    /\ unsent \subseteq Messages
    /\ crossed \subseteq (SUBSET Chatters) \cup Chats \cup Messages

MessagingInit ==
    /\ chat = [c \in Chats |-> "unused"]
    /\ rows = [c \in Chats |-> [u \in Chatters |-> 0]]
    /\ message = [m \in Messages |-> NoMessage]
    /\ handler = [h \in Handlers |-> Waiting]
    /\ unsent = {}
    /\ crossed = {}

Live(c) == chat[c] \in {"pair", "group"}
Participants(c) == {u \in Chatters : rows[c][u] > 0}
Sent(c) == {m \in Messages : message[m].state = "sent" /\ message[m].chat = c}

\* What the request has loaded decides what it is going to write.
Begin(h, op, u, c, P, M) ==
    /\ handler[h] = Waiting
    /\ handler' = [handler EXCEPT ![h] = [op |-> op, by |-> u, chat |-> c,
                                          with |-> P, messages |-> M]]

\* Two requests meet on the users, conversations and messages in S.
Meet(S) ==
    /\ crossed' = crossed \cup S
    /\ Cardinality(crossed') <= MaxOverlaps

OthersIn(h, op) == {other \in Handlers \ {h} : handler[other].op = op}

Made == Cardinality({c \in Chats : chat[c] # "unused"})
        + Cardinality({m \in Messages : message[m] # NoMessage})

End(h) == handler' = [handler EXCEPT ![h] = Waiting]

-----------------------------------------------------------------------------
\* "1:1 idempotency check": a pair that has a conversation gets no new one.
PairChatsOf(u, v) == {c \in Chats : chat[c] = "pair" /\ {u, v} \subseteq Participants(c)}

CreatePairLoad(h, u, v) ==
    /\ PairChatsOf(u, v) = {}
    /\ \E c \in Chats :
          /\ chat[c] = "unused" /\ Made < MaxMade
          /\ Begin(h, "create", u, c, {v}, {})
    /\ Meet({pair \in {{u, v}} : \E other \in OthersIn(h, "create") :
                   {handler[other].by} \cup handler[other].with = pair})
    /\ UNCHANGED <<chat, rows, message, unsent>>

\* Rows for the caller and for everybody the request names, himself included.
RowsFor(u, P) ==
    [w \in Chatters |-> (IF w = u THEN 1 ELSE 0) + (IF w \in P THEN 1 ELSE 0)]

CreatePair(h) ==
    /\ handler[h].op = "create"
    /\ \E c \in Chats :
          /\ chat[c] = "unused" /\ Made < MaxMade
          /\ chat' = [chat EXCEPT ![c] = "pair"]
          /\ rows' = [rows EXCEPT ![c] = RowsFor(handler[h].by, handler[h].with)]
    /\ End(h)
    /\ UNCHANGED <<message, unsent, crossed>>

CreateGroup(u, P) ==
    /\ P # {}
    /\ \E c \in Chats :
          /\ chat[c] = "unused" /\ Made < MaxMade
          /\ chat' = [chat EXCEPT ![c] = "group"]
          /\ rows' = [rows EXCEPT ![c] = RowsFor(u, P)]
    /\ UNCHANGED <<message, handler, unsent, crossed>>

\* Only those that have no row yet are added to a group.
AddToGroupLoad(h, u, c, P) ==
    /\ chat[c] = "group" /\ u \in Participants(c)
    /\ P \ Participants(c) # {}
    /\ Begin(h, "add", u, c, P \ Participants(c), {})
    /\ Meet({handler[other].chat : other \in OthersIn(h, "add") \cup OthersIn(h, "leave")}
               \cap {c})
    /\ UNCHANGED <<chat, rows, message, unsent>>

\* A conversation that is gone by now makes the insert fail.
Add(h) ==
    /\ handler[h].op = "add"
    /\ Live(handler[h].chat)
    /\ rows' = [rows EXCEPT ![handler[h].chat] =
                   [w \in Chatters |->
                       IF w \in handler[h].with /\ @[w] < MaxRows THEN @[w] + 1 ELSE @[w]]]
    /\ End(h)
    /\ UNCHANGED <<chat, message, unsent, crossed>>

-----------------------------------------------------------------------------
\* Who is left when one row of u has gone.
Remaining(c, u) == {w \in Chatters : rows[c][w] > IF w = u THEN 1 ELSE 0}

\* A row that another request has deleted already is not missed.
RowsLeftUnchecked(n) == n - 1
RowsLeft(n) == IF n > 0 THEN n - 1 ELSE 0

\* Leaving a group and deleting a conversation from one's list do the same.
LeaveChatLoad(h, u, c) ==
    /\ Live(c) /\ u \in Participants(c)
    /\ Begin(h, "leave", u, c, Remaining(c, u), Sent(c))
    /\ Meet({handler[other].chat : other \in OthersIn(h, "add") \cup OthersIn(h, "leave")}
               \cap {c})
    /\ UNCHANGED <<chat, rows, message, unsent>>

\* One of them has nobody left: the conversation goes, with the messages that
\* were loaded.  A row that came meanwhile makes the delete fail.
Leave(h) ==
    /\ handler[h].op = "leave"
    /\ LET c == handler[h].chat
           u == handler[h].by
           last == handler[h].with = {}
       IN /\ last => Participants(c) \subseteq {u} /\ Sent(c) \subseteq handler[h].messages
          /\ rows' = [rows EXCEPT ![c][u] = RowsLeft(@)]
          /\ chat' = IF last THEN [chat EXCEPT ![c] = "gone"] ELSE chat
          /\ message' = [m \in Messages |->
                            IF last /\ m \in Sent(c)
                            THEN [message[m] EXCEPT !.state = "gone"] ELSE message[m]]
    /\ End(h)
    /\ UNCHANGED <<unsent, crossed>>

-----------------------------------------------------------------------------
SendLoad(h, u, c, m) ==
    /\ Live(c) /\ u \in Participants(c)
    /\ message[m] = NoMessage /\ Made < MaxMade
    /\ message' = [message EXCEPT ![m] = [state |-> "sending", chat |-> c, from |-> u,
                                          read |-> FALSE]]
    /\ Begin(h, "send", u, c, {}, {m})
    /\ UNCHANGED <<chat, rows, unsent, crossed>>

Send(h) ==
    /\ handler[h].op = "send"
    /\ Live(handler[h].chat)
    /\ message' = [m \in Messages |-> IF m \in handler[h].messages
                                      THEN [message[m] EXCEPT !.state = "sent"]
                                      ELSE message[m]]
    /\ End(h)
    /\ UNCHANGED <<chat, rows, unsent, crossed>>

\* Whoever marks a conversation as read, a participant or not, has read what
\* the others have written so far.
MarkRead(u, c) ==
    /\ Live(c)
    /\ message' = [m \in Messages |->
                      IF m \in Sent(c) THEN [message[m] EXCEPT !.read = @ \/ message[m].from # u]
                                       ELSE message[m]]
    /\ Meet(UNION {handler[h].messages : h \in {g \in Handlers :
                        handler[g].op = "unsend" /\ handler[g].by # u}})
    /\ UNCHANGED <<chat, rows, handler, unsent>>

\* One's own messages, as long as nobody has read them.
MayUnsendAny(u, m) == message[m].state = "sent" /\ message[m].from = u
MayUnsend(u, m) ==
    message[m].state = "sent" /\ message[m].from = u /\ ~message[m].read

UnsendLoad(h, u, m) ==
    /\ MayUnsend(u, m)
    /\ Begin(h, "unsend", u, message[m].chat, {}, {m})
    /\ UNCHANGED <<chat, rows, message, unsent, crossed>>

Unsend(h) ==
    /\ handler[h].op = "unsend"
    /\ message' = [m \in Messages |-> IF m \in handler[h].messages
                                      THEN [message[m] EXCEPT !.state = "gone"]
                                      ELSE message[m]]
    /\ unsent' = unsent \cup {m \in handler[h].messages : message[m].read}
    /\ End(h)
    /\ UNCHANGED <<chat, rows, crossed>>

\* Rejected by a check or a constraint, or its process dies.
Break(h) ==
    /\ handler[h] # Waiting
    /\ message' = [m \in Messages |->
                      IF handler[h].op = "send" /\ m \in handler[h].messages
                      THEN [message[m] EXCEPT !.state = "gone"] ELSE message[m]]
    /\ End(h)
    /\ UNCHANGED <<chat, rows, unsent, crossed>>

MessagingNext ==
    \/ \E u \in Chatters, P \in SUBSET Chatters : CreateGroup(u, P)
    \/ \E u \in Chatters, c \in Chats : MarkRead(u, c)
    \/ \E h \in Handlers, u \in Chatters :
          \/ \E v \in Chatters : CreatePairLoad(h, u, v)
          \/ \E m \in Messages : UnsendLoad(h, u, m)
          \/ \E c \in Chats :
                \/ LeaveChatLoad(h, u, c)
                \/ \E P \in SUBSET Chatters : AddToGroupLoad(h, u, c, P)
                \/ \E m \in Messages : SendLoad(h, u, c, m)
    \/ \E h \in Handlers :
          \/ CreatePair(h) \/ Add(h) \/ Leave(h) \/ Send(h) \/ Unsend(h)
          \/ Break(h)

MessagingSpec == MessagingInit /\ [][MessagingNext]_messagingVars

-----------------------------------------------------------------------------
(* Properties.                                                             *)

\* Two residents share at most one conversation, a conversation is there as
\* long as it has participants, and nobody unsends what has been read
\* (dm.py:348, 258, 655), unless two requests had both checked before either
\* wrote.
ChatsAreSound ==
    /\ \A u, v \in Chatters :
          u # v /\ {u, v} \notin crossed => Cardinality(PairChatsOf(u, v)) <= 1
    /\ \A c \in Chats \ crossed : Live(c) => Participants(c) # {}
    /\ unsent \subseteq crossed
=============================================================================
