---------------------------- MODULE LiveUpdates -----------------------------
(***************************************************************************)
(* Events for connected residents (client/core/events.py, routes/events.py *)
(* and core/notifications.py).                                             *)
(*                                                                         *)
(* A worker publishes with a NOTIFY of the database, which hands the event *)
(* to every connection that listens at that moment, in one order.  Each    *)
(* worker that has connected has a task which holds such a connection and  *)
(* appends what arrives to the queues of the streams its clients opened.   *)
(* A notice is an event that is also kept in the resident's inbox.         *)
(***************************************************************************)
EXTENDS Integers, Sequences, FiniteSets, SequencesExt

CONSTANTS
    Workers,        \* processes of the service
    Listeners,      \* ids of listening connections: a bound on those ever made
    Streams,        \* ids of event streams
    Audience,       \* residents
    Everybody,      \* the addressee of a broadcast
    MaxEvents       \* bound on the events ever published

ASSUME EventsAreBounded == MaxEvents \in Nat

VARIABLES
    pool,           \* the workers with a db_pool
    listener,       \* the connections of the listening tasks
    stream,         \* the queues of the open streams
    events,         \* what has been published, in order: an event to a resident
    inbox,          \* the notifications table, one row to each resident
    telling         \* workers with a notice kept and not told yet

liveVars == <<pool, listener, stream, events, inbox, telling>>

-----------------------------------------------------------------------------
Numbers == 1..MaxEvents

Event == [to : Audience \cup {Everybody}, notice : BOOLEAN]

NoListener == [state |-> "none"]
Listener == [state : {"starting", "up", "down"}, at : Workers, backlog : Seq(Numbers)]

\* due are the events that were published with a listener of its worker up.
Closed == [state |-> "closed"]
Stream == [state : {"open"}, at : Workers, of : Audience, queue : Seq(Numbers),
           due : SUBSET Numbers]

LiveTypeOK ==
    /\ pool \subseteq Workers
    /\ listener \in [Listeners -> {NoListener} \cup Listener]
    /\ stream \in [Streams -> {Closed} \cup Stream]
    /\ events \in Seq(Event) /\ Len(events) <= MaxEvents
    /\ inbox \in [Audience -> {"none", "unread", "read"}]
    /\ telling \subseteq Workers \X Audience

LiveInit ==
    /\ pool = {}
    /\ listener = [l \in Listeners |-> NoListener]
    /\ stream = [s \in Streams |-> Closed]
    /\ events = <<>>
    /\ inbox = [u \in Audience |-> "none"]
    /\ telling = {}

Listening == {l \in Listeners : listener[l].state = "up"}
Open(s) == stream[s] # Closed
Unmade(l) == listener[l] = NoListener

-----------------------------------------------------------------------------
\* The first publish or subscribe of a worker connects.  No connection is opened
\* yet (min_size is 0), so that connect() never hands over to another task: the
\* pool is set and the listening task is scheduled in one step.
MustConnectAlways(w) == TRUE
MustConnect(w) == w \notin pool

Connect(w) ==
    /\ MustConnect(w)
    /\ pool' = pool \cup {w}
    /\ \E l \in Listeners :
          /\ Unmade(l)
          /\ listener' = [listener EXCEPT ![l] = [state |-> "starting", at |-> w,
                                                  backlog |-> <<>>]]
    /\ UNCHANGED <<stream, events, inbox, telling>>

ListenerStarts(l) ==
    /\ listener[l].state = "starting"
    /\ listener' = [listener EXCEPT ![l].state = "up"]
    /\ UNCHANGED <<pool, stream, events, inbox, telling>>

\* The task ends with its connection and is never started again.
ListenerEnds(l) ==
    /\ listener[l].state \in {"starting", "up"}
    /\ listener' = [listener EXCEPT ![l] = [@ EXCEPT !.state = "down", !.backlog = <<>>]]
    /\ stream' = [s \in Streams |->
                     IF Open(s) /\ stream[s].at = listener[l].at
                     THEN [stream[s] EXCEPT !.due = {}] ELSE stream[s]]
    /\ UNCHANGED <<pool, events, inbox, telling>>

-----------------------------------------------------------------------------
For(e, s) == Open(s) /\ e.to \in {stream[s].of, Everybody}

\* pg_notify to everyone who listens at this moment.
Notify(e) ==
    LET n == Len(events) + 1 IN
    /\ n <= MaxEvents
    /\ events' = Append(events, e)
    /\ listener' = [l \in Listeners |->
                       IF l \in Listening
                       THEN [listener[l] EXCEPT !.backlog = Append(@, n)] ELSE listener[l]]
    /\ stream' = [s \in Streams |->
                     IF For(e, s) /\ \E l \in Listening : listener[l].at = stream[s].at
                     THEN [stream[s] EXCEPT !.due = @ \cup {n}] ELSE stream[s]]

\* A publish the database refuses is logged and given up, and changes nothing.
Publish(w, u) ==
    /\ w \in pool
    /\ Notify([to |-> u, notice |-> FALSE])
    /\ UNCHANGED <<pool, inbox, telling>>

Gets(s, n, w) == For(events[n], s) /\ stream[s].at = w

\* _handle_notification: the event goes to the matching queues of the worker.
Dispatch(l) ==
    /\ listener[l].state = "up" /\ listener[l].backlog # <<>>
    /\ LET n == Head(listener[l].backlog) IN
       stream' = [s \in Streams |->
                     IF Gets(s, n, listener[l].at)
                     THEN [stream[s] EXCEPT !.queue = Append(@, n)] ELSE stream[s]]
    /\ listener' = [listener EXCEPT ![l].backlog = Tail(@)]
    /\ UNCHANGED <<pool, events, inbox, telling>>

Subscribe(w, u, s) ==
    /\ w \in pool
    /\ ~Open(s)
    /\ stream' = [stream EXCEPT ![s] = [state |-> "open", at |-> w, of |-> u,
                                        queue |-> <<>>, due |-> {}]]
    /\ UNCHANGED <<pool, listener, events, inbox, telling>>

Unsubscribe(s) ==
    /\ Open(s)
    /\ stream' = [stream EXCEPT ![s] = Closed]
    /\ UNCHANGED <<pool, listener, events, inbox, telling>>

\* A worker that dies takes its streams and its listeners along.
Restart(w) ==
    /\ pool' = pool \ {w}
    /\ listener' = [l \in Listeners |->
                       IF listener[l] # NoListener /\ listener[l].at = w
                       THEN [listener[l] EXCEPT !.state = "down", !.backlog = <<>>]
                       ELSE listener[l]]
    /\ stream' = [s \in Streams |->
                     IF Open(s) /\ stream[s].at = w THEN Closed ELSE stream[s]]
    /\ telling' = {t \in telling : t[1] # w}
    /\ UNCHANGED <<events, inbox>>

-----------------------------------------------------------------------------
(* Notices, one to each resident: kept in the inbox, then told.            *)

\* Without a row in the inbox the notice is not told live.
Keep(w, u) ==
    /\ inbox[u] = "none"
    /\ inbox' = [inbox EXCEPT ![u] = "unread"]
    /\ telling' = telling \cup {<<w, u>>}
    /\ UNCHANGED <<pool, listener, stream, events>>

ToTell(w, u) == <<w, u>> \in telling

\* A NOTIFY that fails is logged, and the notice is not told again.
Tell(w, u) ==
    /\ w \in pool /\ ToTell(w, u)
    /\ telling' = telling \ {<<w, u>>}
    /\ Notify([to |-> u, notice |-> TRUE]) \/ UNCHANGED <<events, listener, stream>>
    /\ UNCHANGED <<pool, inbox>>

\* One notice or all of them.
Read(u) ==
    /\ inbox[u] = "unread"
    /\ inbox' = [inbox EXCEPT ![u] = "read"]
    /\ UNCHANGED <<pool, listener, stream, events, telling>>

LiveNext ==
    \/ \E w \in Workers :
          \/ Connect(w) \/ Restart(w)
          \/ \E u \in Audience \cup {Everybody} : Publish(w, u)
          \/ \E u \in Audience : Keep(w, u) \/ Tell(w, u)
          \/ \E u \in Audience, s \in Streams : Subscribe(w, u, s)
    \/ \E l \in Listeners : ListenerStarts(l) \/ ListenerEnds(l) \/ Dispatch(l)
    \/ \E s \in Streams : Unsubscribe(s)
    \/ \E u \in Audience : Read(u)

\* The event loop of a worker runs the callbacks of its connections.
LiveFairness == \A l \in Listeners : WF_liveVars(Dispatch(l))

LiveSpec == LiveInit /\ [][LiveNext]_liveVars /\ LiveFairness

-----------------------------------------------------------------------------
(* Properties.                                                             *)

\* A stream gets what was published for its resident or for everybody, once, in
\* the order of publication (events.py:83-113), whatever workers restart and
\* listening tasks end.  What it gets of a notice is in the inbox as well: none is
\* told that was not stored (notifications.py:64-79).
StreamsAreInOrder ==
    \A s \in Streams : Open(s) =>
        LET q == stream[s].queue IN
        /\ \A i \in DOMAIN q :
              LET e == events[q[i]] IN
              e.to \in {stream[s].of, Everybody} /\ (e.notice => inbox[e.to] # "none")
        /\ \A i, j \in DOMAIN q : i < j => q[i] < q[j]

\* What is published while a stream is open and a connection of its worker
\* listens comes to the stream, as long as no listening task of the worker
\* ends and the stream stays open.
DueIsDelivered ==
    \A s \in Streams, n \in Numbers :
        (Open(s) /\ n \in stream[s].due) ~>
            (Open(s) /\ n \in stream[s].due => n \in ToSet(stream[s].queue))
=============================================================================
