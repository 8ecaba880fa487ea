-------------------------- MODULE OperationsProofs --------------------------
(***************************************************************************)
(* What holds of the streams of a resident, of the bills of a recurring setup*)
(* and of the wallet setup, for any number of workers, processes, units,   *)
(* events, submissions and any calendar.                                   *)
(***************************************************************************)
EXTENDS MCOperations, SumTheorems, SequenceTheorems, TLAPS

-----------------------------------------------------------------------------
(* LiveUpdates.                                                            *)

\* Numbers in the order of the events.
InOrder(q) == \A i, j \in DOMAIN q : i < j => q[i] < q[j]

\* Numbers of events are positive numbers.
LEMMA EventNumbers == Numbers \subseteq Nat /\ \A n \in Numbers : n > 0 /\ n <= MaxEvents
  BY EventsAreBounded DEF Numbers

\* What comes last goes to the end.
LEMMA InOrderAppend ==
    ASSUME NEW q \in Seq(Numbers), NEW n \in Numbers, InOrder(q),
           \A k \in ToSet(q) : k < n
    PROVE  InOrder(Append(q, n))
<1>1. /\ Append(q, n) \in Seq(Numbers) /\ Len(q) \in Nat
      /\ DOMAIN q = 1..Len(q) /\ DOMAIN Append(q, n) = 1..Len(q) + 1
      /\ \A i \in 1..Len(q) : Append(q, n)[i] = q[i]
      /\ Append(q, n)[Len(q) + 1] = n
  BY AppendProperties
<1>2. InOrder(Append(q, n))
  <2> SUFFICES ASSUME NEW i \in 1..Len(q) + 1, NEW j \in 1..Len(q) + 1, i < j
               PROVE  Append(q, n)[i] < Append(q, n)[j]
    BY <1>1 DEF InOrder
  <2>1. i \in 1..Len(q)  BY <1>1
  <2>2. CASE j = Len(q) + 1
    <3>1. q[i] \in ToSet(q)  BY <1>1, <2>1 DEF ToSet
    <3> QED  BY <1>1, <2>1, <2>2, <3>1
  <2>3. CASE j # Len(q) + 1
    <3>1. j \in 1..Len(q)  BY <1>1, <2>3
    <3> QED  BY <1>1, <2>1, <3>1 DEF InOrder
  <2> QED  BY <2>2, <2>3
<1> QED  BY <1>2

\* What a sequence holds once something is appended.
LEMMA AppendHolds ==
    ASSUME NEW S, NEW q \in Seq(S), NEW n \in S
    PROVE  ToSet(Append(q, n)) = ToSet(q) \cup {n}
<1>1. /\ Len(q) \in Nat
      /\ DOMAIN q = 1..Len(q) /\ DOMAIN Append(q, n) = 1..Len(q) + 1
      /\ \A i \in 1..Len(q) : Append(q, n)[i] = q[i]
      /\ Append(q, n)[Len(q) + 1] = n
  BY AppendProperties, LenProperties
<1>2. 1..Len(q) + 1 = (1..Len(q)) \cup {Len(q) + 1}  BY <1>1
<1> QED  BY <1>1, <1>2 DEF ToSet

\* The head of numbers in order is the least of them, and the rest is in order.
LEMMA InOrderTail ==
    ASSUME NEW S, S \subseteq Nat, NEW q \in Seq(S), q # <<>>, InOrder(q)
    PROVE  /\ Head(q) \in ToSet(q) /\ Head(q) \in S
           /\ Tail(q) \in Seq(S) /\ InOrder(Tail(q)) /\ ToSet(Tail(q)) \subseteq ToSet(q)
           /\ \A k \in ToSet(Tail(q)) : Head(q) < k
<1>1. /\ Len(q) \in Nat /\ Len(q) >= 1 /\ DOMAIN q = 1..Len(q)
      /\ Tail(q) \in Seq(S) /\ Len(Tail(q)) = Len(q) - 1 /\ DOMAIN Tail(q) = 1..Len(q) - 1
      /\ Head(q) = q[1]
      /\ \A i \in 1..Len(q) - 1 : Tail(q)[i] = q[i + 1]
  BY HeadTailProperties
<1>2. \A i \in 1..Len(q) - 1 : i + 1 \in 1..Len(q) /\ 1 < i + 1 /\ 1 \in 1..Len(q)
  BY <1>1
<1>3. Head(q) \in ToSet(q) /\ Head(q) \in S  BY <1>1 DEF ToSet
<1>4. InOrder(Tail(q))
  <2> SUFFICES ASSUME NEW i \in 1..Len(q) - 1, NEW j \in 1..Len(q) - 1, i < j
               PROVE  Tail(q)[i] < Tail(q)[j]
    BY <1>1 DEF InOrder
  <2>1. i + 1 \in 1..Len(q) /\ j + 1 \in 1..Len(q) /\ i + 1 < j + 1  BY <1>1
  <2> QED  BY <1>1, <2>1 DEF InOrder
<1>5. ToSet(Tail(q)) \subseteq ToSet(q)  BY <1>1, <1>2 DEF ToSet
<1>6. \A k \in ToSet(Tail(q)) : Head(q) < k  BY <1>1, <1>2 DEF ToSet, InOrder
<1> QED  BY <1>1, <1>3, <1>4, <1>5, <1>6

\* Nothing is in order.
LEMMA InOrderEmpty == InOrder(<<>>) /\ ToSet(<<>>) = {}
  BY DEF InOrder, ToSet

\* A listener task that was made; that runs; that runs at a worker.
Made(l) == listener[l] # NoListener
Running(l) == listener[l].state \in {"starting", "up"}
RunsAt(l, w) == Running(l) /\ listener[l].at = w

\* A backlog is in the order of the events, and gone with its connection.
BacklogsAreInOrder ==
    \A l \in Listeners : Made(l) =>
        /\ InOrder(listener[l].backlog) /\ ToSet(listener[l].backlog) \subseteq 1..Len(events)
        /\ ~Running(l) => listener[l].backlog = <<>>

\* A stream has events for its resident or for everybody.
QueuesFit ==
    \A s \in Streams : Open(s) => \A n \in ToSet(stream[s].queue) :
        n \in 1..Len(events) /\ events[n].to \in {stream[s].of, Everybody}

\* A notice that was told, or will be, is kept.
NoticesAreKept ==
    /\ \A n \in 1..Len(events) : events[n].notice => /\ events[n].to \in Audience
                                                     /\ inbox[events[n].to] # "none"
    /\ \A t \in telling : inbox[t[2]] # "none"

\* A worker has one listening task that runs, and only with a pool.
OneTask ==
    \A w \in Workers : \A k, l \in Listeners :
        RunsAt(k, w) /\ RunsAt(l, w) => k = l /\ w \in pool

\* A stream's queue is in order and comes before what its worker's listener has
\* still to hand out.
QueuesAreBehind ==
    \A s \in Streams : Open(s) =>
        /\ InOrder(stream[s].queue)
        /\ \A l \in Listeners : Made(l) /\ listener[l].at = stream[s].at =>
              \A i \in ToSet(stream[s].queue), n \in ToSet(listener[l].backlog) : i < n

\* The inductive invariant of the streams.
LiveInv ==
    /\ LiveTypeOK
    /\ BacklogsAreInOrder /\ QueuesFit /\ NoticesAreKept /\ OneTask /\ QueuesAreBehind

\* A listening connection and an open stream are records of their kind.
LEMMA LiveRecords ==
    ASSUME LiveTypeOK
    PROVE  /\ \A l \in Listeners : Made(l) => listener[l] \in Listener
           /\ \A l \in Listeners : listener[l].state # "none" => Made(l)
           /\ \A l \in Listeners : Running(l) => Made(l)
           /\ \A s \in Streams : Open(s) => stream[s] \in Stream
           /\ NoListener \notin Listener /\ Closed \notin Stream
BY DEF LiveTypeOK, Listener, NoListener, Stream, Closed, Made, Running, Open

\* It holds at the start.
LEMMA LiveInvInit == LiveInit => LiveInv
<1> SUFFICES ASSUME LiveInit PROVE LiveInv
  OBVIOUS
<1>1. LiveTypeOK
  <2>1. Len(events) = 0 /\ events \in Seq(Event)  BY DEF LiveInit
  <2> QED  BY <2>1, EventsAreBounded DEF LiveInit, LiveTypeOK
<1>2. /\ \A l \in Listeners : ~Made(l) /\ ~Running(l)
      /\ \A s \in Streams : ~Open(s)
      /\ 1..Len(events) = {} /\ telling = {}
  BY DEF LiveInit, Made, Running, NoListener, Open
<1>3. OneTask  BY <1>2 DEF OneTask, RunsAt
<1> QED
  BY <1>1, <1>2, <1>3 DEF LiveInv, BacklogsAreInOrder, QueuesFit, NoticesAreKept, QueuesAreBehind

\* Listeners and streams that stay as they are.
LEMMA QuietStep ==
    ASSUME LiveInv, UNCHANGED <<listener, stream, events>>
    PROVE  BacklogsAreInOrder' /\ QueuesFit' /\ QueuesAreBehind'
BY DEF LiveInv, BacklogsAreInOrder, QueuesFit, QueuesAreBehind, Made, Running, Open

-----------------------------------------------------------------------------
\* A listener changes and no stream does: its backlog was empty, or goes.
LEMMA NewTaskKeeps ==
    ASSUME LiveInv, UNCHANGED <<stream, events>>,
           \A l \in Listeners : listener'[l] = listener[l] \/ listener'[l].backlog = <<>>
    PROVE  BacklogsAreInOrder' /\ QueuesFit' /\ QueuesAreBehind'
<1>1. BacklogsAreInOrder'
  BY InOrderEmpty DEF LiveInv, BacklogsAreInOrder, Made, Running
<1>2. QueuesFit'  BY DEF LiveInv, QueuesFit, Open
<1>3. QueuesAreBehind'
  BY InOrderEmpty DEF LiveInv, QueuesAreBehind, Made, Open
<1> QED  BY <1>1, <1>2, <1>3

\* The pool is set, and a listening task is scheduled.
LEMMA ConnectKeeps ==
    ASSUME LiveInv, NEW w \in Workers, Connect(w)
    PROVE  LiveInv'
<1>t. LiveTypeOK  BY DEF LiveInv
<1> DEFINE new == [state |-> "starting", at |-> w, backlog |-> <<>>]
<1>1. PICK l \in Listeners : Unmade(l) /\ listener' = [listener EXCEPT ![l] = new]
  BY DEF Connect
<1>2. /\ w \notin pool /\ pool' = pool \cup {w}
      /\ UNCHANGED <<stream, events, inbox, telling>>
  BY DEF Connect, MustConnect
<1>3. new \in Listener /\ new.at = w /\ new.state = "starting" /\ new.backlog = <<>>
  <2>1. <<>> \in Seq(Numbers)  BY EmptySeq
  <2> QED  BY <2>1 DEF Listener
<1> HIDE DEF new
<1>4. /\ listener'[l] = new /\ listener' \in [Listeners -> {NoListener} \cup Listener]
      /\ \A k \in Listeners \ {l} : listener'[k] = listener[k]
  BY <1>t, <1>1, <1>3 DEF LiveTypeOK
<1>5. LiveTypeOK'  BY <1>t, <1>2, <1>4 DEF LiveTypeOK
<1>6. BacklogsAreInOrder' /\ QueuesFit' /\ QueuesAreBehind'
  BY <1>2, <1>3, <1>4, NewTaskKeeps
<1>7. NoticesAreKept'  BY <1>2 DEF LiveInv, NoticesAreKept
<1>8. OneTask'
  <2>1. \A k \in Listeners : ~RunsAt(k, w)  BY <1>2 DEF LiveInv, OneTask
  <2>2. \A k \in Listeners \ {l} : \A v : RunsAt(k, v)' <=> RunsAt(k, v)
    BY <1>4 DEF Running, RunsAt
  <2>3. \A v : RunsAt(l, v)' => v = w  BY <1>3, <1>4 DEF RunsAt
  <2> QED  BY <1>2, <2>1, <2>2, <2>3 DEF LiveInv, OneTask
<1> QED  BY <1>5, <1>6, <1>7, <1>8 DEF LiveInv

\* Tasks that start, or end with their connection, leave the others alone.
LEMMA TasksStayOne ==
    ASSUME LiveInv, UNCHANGED pool,
           \A l \in Listeners : Running(l)' => Running(l) /\ listener'[l].at = listener[l].at
    PROVE  OneTask'
<1>1. \A w : \A l \in Listeners : RunsAt(l, w)' => RunsAt(l, w)  BY DEF RunsAt
<1> QED  BY <1>1 DEF LiveInv, OneTask

\* The task listens.
LEMMA ListenerStartsKeeps ==
    ASSUME LiveInv, NEW l \in Listeners, ListenerStarts(l)
    PROVE  LiveInv'
<1>t. LiveTypeOK  BY DEF LiveInv
<1>1. /\ listener[l].state = "starting" /\ Made(l) /\ Running(l) /\ listener[l] \in Listener
      /\ listener' = [listener EXCEPT ![l].state = "up"]
      /\ UNCHANGED <<pool, stream, events, inbox, telling>>
  BY <1>t, LiveRecords DEF ListenerStarts, Running
<1>2. /\ listener'[l] \in Listener /\ listener'[l].at = listener[l].at
      /\ listener'[l].backlog = listener[l].backlog /\ listener'[l].state = "up"
      /\ \A k \in Listeners \ {l} : listener'[k] = listener[k]
      /\ listener' \in [Listeners -> {NoListener} \cup Listener]
  <2> DEFINE new == [listener[l] EXCEPT !.state = "up"]
  <2>1. /\ new \in Listener /\ new.at = listener[l].at /\ new.backlog = listener[l].backlog
        /\ new.state = "up"
    BY <1>1 DEF Listener
  <2>2. listener' = [listener EXCEPT ![l] = new]  BY <1>1
  <2> HIDE DEF new
  <2> QED  BY <1>t, <2>1, <2>2 DEF LiveTypeOK
<1>3. LiveTypeOK'  BY <1>t, <1>1, <1>2 DEF LiveTypeOK
<1>4. \A k \in Listeners : (Made(k)' <=> Made(k)) /\ (Running(k)' <=> Running(k))
                           /\ (Made(k) => listener'[k].at = listener[k].at
                                          /\ listener'[k].backlog = listener[k].backlog)
  BY <1>t, <1>1, <1>2, LiveRecords DEF Made, Running
<1>5. BacklogsAreInOrder'  BY <1>1, <1>4 DEF LiveInv, BacklogsAreInOrder
<1>6. QueuesFit'  BY <1>1 DEF LiveInv, QueuesFit, Open
<1>7. QueuesAreBehind'  BY <1>1, <1>4 DEF LiveInv, QueuesAreBehind, Open
<1>8. NoticesAreKept'  BY <1>1 DEF LiveInv, NoticesAreKept
<1>9. OneTask'  BY <1>t, <1>1, <1>4, LiveRecords, TasksStayOne
<1> QED  BY <1>3, <1>5, <1>6, <1>7, <1>8, <1>9 DEF LiveInv

\* The task ends with its connection.
LEMMA ListenerEndsKeeps ==
    ASSUME LiveInv, NEW l \in Listeners, ListenerEnds(l)
    PROVE  LiveInv'
<1>t. LiveTypeOK  BY DEF LiveInv
<1>1. /\ Running(l) /\ Made(l) /\ listener[l] \in Listener
      /\ listener' = [listener EXCEPT ![l] = [listener[l] EXCEPT !.state = "down", !.backlog = <<>>]]
      /\ stream' = [s \in Streams |-> IF Open(s) /\ stream[s].at = listener[l].at
                                      THEN [stream[s] EXCEPT !.due = {}] ELSE stream[s]]
      /\ UNCHANGED <<pool, events, inbox, telling>>
  BY <1>t, LiveRecords DEF ListenerEnds, Running
<1>2. /\ listener'[l] \in Listener /\ listener'[l].at = listener[l].at
      /\ listener'[l].backlog = <<>> /\ listener'[l].state = "down"
      /\ \A k \in Listeners \ {l} : listener'[k] = listener[k]
      /\ listener' \in [Listeners -> {NoListener} \cup Listener]
  <2> DEFINE new == [listener[l] EXCEPT !.state = "down", !.backlog = <<>>]
  <2>1. new \in Listener /\ new.at = listener[l].at /\ new.backlog = <<>> /\ new.state = "down"
    <3>1. <<>> \in Seq(Numbers)  BY EmptySeq
    <3> QED  BY <1>1, <3>1 DEF Listener
  <2>2. listener' = [listener EXCEPT ![l] = new]  BY <1>1
  <2> HIDE DEF new
  <2> QED  BY <1>t, <2>1, <2>2 DEF LiveTypeOK
<1>3. /\ stream' \in [Streams -> {Closed} \cup Stream]
      /\ \A s \in Streams : /\ Open(s)' <=> Open(s)
                            /\ Open(s) => /\ stream'[s].at = stream[s].at
                                          /\ stream'[s].of = stream[s].of
                                          /\ stream'[s].queue = stream[s].queue
  <2>1. \A s \in Streams : Open(s) => stream[s] \in Stream  BY <1>t, LiveRecords
  <2>2. \A s \in Streams : /\ Open(s) => stream'[s] \in Stream /\ stream'[s].at = stream[s].at
                                         /\ stream'[s].of = stream[s].of
                                         /\ stream'[s].queue = stream[s].queue
                           /\ ~Open(s) => stream'[s] = Closed
    BY <1>1, <2>1 DEF Stream, Open
  <2>3. stream' = [s \in Streams |-> stream'[s]]  BY <1>1
  <2> QED  BY <1>t, <2>2, <2>3, LiveRecords DEF Open
<1>4. LiveTypeOK'  BY <1>t, <1>1, <1>2, <1>3 DEF LiveTypeOK
<1>5. BacklogsAreInOrder'
  BY <1>1, <1>2, InOrderEmpty DEF LiveInv, BacklogsAreInOrder, Made, Running
<1>6. QueuesFit'  BY <1>1, <1>3 DEF LiveInv, QueuesFit
<1>7. QueuesAreBehind'
  BY <1>1, <1>2, <1>3, InOrderEmpty DEF LiveInv, QueuesAreBehind, Made
<1>8. NoticesAreKept'  BY <1>1 DEF LiveInv, NoticesAreKept
<1>9. OneTask'
  <2>1. \A k \in Listeners : Running(k)' => Running(k) /\ listener'[k].at = listener[k].at
    BY <1>2 DEF Running
  <2> QED  BY <1>1, <2>1, TasksStayOne
<1> QED  BY <1>4, <1>5, <1>6, <1>7, <1>8, <1>9 DEF LiveInv

-----------------------------------------------------------------------------
\* What a NOTIFY does: the event is the last one, and goes to the end of the
\* backlog of whoever listens.
LEMMA NotifyKeeps ==
    ASSUME LiveInv, NEW e \in Event, Notify(e)
    PROVE  /\ events' \in Seq(Event) /\ Len(events') <= MaxEvents
           /\ Len(events) \in Nat /\ Len(events') = Len(events) + 1
           /\ \A n \in 1..Len(events) : events'[n] = events[n]
           /\ events'[Len(events) + 1] = e
           /\ listener' \in [Listeners -> {NoListener} \cup Listener]
           /\ \A l \in Listeners : (Running(l)' <=> Running(l))
                                   /\ (Made(l) => listener'[l].at = listener[l].at)
           /\ stream' \in [Streams -> {Closed} \cup Stream]
           /\ BacklogsAreInOrder' /\ QueuesFit' /\ QueuesAreBehind'
<1>t. LiveTypeOK  BY DEF LiveInv
<1>n. PICK n \in Numbers : n = Len(events) + 1
  <2>1. Len(events) \in Nat  BY <1>t, LenProperties DEF LiveTypeOK
  <2> QED  BY <2>1, EventsAreBounded DEF Notify, Numbers
<1>1. /\ events' = Append(events, e) /\ n <= MaxEvents
      /\ listener' = [l \in Listeners |->
                         IF l \in Listening
                         THEN [listener[l] EXCEPT !.backlog = Append(listener[l].backlog, n)]
                         ELSE listener[l]]
      /\ stream' = [s \in Streams |->
                       IF For(e, s) /\ \E l \in Listening : listener[l].at = stream[s].at
                       THEN [stream[s] EXCEPT !.due = stream[s].due \cup {n}] ELSE stream[s]]
  BY <1>n DEF Notify
<1>2. /\ events' \in Seq(Event) /\ Len(events) \in Nat /\ Len(events') = n
      /\ \A i \in 1..Len(events) : events'[i] = events[i] /\ i < n
      /\ events'[n] = e /\ n = Len(events) + 1
      /\ Numbers \subseteq Nat
  BY <1>t, <1>n, <1>1, AppendProperties, LenProperties, EventNumbers DEF LiveTypeOK
<1>3. \A l \in Listeners : l \in Listening =>
         /\ Made(l) /\ listener[l] \in Listener
         /\ listener'[l] \in Listener /\ listener'[l].at = listener[l].at
         /\ listener'[l].state = listener[l].state
         /\ listener'[l].backlog = Append(listener[l].backlog, n)
         /\ InOrder(listener'[l].backlog)
         /\ ToSet(listener'[l].backlog) = ToSet(listener[l].backlog) \cup {n}
  <2> SUFFICES ASSUME NEW l \in Listeners, l \in Listening
               PROVE  /\ Made(l) /\ listener[l] \in Listener
                      /\ listener'[l] \in Listener /\ listener'[l].at = listener[l].at
                      /\ listener'[l].state = listener[l].state
                      /\ listener'[l].backlog = Append(listener[l].backlog, n)
                      /\ InOrder(listener'[l].backlog)
                      /\ ToSet(listener'[l].backlog) = ToSet(listener[l].backlog) \cup {n}
    OBVIOUS
  <2>1. Made(l) /\ listener[l] \in Listener /\ listener[l].backlog \in Seq(Numbers)
    <3>1. Made(l) /\ listener[l] \in Listener  BY <1>t, LiveRecords DEF Listening
    <3> QED  BY <3>1 DEF Listener
  <2>2. InOrder(listener[l].backlog) /\ \A k \in ToSet(listener[l].backlog) : k < n
    BY <1>2, <2>1 DEF LiveInv, BacklogsAreInOrder
  <2> DEFINE q == Append(listener[l].backlog, n)
  <2>3. /\ q \in Seq(Numbers) /\ InOrder(q) /\ ToSet(q) = ToSet(listener[l].backlog) \cup {n}
    BY <2>1, <2>2, InOrderAppend, AppendHolds, AppendProperties
  <2>4. listener'[l] = [listener[l] EXCEPT !.backlog = q]  BY <1>1
  <2> HIDE DEF q
  <2>5. /\ listener'[l] \in Listener /\ listener'[l].at = listener[l].at
        /\ listener'[l].state = listener[l].state /\ listener'[l].backlog = q
    BY <2>1, <2>3, <2>4 DEF Listener
  <2> QED  BY <2>1, <2>3, <2>5 DEF q
<1>4. \A l \in Listeners : l \notin Listening => listener'[l] = listener[l]  BY <1>1
<1>5. listener' \in [Listeners -> {NoListener} \cup Listener]
  <2>1. listener' = [l \in Listeners |-> listener'[l]]  BY <1>1
  <2>2. \A l \in Listeners : listener'[l] \in {NoListener} \cup Listener
    BY <1>t, <1>3, <1>4 DEF LiveTypeOK
  <2> QED  BY <2>1, <2>2
<1>6. \A l \in Listeners : /\ Running(l)' <=> Running(l)
                           /\ Made(l)' <=> Made(l)
                           /\ Made(l) => listener'[l].at = listener[l].at
  BY <1>t, <1>3, <1>4, LiveRecords DEF Made, Running
<1>7. BacklogsAreInOrder'
  <2>1. \A l \in Listeners : l \in Listening => Running(l)  BY DEF Listening, Running
  <2>2. 1..Len(events') = (1..Len(events)) \cup {n}  BY <1>2
  <2> QED  BY <1>3, <1>4, <1>6, <2>1, <2>2 DEF LiveInv, BacklogsAreInOrder
<1>8. /\ stream' \in [Streams -> {Closed} \cup Stream]
      /\ \A s \in Streams : /\ Open(s)' <=> Open(s)
                            /\ Open(s) => /\ stream'[s].at = stream[s].at
                                          /\ stream'[s].of = stream[s].of
                                          /\ stream'[s].queue = stream[s].queue
  <2>1. \A s \in Streams : Open(s) => stream[s] \in Stream  BY <1>t, LiveRecords
  <2>2. \A s \in Streams : /\ Open(s) => stream'[s] \in Stream /\ stream'[s].at = stream[s].at
                                         /\ stream'[s].of = stream[s].of
                                         /\ stream'[s].queue = stream[s].queue
                           /\ ~Open(s) => stream'[s] = Closed
    BY <1>1, <2>1 DEF Stream, Open, For
  <2>3. stream' = [s \in Streams |-> stream'[s]]  BY <1>1
  <2> QED  BY <1>t, <2>2, <2>3, LiveRecords DEF Open
<1>9. QueuesFit'
  <2>1. \A i \in 1..Len(events) : i \in 1..Len(events') /\ events'[i] = events[i]  BY <1>2
  <2> QED  BY <1>8, <2>1 DEF LiveInv, QueuesFit
<1>10. QueuesAreBehind'
  <2>1. \A s \in Streams : Open(s) => \A i \in ToSet(stream[s].queue) : i < n
    BY <1>2 DEF LiveInv, QueuesFit
  <2> QED  BY <1>3, <1>4, <1>6, <1>8, <2>1 DEF LiveInv, QueuesAreBehind
<1> QED  BY <1>1, <1>2, <1>5, <1>6, <1>7, <1>8, <1>9, <1>10

\* Something that is not kept is told.
LEMMA PublishKeeps ==
    ASSUME LiveInv, NEW w \in Workers, NEW u \in Audience \cup {Everybody}, Publish(w, u)
    PROVE  LiveInv'
<1>t. LiveTypeOK  BY DEF LiveInv
<1> DEFINE e == [to |-> u, notice |-> FALSE]
<1>1. e \in Event /\ ~e.notice  BY DEF Event
<1>2. Notify(e) /\ UNCHANGED <<pool, inbox, telling>>  BY DEF Publish
<1> HIDE DEF e
<1>3. /\ events' \in Seq(Event) /\ Len(events') <= MaxEvents
      /\ Len(events) \in Nat /\ Len(events') = Len(events) + 1
      /\ \A n \in 1..Len(events) : events'[n] = events[n]
      /\ events'[Len(events) + 1] = e
      /\ listener' \in [Listeners -> {NoListener} \cup Listener]
      /\ \A l \in Listeners : (Running(l)' <=> Running(l))
                              /\ (Made(l) => listener'[l].at = listener[l].at)
      /\ stream' \in [Streams -> {Closed} \cup Stream]
      /\ BacklogsAreInOrder' /\ QueuesFit' /\ QueuesAreBehind'
  BY <1>1, <1>2, NotifyKeeps
<1>4. LiveTypeOK'  BY <1>t, <1>2, <1>3 DEF LiveTypeOK
<1>5. OneTask'  BY <1>t, <1>2, <1>3, LiveRecords, TasksStayOne
<1>6. NoticesAreKept'
  <2>1. 1..Len(events') = (1..Len(events)) \cup {Len(events) + 1}  BY <1>3
  <2> QED  BY <1>1, <1>2, <1>3, <2>1 DEF LiveInv, NoticesAreKept
<1> QED  BY <1>3, <1>4, <1>5, <1>6 DEF LiveInv

\* A notice that is kept is told, or not.
LEMMA TellKeeps ==
    ASSUME LiveInv, NEW w \in Workers, NEW u \in Audience, Tell(w, u)
    PROVE  LiveInv'
<1>t. LiveTypeOK  BY DEF LiveInv
<1> DEFINE e == [to |-> u, notice |-> TRUE]
<1>1. e \in Event /\ e.to = u  BY DEF Event
<1>2. /\ Notify(e) \/ UNCHANGED <<events, listener, stream>>
      /\ UNCHANGED <<pool, inbox>>
      /\ telling' = telling \ {<<w, u>>} /\ <<w, u>> \in telling
  BY DEF Tell, ToTell
<1> HIDE DEF e
<1>3. inbox[u] # "none"  BY <1>2 DEF LiveInv, NoticesAreKept
<1>4. CASE UNCHANGED <<events, listener, stream>>
  <2>1. LiveTypeOK'  BY <1>t, <1>2, <1>4 DEF LiveTypeOK
  <2>2. OneTask'  BY <1>2, <1>4 DEF LiveInv, OneTask, RunsAt, Running
  <2>3. NoticesAreKept'  BY <1>2, <1>4 DEF LiveInv, NoticesAreKept
  <2> QED  BY <1>2, <1>4, <2>1, <2>2, <2>3, QuietStep DEF LiveInv
<1>5. CASE Notify(e)
  <2>3. /\ events' \in Seq(Event) /\ Len(events') <= MaxEvents
        /\ Len(events) \in Nat /\ Len(events') = Len(events) + 1
        /\ \A n \in 1..Len(events) : events'[n] = events[n]
        /\ events'[Len(events) + 1] = e
        /\ listener' \in [Listeners -> {NoListener} \cup Listener]
        /\ \A l \in Listeners : (Running(l)' <=> Running(l))
                                /\ (Made(l) => listener'[l].at = listener[l].at)
        /\ stream' \in [Streams -> {Closed} \cup Stream]
        /\ BacklogsAreInOrder' /\ QueuesFit' /\ QueuesAreBehind'
    BY <1>1, <1>2, <1>5, NotifyKeeps
  <2>4. LiveTypeOK'  BY <1>t, <1>2, <2>3 DEF LiveTypeOK
  <2>5. OneTask'  BY <1>t, <1>2, <2>3, LiveRecords, TasksStayOne
  <2>6. NoticesAreKept'
    <3>1. 1..Len(events') = (1..Len(events)) \cup {Len(events) + 1}  BY <2>3
    <3> QED  BY <1>1, <1>2, <1>3, <2>3, <3>1 DEF LiveInv, NoticesAreKept
  <2> QED  BY <2>3, <2>4, <2>5, <2>6 DEF LiveInv
<1> QED  BY <1>2, <1>4, <1>5

\* The oldest event of a backlog goes to the queues it is for.
LEMMA DispatchKeeps ==
    ASSUME LiveInv, NEW l \in Listeners, Dispatch(l)
    PROVE  LiveInv'
<1>t. LiveTypeOK  BY DEF LiveInv
<1>1. /\ Running(l) /\ Made(l) /\ listener[l] \in Listener /\ listener[l].state = "up"
      /\ listener[l].backlog # <<>>
      /\ UNCHANGED <<pool, events, inbox, telling>>
  BY <1>t, LiveRecords DEF Dispatch, Running
<1>b. PICK b \in Seq(Numbers), v \in Workers : b = listener[l].backlog /\ v = listener[l].at
  BY <1>1 DEF Listener
<1>n. /\ Head(b) \in ToSet(b) /\ Head(b) \in Numbers
      /\ Tail(b) \in Seq(Numbers) /\ InOrder(Tail(b)) /\ ToSet(Tail(b)) \subseteq ToSet(b)
      /\ \A k \in ToSet(Tail(b)) : Head(b) < k
      /\ ToSet(b) \subseteq 1..Len(events)
  <2>1. InOrder(b) /\ ToSet(b) \subseteq 1..Len(events)
    BY <1>1, <1>b DEF LiveInv, BacklogsAreInOrder
  <2> QED  BY <1>1, <1>b, <2>1, InOrderTail, EventNumbers
<1>m. PICK n \in Numbers : n = Head(b)  BY <1>n
<1>2. /\ stream' = [s \in Streams |-> IF Gets(s, n, v)
                                      THEN [stream[s] EXCEPT !.queue = Append(stream[s].queue, n)]
                                      ELSE stream[s]]
      /\ listener' = [listener EXCEPT ![l].backlog = Tail(b)]
  BY <1>b, <1>m DEF Dispatch
<1>3. /\ listener'[l] \in Listener /\ listener'[l].at = listener[l].at
      /\ listener'[l].backlog = Tail(b) /\ listener'[l].state = "up"
      /\ \A k \in Listeners \ {l} : listener'[k] = listener[k]
      /\ listener' \in [Listeners -> {NoListener} \cup Listener]
  <2> DEFINE new == [listener[l] EXCEPT !.backlog = Tail(b)]
  <2>1. new \in Listener /\ new.at = listener[l].at /\ new.backlog = Tail(b) /\ new.state = "up"
    BY <1>1, <1>n DEF Listener
  <2>2. listener' = [listener EXCEPT ![l] = new]  BY <1>2
  <2> HIDE DEF new
  <2> QED  BY <1>t, <2>1, <2>2 DEF LiveTypeOK
<1>4. \A k \in Listeners : (Made(k)' <=> Made(k)) /\ (Running(k)' <=> Running(k))
                           /\ (Made(k) => listener'[k].at = listener[k].at)
  BY <1>t, <1>1, <1>3, LiveRecords DEF Made, Running
<1>5. \A s \in Streams : Gets(s, n, v) =>
         /\ Open(s) /\ stream[s].at = v /\ events[n].to \in {stream[s].of, Everybody}
         /\ stream'[s] \in Stream /\ stream'[s].at = v /\ stream'[s].of = stream[s].of
         /\ stream[s].queue \in Seq(Numbers)
         /\ stream'[s].queue = Append(stream[s].queue, n)
  <2> SUFFICES ASSUME NEW s \in Streams, Gets(s, n, v)
               PROVE  /\ Open(s) /\ stream[s].at = v
                      /\ events[n].to \in {stream[s].of, Everybody}
                      /\ stream'[s] \in Stream /\ stream'[s].at = v
                      /\ stream'[s].of = stream[s].of
                      /\ stream[s].queue \in Seq(Numbers)
                      /\ stream'[s].queue = Append(stream[s].queue, n)
    OBVIOUS
  <2>1. Open(s) /\ stream[s].at = v /\ events[n].to \in {stream[s].of, Everybody}
    BY DEF Gets, For
  <2>2. stream[s] \in Stream  BY <1>t, <2>1, LiveRecords
  <2>3. stream[s].queue \in Seq(Numbers)  BY <2>2 DEF Stream
  <2>4. Append(stream[s].queue, n) \in Seq(Numbers)  BY <2>3, AppendProperties
  <2>5. stream'[s] = [stream[s] EXCEPT !.queue = Append(stream[s].queue, n)]  BY <1>2
  <2>6. stream'[s] \in Stream /\ stream'[s].at = stream[s].at /\ stream'[s].of = stream[s].of
        /\ stream'[s].queue = Append(stream[s].queue, n)
    BY <2>2, <2>4, <2>5 DEF Stream
  <2> QED  BY <2>1, <2>3, <2>6
<1>6. \A s \in Streams : ~Gets(s, n, v) => stream'[s] = stream[s]  BY <1>2
<1>7. /\ stream' \in [Streams -> {Closed} \cup Stream]
      /\ \A s \in Streams : Open(s)' <=> Open(s)
  <2>1. stream' = [s \in Streams |-> stream'[s]]  BY <1>2
  <2>2. \A s \in Streams : stream'[s] \in {Closed} \cup Stream
    BY <1>t, <1>5, <1>6 DEF LiveTypeOK
  <2> QED  BY <1>t, <1>5, <1>6, <2>1, <2>2, LiveRecords DEF Open
<1>8. LiveTypeOK'  BY <1>t, <1>1, <1>3, <1>7 DEF LiveTypeOK
<1>9. BacklogsAreInOrder'
  BY <1>1, <1>3, <1>4, <1>n DEF LiveInv, BacklogsAreInOrder
<1>10. NoticesAreKept'  BY <1>1 DEF LiveInv, NoticesAreKept
<1>11. OneTask'  BY <1>t, <1>1, <1>4, LiveRecords, TasksStayOne
<1>12. \A s \in Streams : Gets(s, n, v) =>
          ToSet(stream'[s].queue) = ToSet(stream[s].queue) \cup {n}
  <2> SUFFICES ASSUME NEW s \in Streams, Gets(s, n, v)
               PROVE  ToSet(Append(stream[s].queue, n)) = ToSet(stream[s].queue) \cup {n}
    BY <1>5
  <2>1. stream[s].queue \in Seq(Numbers)  BY <1>5
  <2> HIDE DEF Numbers
  <2> QED  BY <2>1, AppendHolds
<1>13. QueuesFit'
  <2>1. n \in 1..Len(events)  BY <1>m, <1>n
  <2> SUFFICES ASSUME NEW s \in Streams, Open(s)
               PROVE  \A i \in ToSet(stream'[s].queue) :
                         i \in 1..Len(events) /\ events[i].to \in {stream'[s].of, Everybody}
    BY <1>1, <1>7 DEF QueuesFit
  <2>2. \A i \in ToSet(stream[s].queue) :
           i \in 1..Len(events) /\ events[i].to \in {stream[s].of, Everybody}
    BY DEF LiveInv, QueuesFit
  <2>3. CASE Gets(s, n, v)
    <3>1. events[n].to \in {stream[s].of, Everybody} /\ stream'[s].of = stream[s].of
      BY <1>5, <2>3
    <3>2. ToSet(stream'[s].queue) = ToSet(stream[s].queue) \cup {n}  BY <1>12, <2>3
    <3> QED  BY <2>1, <2>2, <3>1, <3>2
  <2>4. CASE ~Gets(s, n, v)  BY <1>6, <2>2, <2>4
  <2> QED  BY <2>3, <2>4
<1>14. QueuesAreBehind'
  <2> SUFFICES ASSUME NEW s \in Streams, Open(s)
               PROVE  /\ InOrder(stream'[s].queue)
                      /\ \A k \in Listeners : Made(k) /\ listener[k].at = stream[s].at =>
                            \A i \in ToSet(stream'[s].queue), j \in ToSet(listener'[k].backlog) :
                               i < j
    <3>1. \A s \in Streams : Open(s) => stream'[s].at = stream[s].at  BY <1>5, <1>6
    <3> QED  BY <1>1, <1>4, <1>7, <3>1 DEF QueuesAreBehind
  <2>1. /\ InOrder(stream[s].queue)
        /\ \A k \in Listeners : Made(k) /\ listener[k].at = stream[s].at =>
              \A i \in ToSet(stream[s].queue), j \in ToSet(listener[k].backlog) : i < j
    BY DEF LiveInv, QueuesAreBehind
  <2>2. CASE ~Gets(s, n, v)
    <3>1. stream'[s] = stream[s]  BY <1>6, <2>2
    <3>2. \A k \in Listeners : Made(k) => ToSet(listener'[k].backlog) \subseteq ToSet(listener[k].backlog)
      BY <1>3, <1>b, <1>n
    <3> QED  BY <2>1, <3>1, <3>2
  <2>3. CASE Gets(s, n, v)
    <3>1. stream[s].at = v /\ stream[s].queue \in Seq(Numbers)  BY <1>5, <2>3
    <3>2. \A i \in ToSet(stream[s].queue) : i < n
      BY <1>1, <1>b, <1>m, <1>n, <2>1, <3>1
    <3>3. InOrder(stream'[s].queue)
      BY <1>5, <2>1, <2>3, <3>1, <3>2, InOrderAppend
    <3>4. \A k \in Listeners \ {l} : Made(k) /\ listener[k].at = v => listener'[k].backlog = <<>>
      <4>1. \A k \in Listeners \ {l} : ~RunsAt(k, v)
        BY <1>1, <1>b, <2>3, <3>1 DEF LiveInv, OneTask, RunsAt
      <4> QED  BY <1>3, <4>1 DEF LiveInv, BacklogsAreInOrder, RunsAt
    <3>5. \A i \in ToSet(stream[s].queue), j \in ToSet(Tail(b)) : i < j
      BY <1>1, <1>b, <1>n, <2>1, <3>1
    <3>6. \A j \in ToSet(Tail(b)) : n < j  BY <1>m, <1>n
    <3>7. ToSet(stream'[s].queue) = ToSet(stream[s].queue) \cup {n}  BY <1>12, <2>3
    <3>8. \A k \in Listeners : Made(k) /\ listener[k].at = v =>
             ToSet(listener'[k].backlog) \subseteq ToSet(Tail(b))
      BY <1>3, <3>4, InOrderEmpty
    <3> QED  BY <3>1, <3>3, <3>5, <3>6, <3>7, <3>8
  <2> QED  BY <2>2, <2>3
<1> QED  BY <1>8, <1>9, <1>10, <1>11, <1>13, <1>14 DEF LiveInv

\* A stream opens, and has got nothing, or closes.
LEMMA StreamChangeKeeps ==
    ASSUME LiveInv, UNCHANGED <<pool, listener, events, inbox, telling>>,
           stream' \in [Streams -> {Closed} \cup Stream],
           \A s \in Streams : /\ Open(s)' =>
                                    stream'[s] = stream[s] \/ stream'[s].queue = <<>>
    PROVE  LiveInv'
<1>t. LiveTypeOK  BY DEF LiveInv
<1>1. LiveTypeOK'  BY <1>t DEF LiveTypeOK
<1>2. BacklogsAreInOrder'  BY DEF LiveInv, BacklogsAreInOrder, Made, Running
<1>3. QueuesFit'  BY InOrderEmpty DEF LiveInv, QueuesFit, Open
<1>4. QueuesAreBehind'
  BY InOrderEmpty DEF LiveInv, QueuesAreBehind, Open, Made
<1>5. NoticesAreKept'  BY DEF LiveInv, NoticesAreKept
<1>6. OneTask'  BY DEF LiveInv, OneTask, RunsAt, Running
<1> QED  BY <1>1, <1>2, <1>3, <1>4, <1>5, <1>6 DEF LiveInv

\* A new stream is empty, and at a worker with a listener or without.
LEMMA SubscribeKeeps ==
    ASSUME LiveInv, NEW w \in Workers, NEW u \in Audience, NEW s \in Streams,
           Subscribe(w, u, s)
    PROVE  LiveInv'
<1>t. LiveTypeOK  BY DEF LiveInv
<1> DEFINE new == [state |-> "open", at |-> w, of |-> u, queue |-> <<>>, due |-> {}]
<1>1. /\ stream' = [stream EXCEPT ![s] = new]
      /\ UNCHANGED <<pool, listener, events, inbox, telling>>
  BY DEF Subscribe
<1>2. new \in Stream /\ new.queue = <<>>
  <2>1. <<>> \in Seq(Numbers)  BY EmptySeq
  <2> QED  BY <2>1 DEF Stream
<1> HIDE DEF new
<1>3. /\ stream' \in [Streams -> {Closed} \cup Stream]
      /\ \A r \in Streams : stream'[r] = stream[r] \/ stream'[r].queue = <<>>
  BY <1>t, <1>1, <1>2 DEF LiveTypeOK
<1> QED  BY <1>1, <1>3, StreamChangeKeeps

\* A closed stream has no queue.
LEMMA UnsubscribeKeeps ==
    ASSUME LiveInv, NEW s \in Streams, Unsubscribe(s)
    PROVE  LiveInv'
<1>t. LiveTypeOK  BY DEF LiveInv
<1>1. /\ stream' = [stream EXCEPT ![s] = Closed]
      /\ UNCHANGED <<pool, listener, events, inbox, telling>>
  BY DEF Unsubscribe
<1>2. /\ stream' \in [Streams -> {Closed} \cup Stream]
      /\ \A r \in Streams : Open(r)' => stream'[r] = stream[r]
  BY <1>t, <1>1 DEF LiveTypeOK, Open
<1> QED  BY <1>1, <1>2, StreamChangeKeeps

\* A listening connection that is gone.
Downed(l) == [listener[l] EXCEPT !.state = "down", !.backlog = <<>>]

\* A worker dies, with its streams and its listening tasks.
LEMMA RestartKeeps ==
    ASSUME LiveInv, NEW w \in Workers, Restart(w)
    PROVE  LiveInv'
<1>t. LiveTypeOK  BY DEF LiveInv
<1>1. /\ pool' = pool \ {w}
      /\ listener' = [l \in Listeners |->
                         IF Made(l) /\ listener[l].at = w THEN Downed(l) ELSE listener[l]]
      /\ stream' = [s \in Streams |->
                       IF Open(s) /\ stream[s].at = w THEN Closed ELSE stream[s]]
      /\ telling' \subseteq telling
      /\ UNCHANGED <<events, inbox>>
  BY Zenon DEF Restart, Made, Downed
<1>2. \A l \in Listeners :
         \/ listener'[l] = listener[l] /\ ~(Made(l) /\ listener[l].at = w)
         \/ /\ Made(l) /\ listener[l].at = w
            /\ listener'[l] \in Listener /\ listener'[l].at = w
            /\ listener'[l].state = "down" /\ listener'[l].backlog = <<>>
  <2> SUFFICES ASSUME NEW l \in Listeners, Made(l), listener[l].at = w
               PROVE  /\ listener'[l] \in Listener /\ listener'[l].at = w
                      /\ listener'[l].state = "down" /\ listener'[l].backlog = <<>>
    BY <1>1
  <2>1. listener[l] \in Listener  BY <1>t, LiveRecords
  <2>2. <<>> \in Seq(Numbers)  BY EmptySeq
  <2>3. listener'[l] = Downed(l)  BY <1>1
  <2>4. /\ Downed(l) \in Listener /\ Downed(l).at = listener[l].at
        /\ Downed(l).state = "down" /\ Downed(l).backlog = <<>>
    BY <2>1, <2>2 DEF Listener, Downed
  <2> QED  BY <2>3, <2>4
<1>3. listener' \in [Listeners -> {NoListener} \cup Listener]
  <2>1. listener' = [l \in Listeners |-> listener'[l]]  BY <1>1
  <2>2. \A l \in Listeners : listener'[l] \in {NoListener} \cup Listener
    BY <1>t, <1>2 DEF LiveTypeOK
  <2> QED  BY <2>1, <2>2
<1>4. \A l \in Listeners : /\ Made(l)' <=> Made(l)
                           /\ Made(l) => listener'[l].at = listener[l].at
                           /\ Running(l)' <=> Running(l) /\ listener[l].at # w
  BY <1>t, <1>2, LiveRecords DEF Made, Running
<1>5. \A s \in Streams : /\ Open(s)' <=> Open(s) /\ stream[s].at # w
                         /\ Open(s)' => stream'[s] = stream[s]
                         /\ stream'[s] \in {Closed} \cup Stream
  BY <1>t, <1>1 DEF Open, LiveTypeOK
<1>6. LiveTypeOK'
  <2>1. stream' \in [Streams -> {Closed} \cup Stream]
    <3>1. stream' = [s \in Streams |-> stream'[s]]  BY <1>1
    <3> QED  BY <1>5, <3>1
  <2>2. pool' \subseteq Workers /\ telling' \subseteq Workers \X Audience
    BY <1>t, <1>1 DEF LiveTypeOK
  <2> QED  BY <1>t, <1>1, <1>3, <2>1, <2>2 DEF LiveTypeOK
<1>7. BacklogsAreInOrder'
  BY <1>1, <1>2, <1>4, InOrderEmpty DEF LiveInv, BacklogsAreInOrder
<1>8. QueuesFit'  BY <1>1, <1>5 DEF LiveInv, QueuesFit
<1>9. QueuesAreBehind'
  <2>1. \A s \in Streams : Open(s)' => Open(s) /\ stream'[s] = stream[s] /\ stream[s].at # w
    BY <1>5
  <2>2. \A l \in Listeners : Made(l)' => Made(l) /\ listener'[l].at = listener[l].at
           /\ (listener'[l] = listener[l] \/ listener'[l].backlog = <<>>)
    BY <1>2, <1>4
  <2> QED  BY <1>1, <2>1, <2>2, InOrderEmpty DEF LiveInv, QueuesAreBehind
<1>10. NoticesAreKept'  BY <1>1 DEF LiveInv, NoticesAreKept
<1>11. OneTask'
  <2>1. \A v : \A l \in Listeners : RunsAt(l, v)' => RunsAt(l, v) /\ v # w
    BY <1>t, <1>4, LiveRecords DEF RunsAt
  <2> QED  BY <1>1, <2>1 DEF LiveInv, OneTask
<1> QED  BY <1>6, <1>7, <1>8, <1>9, <1>10, <1>11 DEF LiveInv

\* A notice is kept, or read.
LEMMA InboxKeeps ==
    ASSUME LiveInv, NEW u \in Audience,
           (\E w \in Workers : Keep(w, u)) \/ Read(u)
    PROVE  LiveInv'
<1>t. LiveTypeOK  BY DEF LiveInv
<1>1. /\ UNCHANGED <<pool, listener, stream, events>>
      /\ \E r \in {"unread", "read"} : inbox' = [inbox EXCEPT ![u] = r]
      /\ \A t \in telling' : t \in telling \/ t[2] = u
      /\ telling' \subseteq Workers \X Audience
  BY <1>t DEF Keep, Read, LiveTypeOK
<1>2. /\ inbox' \in [Audience -> {"none", "unread", "read"}] /\ inbox'[u] # "none"
      /\ \A v \in Audience : inbox[v] # "none" => inbox'[v] # "none"
  BY <1>t, <1>1 DEF LiveTypeOK
<1>3. LiveTypeOK'  BY <1>t, <1>1, <1>2 DEF LiveTypeOK
<1>4. OneTask'  BY <1>1 DEF LiveInv, OneTask, RunsAt, Running
<1>5. NoticesAreKept'
  <2>1. \A t \in telling : t[2] \in Audience  BY <1>t DEF LiveTypeOK
  <2> QED  BY <1>1, <1>2, <2>1 DEF LiveInv, NoticesAreKept
<1> QED  BY <1>1, <1>3, <1>4, <1>5, QuietStep DEF LiveInv

\* Every step keeps the invariant.
LEMMA LiveInvNext == LiveInv /\ [LiveNext]_liveVars => LiveInv'
<1> SUFFICES ASSUME LiveInv, [LiveNext]_liveVars
             PROVE  LiveInv'
  OBVIOUS
<1>1. CASE UNCHANGED liveVars
  <2>1. LiveTypeOK'  BY <1>1 DEF liveVars, LiveInv, LiveTypeOK
  <2>2. OneTask' /\ NoticesAreKept'
    BY <1>1 DEF liveVars, LiveInv, OneTask, RunsAt, Running, NoticesAreKept
  <2> QED  BY <1>1, <2>1, <2>2, QuietStep DEF liveVars, LiveInv
<1>2. CASE \E w \in Workers : Connect(w)  BY <1>2, ConnectKeeps
<1>4. CASE \E w \in Workers : Restart(w)  BY <1>4, RestartKeeps
<1>5. CASE \E w \in Workers, u \in Audience \cup {Everybody} : Publish(w, u)
  BY <1>5, PublishKeeps
<1>6. CASE \E w \in Workers, u \in Audience : Keep(w, u)  BY <1>6, InboxKeeps
<1>7. CASE \E w \in Workers, u \in Audience : Tell(w, u)  BY <1>7, TellKeeps
<1>8. CASE \E w \in Workers, u \in Audience, s \in Streams : Subscribe(w, u, s)
  BY <1>8, SubscribeKeeps
<1>9. CASE \E l \in Listeners : ListenerStarts(l)  BY <1>9, ListenerStartsKeeps
<1>10. CASE \E l \in Listeners : ListenerEnds(l)  BY <1>10, ListenerEndsKeeps
<1>11. CASE \E l \in Listeners : Dispatch(l)  BY <1>11, DispatchKeeps
<1>12. CASE \E s \in Streams : Unsubscribe(s)  BY <1>12, UnsubscribeKeeps
<1>13. CASE \E u \in Audience : Read(u)  BY <1>13, InboxKeeps
<1> QED
  BY <1>1, <1>2, <1>4, <1>5, <1>6, <1>7, <1>8, <1>9, <1>10, <1>11, <1>12, <1>13
  DEF LiveNext

\* It holds of every behaviour.
LEMMA LiveInvHolds == LiveSpec => []LiveInv
  BY LiveInvInit, LiveInvNext, PTL DEF LiveSpec

\* A stream gets events for its resident or for everybody, once and in the order
\* of their publication (events.py:83-113), and every notice it gets is in the
\* inbox (notifications.py:64-79).
THEOREM StreamsStayInOrder == LiveSpec => []StreamsAreInOrder
<1>1. LiveInv => StreamsAreInOrder
  <2> SUFFICES ASSUME LiveInv, NEW s \in Streams, Open(s)
               PROVE  LET q == stream[s].queue IN
                      /\ \A i \in DOMAIN q :
                            LET e == events[q[i]] IN
                            /\ e.to \in {stream[s].of, Everybody}
                            /\ e.notice => inbox[e.to] # "none"
                      /\ \A i, j \in DOMAIN q : i < j => q[i] < q[j]
    BY DEF StreamsAreInOrder
  <2>1. \A i \in DOMAIN stream[s].queue : stream[s].queue[i] \in ToSet(stream[s].queue)
    BY DEF ToSet
  <2>2. \A i \in DOMAIN stream[s].queue :
           /\ stream[s].queue[i] \in 1..Len(events)
           /\ events[stream[s].queue[i]].to \in {stream[s].of, Everybody}
    BY <2>1 DEF LiveInv, QueuesFit
  <2>3. InOrder(stream[s].queue)
    BY DEF LiveInv, QueuesAreBehind
  <2> QED  BY <2>2, <2>3 DEF LiveInv, NoticesAreKept, InOrder
<1> QED  BY <1>1, LiveInvHolds, PTL

-----------------------------------------------------------------------------
(* RecurringBilling.                                                       *)

\* A finite set of numbers has a smallest one.
LEMMA SmallestExists ==
    ASSUME NEW S, S \subseteq Nat, IsFiniteSet(S), S # {}
    PROVE  \E x \in S : \A y \in S : x <= y
<1> DEFINE G == {T \in SUBSET S : T # {} => \E x \in T : \A y \in T : x <= y}
<1>1. ASSUME NEW T \in SUBSET S, \A U \in SUBSET T : U # T => U \in G
      PROVE  T \in G
  <2> SUFFICES ASSUME T # {} PROVE \E x \in T : \A y \in T : x <= y
    OBVIOUS
  <2>1. PICK x \in T : TRUE  OBVIOUS
  <2>2. T \ {x} \in G  BY <1>1, <2>1
  <2>3. CASE T \ {x} = {}
    <3>1. T = {x} /\ x \in Nat  BY <2>1, <2>3
    <3> QED  BY <3>1
  <2>4. CASE T \ {x} # {}
    <3>1. PICK m \in T \ {x} : \A y \in T \ {x} : m <= y  BY <2>2, <2>4
    <3>2. x \in Nat /\ m \in Nat /\ \A y \in T : y \in Nat  BY <2>1
    <3>3. CASE m <= x  BY <3>1, <3>2, <3>3
    <3>4. CASE ~(m <= x)
      <4>1. \A y \in T : x <= y  BY <3>1, <3>2, <3>4
      <4> QED  BY <2>1, <4>1
    <3> QED  BY <3>3, <3>4
  <2> QED  BY <2>3, <2>4
<1>2. SUBSET S \subseteq G
  <2> HIDE DEF G
  <2> QED  BY <1>1, SetInduction
<1> QED  BY <1>2

\* The smallest of a set is a member, and at most any other.
LEMMA MinIsSmallest ==
    ASSUME NEW S, S \subseteq Nat, NEW x \in S, \A y \in S : x <= y
    PROVE  Min(S) = x
<1>1. Min(S) \in S /\ \A y \in S : Min(S) <= y  BY DEF Min
<1>2. PICK m \in S : m = Min(S)  BY <1>1
<1>3. m \in Nat /\ x \in Nat /\ m <= x /\ x <= m  BY <1>1, <1>2
<1>4. m = x  BY <1>3
<1> QED  BY <1>2, <1>4

\* The smaller of two numbers.
LEMMA MinOfTwo ==
    ASSUME NEW a \in Nat, NEW b \in Nat
    PROVE  /\ Min({a, b}) \in {a, b}
           /\ Min({a, b}) <= a /\ Min({a, b}) <= b
<1>1. CASE a <= b
  <2>1. Min({a, b}) = a  BY <1>1, MinIsSmallest
  <2> QED  BY <1>1, <2>1
<1>2. CASE ~(a <= b)
  <2>1. Min({a, b}) = b  BY <1>2, MinIsSmallest
  <2> QED  BY <1>2, <2>1
<1> QED  BY <1>1, <1>2

\* The length of a month, of any year, is a day of some month.
LEMMA LengthIsDay == \A m \in Nat : Length(m) \in Nat \ {0} /\ Length(m) \in Days
<1> SUFFICES ASSUME NEW m \in Nat PROVE Length(m) \in Nat \ {0} /\ Length(m) \in Days
  OBVIOUS
<1>1. Year \in Nat \ {0} /\ MonthLength \in [0..Year - 1 -> Nat \ {0}]  BY CalendarIsSound
<1>2. m % Year \in 0..Year - 1
  <2> HIDE DEF Year
  <2> QED  BY <1>1
<1>3. Length(m) \in Nat \ {0}  BY <1>1, <1>2 DEF Length
<1>4. Length(m) \in 1..MonthLength[m % Year] /\ m % Year \in DOMAIN MonthLength
  BY <1>1, <1>2, <1>3 DEF Length
<1> QED  BY <1>3, <1>4 DEF Days

\* Days are positive numbers.
LEMMA DaysAreNumbers == Days \subseteq Nat \ {0}
<1>1. MonthLength \in [0..Year - 1 -> Nat \ {0}]  BY CalendarIsSound
<1>2. \A m \in DOMAIN MonthLength : MonthLength[m] \in Nat  BY <1>1
<1> QED  BY <1>2 DEF Days

\* What the n-th cycle was clamped to.
Clamps(n) == {FirstDay} \cup {Length(k * Every) : k \in 1..n}

\* There is a smallest one: nothing above the first due day matters.
LEMMA ClampsHaveSmallest ==
    ASSUME NEW n \in Nat
    PROVE  /\ Clamps(n) \subseteq Nat
           /\ \E x \in Clamps(n) : \A y \in Clamps(n) : x <= y
<1>1. FirstDay \in Nat /\ Every \in Nat
  <2>1. MonthLength[0] \in Nat
    <3>1. /\ Year \in Nat \ {0} /\ MonthLength \in [0..Year - 1 -> Nat \ {0}]
      BY CalendarIsSound
    <3>2. 0 \in 0..Year - 1
      <4> HIDE DEF Year
      <4> QED  BY <3>1
    <3> QED  BY <3>1, <3>2
  <2> QED  BY <2>1, CalendarIsSound
<1>2. \A k \in 1..n : k * Every \in Nat  BY <1>1
<1>3. Clamps(n) \subseteq Nat  BY <1>1, <1>2, LengthIsDay DEF Clamps
<1> DEFINE S == {y \in Clamps(n) : y \in 0..FirstDay}
<1>4. IsFiniteSet(S)
  <2>1. IsFiniteSet(0..FirstDay)  BY <1>1, FS_Interval
  <2>2. S \subseteq 0..FirstDay  OBVIOUS
  <2> QED  BY <2>1, <2>2, FS_Subset
<1>5. FirstDay \in S  BY <1>1 DEF Clamps
<1>6. \E x \in S : \A y \in S : x <= y
  <2>1. S \subseteq Nat  BY <1>3
  <2> HIDE DEF S
  <2> QED  BY <1>4, <1>5, <2>1, SmallestExists
<1>7. PICK x \in S : \A y \in S : x <= y  BY <1>6
<1>8. \A y \in Clamps(n) : x <= y
  <2> SUFFICES ASSUME NEW y \in Clamps(n), y \notin S PROVE x <= y
    BY <1>7
  <2>1. y > FirstDay /\ y \in Nat  BY <1>1, <1>3
  <2>2. x <= FirstDay /\ x \in Nat  BY <1>1, <1>3, <1>7
  <2> QED  BY <1>1, <2>1, <2>2
<1> QED  BY <1>3, <1>7, <1>8

\* The cycles follow one another as advance_cycle_date says.
LEMMA CyclesAdvance ==
    /\ CyclesTo[0] = FirstDue
    /\ \A n \in Nat : /\ CyclesTo[n].month = n * Every /\ CyclesTo[n].month \in Nat
                      /\ CyclesTo[n].day \in Nat
                      /\ CyclesTo[n + 1] = AdvanceCycleDate(CyclesTo[n])
<1>e. Every \in Nat \ {0}  BY CalendarIsSound
<1>1. \A n \in Nat : CyclesTo[n] = Date(n * Every, Min(Clamps(n)))
  BY DEF CyclesTo, Clamps
<1>2. ASSUME NEW n \in Nat
      PROVE  Min(Clamps(n)) \in Clamps(n) /\ Min(Clamps(n)) \in Nat
             /\ \A y \in Clamps(n) : Min(Clamps(n)) <= y
  <2>1. PICK x \in Clamps(n) : \A y \in Clamps(n) : x <= y  BY ClampsHaveSmallest
  <2>2. Min(Clamps(n)) = x  BY <2>1, ClampsHaveSmallest, MinIsSmallest
  <2> QED  BY <2>1, <2>2, ClampsHaveSmallest
<1>3. CyclesTo[0] = FirstDue
  <2>1. Clamps(0) = {FirstDay}  BY DEF Clamps
  <2>2. Min(Clamps(0)) = FirstDay  BY <1>2, <2>1
  <2>3. 0 * Every = 0  BY <1>e
  <2> QED  BY <1>1, <2>2, <2>3 DEF FirstDue
<1>4. ASSUME NEW n \in Nat
      PROVE  /\ CyclesTo[n].month = n * Every /\ CyclesTo[n].month \in Nat
             /\ CyclesTo[n].day \in Nat
             /\ CyclesTo[n + 1] = AdvanceCycleDate(CyclesTo[n])
  <2>1. n * Every \in Nat /\ (n + 1) * Every = n * Every + Every /\ (n + 1) * Every \in Nat
    BY <1>e
  <2> DEFINE x == Min(Clamps(n))
             z == Length((n + 1) * Every)
  <2>2. CyclesTo[n].month = n * Every /\ CyclesTo[n].day = x
    <3>1. \A m, d : Date(m, d).month = m /\ Date(m, d).day = d  BY DEF Date
    <3> QED  BY <1>1, <3>1
  <2>3. x \in Nat /\ x \in Clamps(n) /\ \A y \in Clamps(n) : x <= y  BY <1>2
  <2>4. z \in Nat  BY <2>1, LengthIsDay
  <2>5. Clamps(n + 1) = Clamps(n) \cup {z}
    <3>1. 1..n + 1 = (1..n) \cup {n + 1}  OBVIOUS
    <3> QED  BY <3>1 DEF Clamps
  <2> HIDE DEF x, z
  <2>6. Min({x, z}) \in {x, z} /\ Min({x, z}) <= x /\ Min({x, z}) <= z /\ Min({x, z}) \in Nat
    BY <2>3, <2>4, MinOfTwo
  <2>7. Min(Clamps(n + 1)) = Min({x, z})
    <3>1. Min({x, z}) \in Clamps(n + 1)  BY <2>3, <2>5, <2>6
    <3>2. \A y \in Clamps(n + 1) : Min({x, z}) <= y
      <4> SUFFICES ASSUME NEW y \in Clamps(n + 1) PROVE Min({x, z}) <= y
        OBVIOUS
      <4>1. y \in Nat  BY ClampsHaveSmallest
      <4>2. x <= y \/ y = z  BY <2>3, <2>5
      <4> QED  BY <2>3, <2>6, <4>1, <4>2
    <3>3. Clamps(n + 1) \subseteq Nat  BY ClampsHaveSmallest
    <3> QED  BY <3>1, <3>2, <3>3, MinIsSmallest
  <2>8. CyclesTo[n + 1] = Date(n * Every + Every, Min({x, z}))
    BY <1>1, <2>1, <2>7
  <2>9. AdvanceCycleDate(CyclesTo[n]) = Date(n * Every + Every, Min({x, z}))
    BY <2>1, <2>2 DEF AdvanceCycleDate, AddMonths, z
  <2> QED  BY <2>1, <2>2, <2>3, <2>8, <2>9
<1> QED  BY <1>3, <1>4

\* The index of a cycle is its month by the months of a cycle, and the months
\* grow with the index.
LEMMA CycleNumbers ==
    ASSUME NEW n \in Nat
    PROVE  /\ (n * Every) \div Every = n
           /\ \A m \in Nat : m * Every < n * Every <=> m < n
<1>1. Every \in Nat \ {0}  BY CalendarIsSound
<1>2. \A m \in Nat : m < n => m * Every < n * Every  BY <1>1
<1>3. \A m \in Nat : ~(m < n) => ~(m * Every < n * Every)  BY <1>1
<1>4. (n * Every) \div Every = n  BY <1>1
<1> QED  BY <1>2, <1>3, <1>4

\* The parts of a date.
LEMMA DateParts ==
    /\ \A m, d : Date(m, d).month = m /\ Date(m, d).day = d
    /\ \A m \in Months, d \in Days : Date(m, d) \in Dates
    /\ \A e \in Dates : e.month \in Months /\ e.month \in Nat /\ e.day \in Days /\ e.day \in Nat
<1>1. \A m, d : Date(m, d).month = m /\ Date(m, d).day = d  BY DEF Date
<1>2. \A m \in Months, d \in Days : Date(m, d) \in Dates  BY DEF Date, Dates
<1>3. Months \subseteq Nat
  <2>1. MaxMonth + Every \in Int  BY CalendarIsSound
  <2> QED  BY <2>1 DEF Months
<1>4. \A e \in Dates : e.month \in Months /\ e.day \in Days  BY DEF Dates
<1> QED  BY <1>1, <1>2, <1>3, <1>4, DaysAreNumbers

\* The date of a cycle within the bound is a date.
LEMMA CycleIsDate ==
    ASSUME NEW n \in Nat, n * Every <= MaxMonth + Every
    PROVE  CyclesTo[n] \in Dates
<1>1. Every \in Nat \ {0} /\ MaxMonth \in Nat  BY CalendarIsSound
<1>2. FirstDay \in Days
  <2>1. MonthLength \in [0..Year - 1 -> Nat \ {0}] /\ Year \in Nat \ {0}
    BY CalendarIsSound
  <2>2. 0 \in DOMAIN MonthLength
    <3> HIDE DEF Year
    <3> QED  BY <2>1
  <2> QED  BY <2>2, CalendarIsSound DEF Days
<1>3. Clamps(n) \subseteq Days
  <2>1. \A k \in 1..n : k * Every \in Nat  BY <1>1
  <2> QED  BY <1>2, <2>1, LengthIsDay DEF Clamps
<1>4. PICK x \in Clamps(n) : \A y \in Clamps(n) : x <= y  BY ClampsHaveSmallest
<1>5. Min(Clamps(n)) = x  BY <1>4, ClampsHaveSmallest, MinIsSmallest
<1>6. CyclesTo[n] = Date(n * Every, Min(Clamps(n)))  BY DEF CyclesTo, Clamps
<1>7. n * Every \in Months
  <2>1. n * Every \in Nat  BY <1>1
  <2> QED  BY <1>1, <2>1 DEF Months
<1> QED  BY <1>3, <1>4, <1>5, <1>6, <1>7, DateParts

\* The next due date of one that has come is still within the bound.
LEMMA AdvanceIsDate ==
    ASSUME NEW d \in Dates, d.month <= MaxMonth
    PROVE  AdvanceCycleDate(d) \in Dates
<1>1. Every \in Nat \ {0} /\ MaxMonth \in Nat  BY CalendarIsSound
<1>2. d.month \in Nat /\ d.day \in Days /\ d.day \in Nat  BY DateParts
<1>3. d.month + Every \in Months /\ d.month + Every \in Nat  BY <1>1, <1>2 DEF Months
<1> DEFINE z == Length(d.month + Every)
<1>4. z \in Days /\ z \in Nat  BY <1>3, LengthIsDay
<1>5. AdvanceCycleDate(d) = Date(d.month + Every, Min({d.day, z}))
  BY DEF AdvanceCycleDate, AddMonths
<1> HIDE DEF z
<1>6. Min({d.day, z}) \in Days  BY <1>2, <1>4, MinOfTwo
<1> QED  BY <1>3, <1>5, <1>6, DateParts

\* A list of nothing, and of one thing.
LEMMA ListOfFew ==
    /\ SetToSeq({}) = <<>>
    /\ \A x : SetToSeq({x}) = <<x>>
<1>1. SetToSeq({}) = <<>>
  <2>1. Cardinality({}) = 0 /\ 1..0 = {}  BY FS_EmptySet
  <2>2. SetToSeq({}) = CHOOSE f \in [1..0 -> {}] : IsInjective(f)  BY <2>1 DEF SetToSeq
  <2>3. <<>> \in [1..0 -> {}] /\ IsInjective(<<>>)
    BY <2>1 DEF IsInjective
  <2>4. SetToSeq({}) \in [1..0 -> {}]  BY <2>2, <2>3
  <2> QED  BY <2>1, <2>3, <2>4
<1>2. ASSUME NEW x PROVE SetToSeq({x}) = <<x>>
  <2>1. Cardinality({x}) = 1 /\ 1..1 = {1}  BY FS_Singleton
  <2>2. SetToSeq({x}) = CHOOSE f \in [1..1 -> {x}] : IsInjective(f)  BY <2>1 DEF SetToSeq
  <2>3. <<x>> \in [1..1 -> {x}] /\ IsInjective(<<x>>)  BY <2>1 DEF IsInjective
  <2>4. SetToSeq({x}) \in [1..1 -> {x}]  BY <2>2, <2>3
  <2> QED  BY <2>1, <2>3, <2>4
<1> QED  BY <1>1, <1>2

-----------------------------------------------------------------------------
(* The inductive invariant.                                                *)

\* A date of the calendar of the setup; a process with a job; a cycle that has
\* its bill, committed or not, or was left without.
IsCycle(d) == \E n \in Nat : d = CyclesTo[n]
Busy(p) == job[p] # JobIdle
Known(d) == Billed(d) \/ d \in unbilled

\* A cycle has no bill or one, to somebody.
BillsAreOne ==
    \A d \in Dates : bills[d] = <<>> \/ \E U \in (SUBSET Apartments) \ {{}} : bills[d] = <<U>>

\* An inserted bill is the only one of its cycle, and one job has inserted it.
DraftsFit ==
    /\ \A b, c \in drafts : b[1] = c[1] => b = c
    /\ \A b \in drafts : b[2] # {} /\ bills[b[1]] = <<>>
    /\ lock = NoProcess => drafts = {}

\* One job at a time holds the lock, and it is at a cycle.
JobsFit ==
    /\ today.month <= MaxMonth
    /\ IsCycle(nextDue)
    /\ \A p \in Processes : Busy(p) =>
          /\ lock = p
          /\ job[p].now.month <= MaxMonth
          /\ IsCycle(job[p].due)
          /\ job[p].step = "insert" => job[p].units # {} /\ NotAfter(job[p].due, job[p].now)

\* Every cycle before the next due date is billed, or was left without; and
\* before the date of a job, there is a bill that it has inserted.
PastIsKnown ==
    /\ \A n \in Nat : n * Every < nextDue.month =>
          bills[CyclesTo[n]] # <<>> \/ CyclesTo[n] \in unbilled
    /\ \A p \in Processes : Busy(p) =>
          \A n \in Nat : n * Every < job[p].due.month => Known(CyclesTo[n])

\* The inductive invariant of the bills.
BillingInv == BillingTypeOK /\ BillsAreOne /\ DraftsFit /\ JobsFit /\ PastIsKnown

\* A job that runs is a record of its kind.
LEMMA BillingRecords ==
    ASSUME BillingTypeOK
    PROVE  /\ \A p \in Processes : Busy(p) => job[p] \in Job
           /\ \A p \in Processes : job[p].step # "idle" => Busy(p)
           /\ JobIdle \notin Job
BY DEF BillingTypeOK, Busy, Job, JobIdle

\* It holds at the start.
LEMMA BillingInvInit == BillingInit => BillingInv
<1> SUFFICES ASSUME BillingInit PROVE BillingInv
  OBVIOUS
<1>1. /\ Every \in Nat \ {0} /\ MaxMonth \in Nat /\ MaxFailures \in Nat
  BY CalendarIsSound
<1>2. FirstDue = CyclesTo[0] /\ FirstDue \in Dates /\ FirstDue.month = 0
  <2>1. 0 * Every = 0  BY <1>1
  <2>2. CyclesTo[0] \in Dates  BY <1>1, <2>1, CycleIsDate
  <2> QED  BY <2>1, <2>2, CyclesAdvance
<1>3. Date(0, 1) \in Dates
  <2>1. Length(0) \in Nat \ {0} /\ 0 \in Months  BY <1>1, LengthIsDay DEF Months
  <2>2. 1 \in Days
    <3>1. MonthLength \in [0..Year - 1 -> Nat \ {0}] /\ Year \in Nat \ {0}
      BY CalendarIsSound
    <3>2. 0 \in DOMAIN MonthLength
      <4> HIDE DEF Year
      <4> QED  BY <3>1
    <3>3. 1 \in 1..MonthLength[0]  BY <3>1, <3>2
    <3> QED  BY <3>2, <3>3 DEF Days
  <2> QED  BY <2>1, <2>2, DateParts
<1>4. BillingTypeOK
  <2>1. <<>> \in Seq(SUBSET Apartments)  BY EmptySeq
  <2>2. bills \in [Dates -> Seq(SUBSET Apartments)]  BY <2>1 DEF BillingInit
  <2>3. job \in [Processes -> {JobIdle} \cup Job]  BY DEF BillingInit
  <2>4. today \in Dates /\ nextDue \in Dates  BY <1>2, <1>3 DEF BillingInit
  <2>5. failures \in 0..MaxFailures  BY <1>1 DEF BillingInit
  <2> QED  BY <2>2, <2>3, <2>4, <2>5 DEF BillingInit, BillingTypeOK
<1>5. BillsAreOne /\ DraftsFit  BY DEF BillingInit, BillsAreOne, DraftsFit
<1>6. JobsFit
  <2>1. Date(0, 1).month = 0  BY DateParts
  <2> QED  BY <1>1, <1>2, <2>1 DEF BillingInit, JobsFit, IsCycle, Busy
<1>7. PastIsKnown
  <2>1. \A n \in Nat : n * Every \in Nat  BY <1>1
  <2> QED  BY <1>2, <2>1 DEF BillingInit, PastIsKnown, Busy
<1> QED  BY <1>4, <1>5, <1>6, <1>7 DEF BillingInv

-----------------------------------------------------------------------------
\* Time stays within the bound.
LEMMA TomorrowKeeps == ASSUME BillingInv, Tomorrow PROVE BillingInv'
<1>t. BillingTypeOK  BY DEF BillingInv
<1>1. /\ today' = IF today.day < Length(today.month) THEN Date(today.month, today.day + 1)
                                                      ELSE Date(today.month + 1, 1)
      /\ today'.month <= MaxMonth
      /\ UNCHANGED <<active, nextDue, lock, job, drafts, bills, occupied, gone, unbilled, failures>>
  BY DEF Tomorrow
<1>2. today.month \in Months /\ today.month \in Nat /\ today.day \in Nat
  BY <1>t, DateParts DEF BillingTypeOK
<1>3. today' \in Dates
  <2>1. MonthLength \in [0..Year - 1 -> Nat \ {0}] /\ Year \in Nat \ {0}
    BY CalendarIsSound
  <2> HIDE DEF Year
  <2>2. CASE today.day < Length(today.month)
    <3>1. Length(today.month) \in Nat /\ Length(today.month) = MonthLength[today.month % Year]
          /\ today.month % Year \in DOMAIN MonthLength
      BY <1>2, <2>1, LengthIsDay DEF Length
    <3>2. today.day + 1 \in 1..MonthLength[today.month % Year]  BY <1>2, <2>2, <3>1
    <3>3. today.day + 1 \in Days  BY <3>1, <3>2 DEF Days
    <3> QED  BY <1>1, <1>2, <2>2, <3>3, DateParts
  <2>3. CASE ~(today.day < Length(today.month))
    <3>1. today' = Date(today.month + 1, 1)  BY <1>1, <2>3
    <3>2. today.month + 1 \in Months
      <4>1. today'.month = today.month + 1  BY <3>1, DateParts
      <4>2. MaxMonth \in Nat /\ Every \in Nat  BY CalendarIsSound
      <4> QED  BY <1>1, <1>2, <4>1, <4>2 DEF Months
    <3>3. 1 \in Days
      <4>1. 0 \in DOMAIN MonthLength /\ MonthLength[0] \in Nat \ {0}  BY <2>1
      <4>2. 1 \in 1..MonthLength[0]  BY <4>1
      <4> QED  BY <4>1, <4>2 DEF Days
    <3> QED  BY <3>1, <3>2, <3>3, DateParts
  <2> QED  BY <2>2, <2>3
<1>4. BillingTypeOK'  BY <1>t, <1>1, <1>3 DEF BillingTypeOK
<1>5. BillsAreOne' /\ DraftsFit'  BY <1>1 DEF BillingInv, BillsAreOne, DraftsFit
<1>6. JobsFit'  BY <1>1 DEF BillingInv, JobsFit, Busy
<1>7. PastIsKnown'  BY <1>1 DEF BillingInv, PastIsKnown, Busy, Known, Billed
<1> QED  BY <1>4, <1>5, <1>6, <1>7 DEF BillingInv

\* Administrators change neither bills nor dates.
LEMMA AdministrateKeeps == ASSUME BillingInv, Administrate PROVE BillingInv'
<1>1. /\ active' \in BOOLEAN /\ occupied' \subseteq Apartments
      /\ UNCHANGED <<today, nextDue, lock, job, drafts, bills, gone, unbilled, failures>>
  BY DEF BillingInv, BillingTypeOK, Administrate
<1>2. BillingTypeOK'  BY <1>1 DEF BillingInv, BillingTypeOK
<1>3. BillsAreOne' /\ DraftsFit'  BY <1>1 DEF BillingInv, BillsAreOne, DraftsFit
<1>4. JobsFit'  BY <1>1 DEF BillingInv, JobsFit, Busy
<1>5. PastIsKnown'  BY <1>1 DEF BillingInv, PastIsKnown, Busy, Known, Billed
<1> QED  BY <1>2, <1>3, <1>4, <1>5 DEF BillingInv

\* A deleted unit was in no bill.
LEMMA DemolishKeeps == ASSUME BillingInv, NEW u \in Apartments, Demolish(u) PROVE BillingInv'
<1>1. /\ gone' = gone \cup {u} /\ occupied' = occupied \ {u}
      /\ UNCHANGED <<today, active, nextDue, lock, job, drafts, bills, unbilled, failures>>
  BY DEF Demolish
<1>2. BillingTypeOK'  BY <1>1 DEF BillingInv, BillingTypeOK
<1>3. BillsAreOne' /\ DraftsFit'  BY <1>1 DEF BillingInv, BillsAreOne, DraftsFit
<1>4. JobsFit'  BY <1>1 DEF BillingInv, JobsFit, Busy
<1>5. PastIsKnown'  BY <1>1 DEF BillingInv, PastIsKnown, Busy, Known, Billed
<1> QED  BY <1>2, <1>3, <1>4, <1>5 DEF BillingInv

\* A job starts when nobody has one, at the next due date.
LEMMA StartKeeps == ASSUME BillingInv, NEW p \in Processes, Start(p) PROVE BillingInv'
<1>t. BillingTypeOK  BY DEF BillingInv
<1> DEFINE new == [step |-> "look", now |-> today, due |-> nextDue, units |-> {}]
<1>1. /\ job[p] = JobIdle /\ NotAfter(nextDue, today) /\ lock = NoProcess
      /\ lock' = p /\ job' = [job EXCEPT ![p] = new]
      /\ UNCHANGED <<today, active, nextDue, drafts, bills, occupied, gone, unbilled, failures>>
  BY DEF Start
<1>2. /\ new \in Job /\ new.step = "look" /\ new.now = today /\ new.due = nextDue
  BY <1>t DEF Job, BillingTypeOK
<1> HIDE DEF new
<1>3. job'[p] = new /\ \A q \in Processes : q # p => job'[q] = job[q]
  BY <1>t, <1>1 DEF BillingTypeOK
<1>4. \A q \in Processes : ~Busy(q)
  BY <1>1, CalendarIsSound DEF BillingInv, JobsFit
<1>5. \A q \in Processes : q # p => ~Busy(q)'  BY <1>3, <1>4 DEF Busy
<1>6. BillingTypeOK'  BY <1>t, <1>1, <1>2 DEF BillingTypeOK
<1>7. BillsAreOne' /\ DraftsFit'
  BY <1>1, CalendarIsSound DEF BillingInv, BillsAreOne, DraftsFit
<1>8. JobsFit'
  <2>1. today'.month <= MaxMonth /\ IsCycle(nextDue)'
    BY <1>1 DEF BillingInv, JobsFit, IsCycle
  <2>2. lock' = p /\ job'[p].now.month <= MaxMonth /\ IsCycle(job'[p].due)
        /\ job'[p].step # "insert"
    BY <1>1, <1>2, <1>3 DEF BillingInv, JobsFit
  <2> QED  BY <1>5, <2>1, <2>2 DEF JobsFit, IsCycle
<1>9. PastIsKnown'
  <2>1. \A n \in Nat : n * Every < nextDue.month =>
          bills[CyclesTo[n]] # <<>> \/ CyclesTo[n] \in unbilled
    BY DEF BillingInv, PastIsKnown
  <2>2. \A n \in Nat : n * Every < job'[p].due.month => Known(CyclesTo[n])'
    BY <1>1, <1>2, <1>3, <2>1 DEF Known, Billed
  <2> QED  BY <1>1, <1>5, <2>1, <2>2 DEF PastIsKnown
<1> QED  BY <1>6, <1>7, <1>8, <1>9 DEF BillingInv

\* A job whose cycle is billed, or had nobody to bill, may go on to the next.
LEMMA AdvanceKeeps ==
    ASSUME BillingInv, NEW p \in Processes, Busy(p), NotAfter(job[p].due, job[p].now),
           Advance(p), UNCHANGED <<today, nextDue, lock, bills>>,
           \A d : Known(d) \/ d = job[p].due => Known(d)',
           unbilled \subseteq unbilled'
    PROVE  job' \in [Processes -> {JobIdle} \cup Job] /\ JobsFit' /\ PastIsKnown'
<1>t. BillingTypeOK  BY DEF BillingInv
<1>e. Every \in Nat \ {0} /\ MaxMonth \in Nat  BY CalendarIsSound
<1>j. job[p] \in Job  BY <1>t, BillingRecords
<1> DEFINE old == job[p]
           new == [job[p] EXCEPT !.step = "look", !.units = {}, !.due = AdvanceCycleDate(job[p].due)]
<1>1. /\ old.due \in Dates /\ old.now \in Dates /\ old.now.month <= MaxMonth
      /\ IsCycle(old.due) /\ lock = p
  BY <1>j DEF Job, BillingInv, JobsFit
<1>2. old.due.month <= MaxMonth
  <2>1. old.due.month \in Nat /\ old.now.month \in Nat  BY <1>1, DateParts
  <2> QED  BY <1>1, <1>e, <2>1 DEF NotAfter
<1>3. AdvanceCycleDate(old.due) \in Dates  BY <1>1, <1>2, AdvanceIsDate
<1>4. /\ new \in Job /\ new.step = "look" /\ new.now = old.now
      /\ new.due = AdvanceCycleDate(old.due)
  BY <1>j, <1>3 DEF Job
<1>5. job' = [job EXCEPT ![p] = new]  BY DEF Advance
<1> HIDE DEF new
<1>6. job'[p] = new /\ \A q \in Processes : q # p => job'[q] = job[q]
  BY <1>t, <1>5 DEF BillingTypeOK
<1>7. job' \in [Processes -> {JobIdle} \cup Job]
  BY <1>t, <1>4, <1>5 DEF BillingTypeOK
<1>8. \A q \in Processes : q # p => ~Busy(q)  BY <1>1 DEF BillingInv, JobsFit
<1>9. \A q \in Processes : q # p => ~Busy(q)'  BY <1>6, <1>8 DEF Busy
<1>10. PICK n \in Nat : old.due = CyclesTo[n]  BY <1>1 DEF IsCycle
<1>11. new.due = CyclesTo[n + 1] /\ new.due.month = (n + 1) * Every /\ n + 1 \in Nat
       /\ old.due.month = n * Every
  BY <1>4, <1>10, CyclesAdvance
<1>12. JobsFit'
  <2>1. today'.month <= MaxMonth /\ IsCycle(nextDue)'
    BY DEF BillingInv, JobsFit, IsCycle
  <2>2. lock' = p /\ job'[p].now.month <= MaxMonth /\ IsCycle(job'[p].due)
        /\ job'[p].step # "insert"
    BY <1>1, <1>4, <1>6, <1>11 DEF IsCycle
  <2> QED  BY <1>9, <2>1, <2>2 DEF JobsFit, IsCycle
<1>13. PastIsKnown'
  <2>1. \A m \in Nat : m * Every < nextDue'.month =>
          bills'[CyclesTo[m]] # <<>> \/ CyclesTo[m] \in unbilled'
    BY DEF BillingInv, PastIsKnown
  <2>2. ASSUME NEW m \in Nat, m * Every < job'[p].due.month PROVE Known(CyclesTo[m])'
    <3>1. m < n + 1  BY <1>6, <1>11, <2>2, CycleNumbers
    <3>2. CASE m = n  BY <1>10, <3>2
    <3>3. CASE m # n
      <4>1. m * Every < old.due.month  BY <1>11, <3>1, <3>3, CycleNumbers
      <4>2. Known(CyclesTo[m])  BY <4>1 DEF BillingInv, PastIsKnown
      <4> QED  BY <4>2
    <3> QED  BY <3>2, <3>3
  <2> QED  BY <1>9, <2>1, <2>2 DEF PastIsKnown
<1> QED  BY <1>7, <1>12, <1>13

\* A job passes a cycle only when it has a bill or nobody to bill.
LEMMA SkipKeeps == ASSUME BillingInv, NEW p \in Processes, Skip(p) PROVE BillingInv'
<1>t. BillingTypeOK  BY DEF BillingInv
<1>1. /\ job[p].step = "look" /\ NotAfter(job[p].due, job[p].now)
      /\ unbilled' = IF Billed(job[p].due) THEN unbilled ELSE unbilled \cup {job[p].due}
      /\ Advance(p)
      /\ UNCHANGED <<today, active, nextDue, lock, drafts, bills, occupied, gone, failures>>
  BY DEF Skip, Due
<1>2. Busy(p) /\ job[p] \in Job  BY <1>t, <1>1, BillingRecords
<1>3. \A d : Billed(d)' <=> Billed(d)  BY <1>1 DEF Billed
<1>4. /\ unbilled \subseteq unbilled' /\ unbilled' \subseteq unbilled \cup {job[p].due}
      /\ Billed(job[p].due) \/ job[p].due \in unbilled'
  BY <1>1
<1>5. \A d : Known(d) \/ d = job[p].due => Known(d)'
  BY <1>3, <1>4 DEF Known
<1>6. job' \in [Processes -> {JobIdle} \cup Job] /\ JobsFit' /\ PastIsKnown'
  BY <1>1, <1>2, <1>4, <1>5, AdvanceKeeps
<1>7. BillingTypeOK'
  <2>1. job[p].due \in Dates  BY <1>2 DEF Job
  <2> QED  BY <1>t, <1>1, <1>4, <1>6, <2>1 DEF BillingTypeOK
<1>8. BillsAreOne' /\ DraftsFit'  BY <1>1 DEF BillingInv, BillsAreOne, DraftsFit
<1> QED  BY <1>6, <1>7, <1>8 DEF BillingInv

\* What a job is about to bill has a unit.
LEMMA LookKeeps == ASSUME BillingInv, NEW p \in Processes, Look(p) PROVE BillingInv'
<1>t. BillingTypeOK  BY DEF BillingInv
<1>1. /\ job[p].step = "look" /\ NotAfter(job[p].due, job[p].now) /\ occupied # {}
      /\ job' = [job EXCEPT ![p].step = "insert", ![p].units = occupied]
      /\ UNCHANGED <<today, active, nextDue, lock, drafts, bills, occupied, gone, unbilled, failures>>
  BY DEF Look, Due
<1>2. Busy(p) /\ job[p] \in Job  BY <1>t, <1>1, BillingRecords
<1> DEFINE new == [job[p] EXCEPT !.step = "insert", !.units = occupied]
<1>3. new \in Job /\ new.now = job[p].now /\ new.due = job[p].due /\ new.units = occupied
  BY <1>t, <1>2 DEF Job, BillingTypeOK
<1>4. job' = [job EXCEPT ![p] = new]  BY <1>t, <1>1 DEF BillingTypeOK
<1> HIDE DEF new
<1>5. job'[p] = new /\ \A q \in Processes : q # p => job'[q] = job[q]
  BY <1>t, <1>4 DEF BillingTypeOK
<1>6. \A q \in Processes : Busy(q)' => Busy(q)  BY <1>2, <1>5 DEF Busy
<1>7. BillingTypeOK'  BY <1>t, <1>1, <1>3, <1>4 DEF BillingTypeOK
<1>8. BillsAreOne' /\ DraftsFit'  BY <1>1 DEF BillingInv, BillsAreOne, DraftsFit
<1>9. JobsFit'
  <2>1. today'.month <= MaxMonth /\ IsCycle(nextDue)'
    BY <1>1 DEF BillingInv, JobsFit, IsCycle
  <2>2. ASSUME NEW q \in Processes, Busy(q)'
        PROVE  /\ lock' = q /\ job'[q].now.month <= MaxMonth /\ IsCycle(job'[q].due)
               /\ job'[q].step = "insert" =>
                     job'[q].units # {} /\ NotAfter(job'[q].due, job'[q].now)
    <3>1. Busy(q)  BY <1>6, <2>2
    <3>2. /\ lock = q /\ job[q].now.month <= MaxMonth /\ IsCycle(job[q].due)
      BY <3>1 DEF BillingInv, JobsFit
    <3>3. CASE q = p  BY <1>1, <1>3, <1>5, <3>2, <3>3
    <3>4. CASE q # p  BY <1>1, <1>5, <3>1, <3>2, <3>4 DEF BillingInv, JobsFit
    <3> QED  BY <3>3, <3>4
  <2> QED  BY <2>1, <2>2 DEF JobsFit, IsCycle
<1>10. PastIsKnown'
  <2>1. \A d : Known(d) => Known(d)'  BY <1>1 DEF Known, Billed
  <2>2. ASSUME NEW q \in Processes, Busy(q)', NEW n \in Nat, n * Every < job'[q].due.month
        PROVE  Known(CyclesTo[n])'
    <3>1. job'[q].due = job[q].due  BY <1>3, <1>5
    <3>2. Known(CyclesTo[n])  BY <1>6, <2>2, <3>1 DEF BillingInv, PastIsKnown
    <3> QED  BY <2>1, <3>2
  <2> QED  BY <1>1, <2>2 DEF BillingInv, PastIsKnown
<1> QED  BY <1>7, <1>8, <1>9, <1>10 DEF BillingInv

\* A bill is inserted only for a cycle without one, so after it there is one,
\* unless a unit was deleted meanwhile.
LEMMA InsertBillKeeps == ASSUME BillingInv, NEW p \in Processes, InsertBill(p) PROVE BillingInv'
<1>t. BillingTypeOK  BY DEF BillingInv
<1>1. /\ job[p].step = "insert"
      /\ drafts' = IF Refused(p) THEN drafts
                   ELSE drafts \cup {<<job[p].due, job[p].units>>}
      /\ unbilled' = IF Refused(p) /\ ~Billed(job[p].due)
                     THEN unbilled \cup {job[p].due} ELSE unbilled
      /\ Billed(job[p].due) => Refused(p)
      /\ Advance(p)
      /\ UNCHANGED <<today, active, nextDue, lock, bills, occupied, gone, failures>>
  BY DEF InsertBill, Refused, Conflicts
<1>2. Busy(p) /\ job[p] \in Job  BY <1>t, <1>1, BillingRecords
<1>3. /\ lock = p /\ job[p].units # {} /\ NotAfter(job[p].due, job[p].now)
      /\ job[p].due \in Dates /\ job[p].units \in SUBSET Apartments
  BY <1>1, <1>2 DEF BillingInv, JobsFit, Job
<1> DEFINE b0 == <<job[p].due, job[p].units>>
<1>4. /\ drafts \subseteq drafts' /\ \A b \in drafts' : b \in drafts \/ (b = b0 /\ ~Billed(job[p].due))
      /\ Billed(job[p].due) \/ b0 \in drafts' \/ job[p].due \in unbilled'
      /\ unbilled \subseteq unbilled' /\ unbilled' \subseteq unbilled \cup {job[p].due}
  BY <1>1
<1>b. b0[1] = job[p].due /\ b0[2] = job[p].units /\ b0 \in Dates \X SUBSET Apartments
  BY <1>3
<1> HIDE DEF b0
<1>5. \A d : Known(d) \/ d = job[p].due => Known(d)'
  BY <1>1, <1>4, <1>b DEF Known, Billed
<1>6. job' \in [Processes -> {JobIdle} \cup Job] /\ JobsFit' /\ PastIsKnown'
  BY <1>1, <1>2, <1>3, <1>4, <1>5, AdvanceKeeps
<1>7. BillingTypeOK'
  <2>1. drafts' \subseteq Dates \X SUBSET Apartments  BY <1>t, <1>4, <1>b DEF BillingTypeOK
  <2> QED  BY <1>t, <1>1, <1>3, <1>4, <1>6, <2>1 DEF BillingTypeOK
<1>8. BillsAreOne'  BY <1>1 DEF BillingInv, BillsAreOne
<1>9. DraftsFit'
  <2>1. \A b, c \in drafts' : b[1] = c[1] => b = c
    BY <1>4, <1>b DEF BillingInv, DraftsFit, Billed
  <2>2. \A b \in drafts' : b[2] # {} /\ bills'[b[1]] = <<>>
    BY <1>1, <1>3, <1>4, <1>b DEF BillingInv, DraftsFit, Billed
  <2>3. lock' # NoProcess  BY <1>1, <1>3, CalendarIsSound
  <2> QED  BY <2>1, <2>2, <2>3 DEF DraftsFit
<1> QED  BY <1>6, <1>7, <1>8, <1>9 DEF BillingInv

\* A failed job leaves committed bills and the next due date alone.
LEMMA FailKeeps == ASSUME BillingInv, NEW p \in Processes, Fail(p) PROVE BillingInv'
<1>t. BillingTypeOK  BY DEF BillingInv
<1>1. /\ Busy(p) /\ failures < MaxFailures /\ failures' = failures + 1
      /\ drafts' = {} /\ lock' = NoProcess /\ job' = [job EXCEPT ![p] = JobIdle]
      /\ UNCHANGED <<today, active, nextDue, bills, occupied, gone, unbilled>>
  BY DEF Fail, Busy
<1>2. \A q \in Processes : q # p => ~Busy(q)  BY <1>1 DEF BillingInv, JobsFit
<1>3. \A q \in Processes : ~Busy(q)'  BY <1>t, <1>1, <1>2 DEF BillingTypeOK, Busy
<1>4. failures' \in 0..MaxFailures
  <2>1. MaxFailures \in Nat  BY CalendarIsSound
  <2> QED  BY <1>t, <1>1, <2>1 DEF BillingTypeOK
<1>5. BillingTypeOK'
  <2>1. job' \in [Processes -> {JobIdle} \cup Job]  BY <1>t, <1>1 DEF BillingTypeOK
  <2> QED  BY <1>t, <1>1, <1>4, <2>1 DEF BillingTypeOK
<1>6. BillsAreOne' /\ DraftsFit'  BY <1>1 DEF BillingInv, BillsAreOne, DraftsFit
<1>7. JobsFit'  BY <1>1, <1>3 DEF BillingInv, JobsFit, IsCycle
<1>8. PastIsKnown'  BY <1>1, <1>3 DEF BillingInv, PastIsKnown
<1> QED  BY <1>5, <1>6, <1>7, <1>8 DEF BillingInv

\* A bill made without the lock is of a cycle that had none.
LEMMA BillElsewhereKeeps ==
    ASSUME BillingInv, NEW p \in Processes, BillElsewhere(p) PROVE BillingInv'
<1>t. BillingTypeOK  BY DEF BillingInv
<1> DEFINE due == job[p].due
           units == job[p].units
<1>1. /\ job[p].step = "insert" /\ ~Billed(due)
      /\ bills' = [bills EXCEPT ![due] = Append(bills[due], units)]
      /\ UNCHANGED <<today, active, nextDue, lock, job, drafts, occupied, gone, unbilled, failures>>
  BY DEF BillElsewhere
<1>2. Busy(p) /\ job[p] \in Job  BY <1>t, <1>1, BillingRecords
<1>3. due \in Dates /\ units \in (SUBSET Apartments) \ {{}}
  BY <1>1, <1>2 DEF BillingInv, JobsFit, Job
<1> HIDE DEF due, units
<1>4. bills[due] = <<>>  BY <1>1 DEF Billed
<1>5. Append(bills[due], units) = <<units>>  BY <1>4
<1>6. bills' = [bills EXCEPT ![due] = <<units>>]  BY <1>1, <1>5
<1>7. bills'[due] = <<units>> /\ \A d : d # due => bills'[d] = bills[d]
  <2>1. DOMAIN bills = Dates  BY <1>t DEF BillingTypeOK
  <2>2. bills'[due] = <<units>> /\ \A d \in Dates : d # due => bills'[d] = bills[d]
    BY <1>3, <1>6, <2>1
  <2> QED  BY <1>6, <2>2
<1>8. BillingTypeOK'
  <2>1. <<units>> \in Seq(SUBSET Apartments)  BY <1>3
  <2>2. bills' \in [Dates -> Seq(SUBSET Apartments)]  BY <1>t, <1>6, <2>1 DEF BillingTypeOK
  <2> QED  BY <1>t, <1>1, <2>2 DEF BillingTypeOK
<1>9. BillsAreOne'  BY <1>3, <1>7 DEF BillingInv, BillsAreOne
<1>10. DraftsFit'
  <2>1. \A b \in drafts : b[1] # due  BY <1>1 DEF Billed
  <2> QED  BY <1>1, <1>7, <2>1 DEF BillingInv, DraftsFit
<1>11. JobsFit'  BY <1>1 DEF BillingInv, JobsFit, Busy, IsCycle
<1>12. PastIsKnown'
  <2>0. <<units>> # <<>>  OBVIOUS
  <2>1. \A d : bills[d] # <<>> => bills'[d] # <<>>  BY <1>4, <1>7, <2>0
  <2>2. \A d : Known(d) => Known(d)'  BY <1>1, <2>1 DEF Known, Billed
  <2> QED  BY <1>1, <2>1, <2>2 DEF BillingInv, PastIsKnown, Busy
<1> QED  BY <1>8, <1>9, <1>10, <1>11, <1>12 DEF BillingInv

\* What a job has inserted becomes visible with the date it has come to.
LEMMA FinishKeeps == ASSUME BillingInv, NEW p \in Processes, Finish(p) PROVE BillingInv'
<1>t. BillingTypeOK  BY DEF BillingInv
<1> DEFINE Now(d) == {b[2] : b \in {c \in drafts : c[1] = d}}
<1>1. /\ job[p].step = "look" /\ nextDue' = job[p].due
      /\ bills' = [d \in Dates |-> bills[d] \o SetToSeq(Now(d))]
      /\ drafts' = {} /\ lock' = NoProcess /\ job' = [job EXCEPT ![p] = JobIdle]
      /\ UNCHANGED <<today, active, occupied, gone, unbilled, failures>>
  BY DEF Finish
<1>2. Busy(p) /\ job[p] \in Job  BY <1>t, <1>1, BillingRecords
<1>3. IsCycle(job[p].due) /\ lock = p /\ job[p].due \in Dates
  BY <1>2 DEF BillingInv, JobsFit, Job
<1>4. \A q \in Processes : q # p => ~Busy(q)  BY <1>3 DEF BillingInv, JobsFit
<1>5. \A q \in Processes : ~Busy(q)'  BY <1>t, <1>1, <1>4 DEF BillingTypeOK, Busy
<1>6. ASSUME NEW d \in Dates, \A b \in drafts : b[1] # d
      PROVE  bills'[d] = bills[d]
  <2>1. Now(d) = {}  BY <1>6
  <2>2. SetToSeq(Now(d)) = <<>>  BY <2>1, ListOfFew
  <2>3. bills'[d] = bills[d] \o SetToSeq(Now(d))  BY <1>1
  <2>4. bills[d] \in Seq(SUBSET Apartments)  BY <1>t DEF BillingTypeOK
  <2> HIDE DEF Now
  <2> QED  BY <2>2, <2>3, <2>4
<1>7. ASSUME NEW b \in drafts
      PROVE  /\ b[1] \in Dates /\ b[2] \in (SUBSET Apartments) \ {{}}
             /\ bills'[b[1]] = <<b[2]>>
  <2>1. b[1] \in Dates /\ b[2] \in (SUBSET Apartments) \ {{}} /\ bills[b[1]] = <<>>
    BY <1>t DEF BillingInv, BillingTypeOK, DraftsFit
  <2>2. {c \in drafts : c[1] = b[1]} = {b}  BY DEF BillingInv, DraftsFit
  <2>3. Now(b[1]) = {b[2]}  BY <2>2
  <2>4. SetToSeq(Now(b[1])) = <<b[2]>>  BY <2>3, ListOfFew
  <2>5. bills'[b[1]] = bills[b[1]] \o SetToSeq(Now(b[1]))  BY <1>1, <2>1
  <2> HIDE DEF Now
  <2>6. bills'[b[1]] = <<>> \o <<b[2]>>  BY <2>1, <2>4, <2>5
  <2>7. <<>> \o <<b[2]>> = <<b[2]>>  OBVIOUS
  <2> QED  BY <2>1, <2>6, <2>7
<1> HIDE DEF Now
<1>8. BillsAreOne'
  <2> SUFFICES ASSUME NEW d \in Dates
               PROVE  bills'[d] = <<>> \/ \E U \in (SUBSET Apartments) \ {{}} : bills'[d] = <<U>>
    BY DEF BillsAreOne
  <2>1. CASE \A b \in drafts : b[1] # d  BY <1>6, <2>1 DEF BillingInv, BillsAreOne
  <2>2. CASE \E b \in drafts : b[1] = d  BY <1>7, <2>2
  <2> QED  BY <2>1, <2>2
<1>9. BillingTypeOK'
  <2>1. job' \in [Processes -> {JobIdle} \cup Job]  BY <1>t, <1>1 DEF BillingTypeOK
  <2>2. \A d \in Dates : bills'[d] \in Seq(SUBSET Apartments)
    <3> SUFFICES ASSUME NEW d \in Dates PROVE bills'[d] \in Seq(SUBSET Apartments)
      OBVIOUS
    <3>1. CASE bills'[d] = <<>>  BY <3>1
    <3>2. CASE \E U \in SUBSET Apartments : bills'[d] = <<U>>
      <4>1. PICK U \in SUBSET Apartments : bills'[d] = <<U>>  BY <3>2
      <4>2. <<U>> \in Seq(SUBSET Apartments)  OBVIOUS
      <4> QED  BY <4>1, <4>2
    <3> QED  BY <1>8, <3>1, <3>2 DEF BillsAreOne
  <2>3. bills' \in [Dates -> Seq(SUBSET Apartments)]
    <3>1. bills' = [d \in Dates |-> bills'[d]]  BY <1>1
    <3> QED  BY <2>2, <3>1
  <2>4. drafts' \subseteq Dates \X SUBSET Apartments  BY <1>1
  <2> QED  BY <1>t, <1>1, <1>3, <2>1, <2>3, <2>4 DEF BillingTypeOK
<1>10. DraftsFit'  BY <1>1 DEF DraftsFit
<1>11. JobsFit'
  <2>1. IsCycle(nextDue')  BY <1>1, <1>3
  <2>2. today.month <= MaxMonth  BY DEF BillingInv, JobsFit
  <2> QED  BY <1>1, <1>5, <2>1, <2>2 DEF JobsFit, IsCycle
<1>12. PastIsKnown'
  <2>1. ASSUME NEW n \in Nat, n * Every < nextDue'.month
        PROVE  bills'[CyclesTo[n]] # <<>> \/ CyclesTo[n] \in unbilled'
    <3> DEFINE d == CyclesTo[n]
    <3>1. Known(d)  BY <1>1, <1>2, <2>1 DEF BillingInv, PastIsKnown
    <3>2. d \in Dates
      <4>1. MaxMonth \in Nat /\ Every \in Nat /\ n * Every \in Nat  BY CalendarIsSound
      <4>2. job[p].due.month \in Months  BY <1>3, DateParts
      <4>3. n * Every <= MaxMonth + Every  BY <1>1, <2>1, <4>1, <4>2 DEF Months
      <4> QED  BY <4>3, CycleIsDate
    <3> HIDE DEF d
    <3>3. CASE d \in unbilled  BY <1>1, <3>3 DEF d
    <3>4. CASE \E b \in drafts : b[1] = d
      <4>1. PICK b \in drafts : b[1] = d  BY <3>4
      <4>2. bills'[d] = <<b[2]>>  BY <1>7, <4>1
      <4>3. bills'[d] # <<>>  BY <4>2
      <4> QED  BY <4>3 DEF d
    <3>5. CASE bills[d] # <<>> /\ \A b \in drafts : b[1] # d
      <4>1. bills'[d] # <<>>  BY <1>6, <3>2, <3>5
      <4> QED  BY <4>1 DEF d
    <3> QED  BY <3>1, <3>3, <3>4, <3>5 DEF Known, Billed
  <2> QED  BY <1>5, <2>1 DEF PastIsKnown
<1> QED  BY <1>8, <1>9, <1>10, <1>11, <1>12 DEF BillingInv

\* Every step keeps the invariant.
LEMMA BillingInvNext == ASSUME BillingInv, [BillingNext]_billingVars PROVE BillingInv'
<1>1. CASE Tomorrow  BY <1>1, TomorrowKeeps
<1>2. CASE Administrate  BY <1>2, AdministrateKeeps
<1>5. CASE \E u \in Apartments : Demolish(u)  BY <1>5, DemolishKeeps
<1>3. ASSUME NEW p \in Processes, Work(p) \/ Fail(p) \/ BillElsewhere(p) PROVE BillingInv'
  BY <1>3, StartKeeps, SkipKeeps, LookKeeps, InsertBillKeeps, FinishKeeps, FailKeeps,
     BillElsewhereKeeps
  DEF Work
<1>4. CASE UNCHANGED billingVars
  <2>1. UNCHANGED <<today, active, nextDue, lock, job, drafts, bills, occupied, gone,
                    unbilled, failures>>
    BY <1>4 DEF billingVars
  <2>2. BillingTypeOK'  BY <2>1 DEF BillingInv, BillingTypeOK
  <2>3. BillsAreOne' /\ DraftsFit'  BY <2>1 DEF BillingInv, BillsAreOne, DraftsFit
  <2>4. JobsFit' /\ PastIsKnown'
    BY <2>1 DEF BillingInv, JobsFit, PastIsKnown, Known, Billed, Busy, IsCycle
  <2> QED  BY <2>2, <2>3, <2>4 DEF BillingInv
<1> QED  BY <1>1, <1>2, <1>3, <1>4, <1>5 DEF BillingNext

\* It holds of every behaviour.
LEMMA BillingInvHolds == BillingSpec => []BillingInv
<1>1. BillingInv /\ [BillingNext]_billingVars => BillingInv'  BY BillingInvNext
<1> QED  BY <1>1, BillingInvInit, PTL DEF BillingSpec

\* The invariant says that the cycles are billed once.
LEMMA BillingInvSuffices == ASSUME BillingInv PROVE CyclesAreBilledOnce
<1>1. \A d \in Dates : Len(bills[d]) <= 1 /\ \A i \in DOMAIN bills[d] : bills[d][i] # {}
  <2> SUFFICES ASSUME NEW d \in Dates
               PROVE  Len(bills[d]) <= 1 /\ \A i \in DOMAIN bills[d] : bills[d][i] # {}
    OBVIOUS
  <2>1. CASE bills[d] = <<>>  BY <2>1
  <2>2. ASSUME NEW U \in (SUBSET Apartments) \ {{}}, bills[d] = <<U>>
        PROVE  Len(bills[d]) <= 1 /\ \A i \in DOMAIN bills[d] : bills[d][i] # {}
    <3>1. Len(<<U>>) = 1 /\ DOMAIN <<U>> = {1} /\ <<U>>[1] = U  OBVIOUS
    <3> QED  BY <2>2, <3>1
  <2> QED  BY <2>1, <2>2 DEF BillingInv, BillsAreOne
<1>2. \A d \in PastCycles : bills[d] # <<>> \/ d \in unbilled
  <2> SUFFICES ASSUME NEW d \in PastCycles PROVE bills[d] # <<>> \/ d \in unbilled
    OBVIOUS
  <2>1. PICK n \in {k \in 0..MaxMonth : k * Every < nextDue.month} : d = CyclesTo[n]
    BY DEF PastCycles
  <2>2. n \in Nat /\ n * Every < nextDue.month
    <3>1. MaxMonth \in Nat  BY CalendarIsSound
    <3> QED  BY <2>1, <3>1
  <2> QED  BY <2>1, <2>2 DEF BillingInv, PastIsKnown
<1>3. nextDue = CyclesTo[nextDue.month \div Every]
  <2>1. PICK n \in Nat : nextDue = CyclesTo[n]  BY DEF BillingInv, JobsFit, IsCycle
  <2>2. nextDue.month = n * Every  BY <2>1, CyclesAdvance
  <2>3. nextDue.month \div Every = n  BY <2>2, CycleNumbers
  <2> QED  BY <2>1, <2>3
<1> QED  BY <1>1, <1>2, <1>3 DEF CyclesAreBilledOnce

\* Whatever the calendar and however many processes run the job, fail, or are
\* overtaken by the administrators' service, a cycle gets at most one bill, none
\* is left out unless nobody lived there or a unit was deleted while it was
\* billed, and the due dates are those of the calendar
\* (recurring_billing.py, billing.py:87-92).
THEOREM CyclesAreBilled == BillingSpec => []CyclesAreBilledOnce
<1>1. BillingInv => CyclesAreBilledOnce  BY BillingInvSuffices
<1> QED  BY <1>1, BillingInvHolds, PTL

-----------------------------------------------------------------------------
(* WalletSetup.                                                            *)

\* Whose account Nomba has made without the profile knowing it yet.
CreatedRefs ==
    {submission[s].ref : s \in {o \in Submissions : submission[o].step = "created"}}

\* The account in the profile exists at Nomba.
StoredAccountExists == HasAccount(profile) => profile.ref \in accounts

\* So do those that requests under way have created.
CreatedExists == CreatedRefs \subseteq accounts

\* The row of a profile is never deleted.
RowsStay ==
    profile = NoProfile =>
        \A s \in Submissions : submission[s] # NoSubmission => submission[s].row = NoProfile

\* Unless submissions have overlapped, one is under way at most, it knows the
\* stored row, and it uses the reference of that row if there is one.
OneSubmission ==
    ~together =>
        /\ \A s, o \in Submissions :
              submission[s] # NoSubmission /\ submission[o] # NoSubmission => s = o
        /\ \A s \in Submissions : submission[s] # NoSubmission =>
              /\ submission[s].row = profile
              /\ ~HasAccount(profile)

\* Unless submissions overlapped, a profile with an account is an active one.
AccountIsActive == ~together => (HasAccount(profile) <=> profile.status = "active")

\* Unless they did, an account is in the profile, with a request, or astray.
AccountsAreKnown == ~together => accounts \subseteq strays \cup {profile.ref} \cup CreatedRefs

\* The inductive invariant of the wallet setup.
SetupInv ==
    /\ SetupTypeOK /\ StoredAccountExists /\ CreatedExists
    /\ RowsStay /\ OneSubmission /\ AccountIsActive /\ AccountsAreKnown

\* It holds at the start.
LEMMA SetupInvInit == SetupInit => SetupInv
<1> SUFFICES ASSUME SetupInit PROVE SetupInv
  OBVIOUS
<1> USE ReferencesAreNamed DEF SetupInit, NoProfile
<1>1. SetupTypeOK
  <2>1. submission \in [Submissions -> {NoSubmission} \cup Submission] /\ together \in BOOLEAN
    OBVIOUS
  <2> QED  BY <2>1 DEF SetupTypeOK
<1>2. StoredAccountExists /\ AccountIsActive  BY DEF StoredAccountExists, AccountIsActive, HasAccount
<1>3. CreatedExists /\ AccountsAreKnown
  BY DEF CreatedExists, AccountsAreKnown, CreatedRefs, NoSubmission
<1>4. OneSubmission /\ RowsStay  BY DEF OneSubmission, RowsStay
<1> QED  BY <1>1, <1>2, <1>3, <1>4 DEF SetupInv

\* Every step keeps it.
LEMMA SetupInvNext == SetupInv /\ [SetupNext]_setupVars => SetupInv'
<1> SUFFICES ASSUME SetupInv, [SetupNext]_setupVars
             PROVE  SetupInv'
  OBVIOUS
<1> USE ReferencesAreNamed DEF SetupInv, SetupTypeOK, StoredAccountExists, CreatedExists,
        OneSubmission, AccountIsActive, AccountsAreKnown, CreatedRefs, HasAccount,
        RowsStay, NoProfile, NoSubmission, Profile, Submission, Forget, Step
<1>1. ASSUME NEW s \in Submissions, SubmitLoad(s)
      PROVE  SetupInv'
  <2>1. SetupTypeOK'  BY <1>1 DEF SubmitLoad
  <2>2. StoredAccountExists' /\ AccountIsActive'  BY <1>1 DEF SubmitLoad
  <2>3. CreatedExists' /\ AccountsAreKnown'  BY <1>1 DEF SubmitLoad
  <2>4. ~together' => ~together /\ \A o \in Submissions : submission[o] = NoSubmission
    BY <1>1 DEF SubmitLoad
  <2>5. profile' = profile /\ submission'[s].row = profile  BY <1>1 DEF SubmitLoad
  <2>6. \A o \in Submissions \ {s} : submission'[o] = submission[o]  BY <1>1 DEF SubmitLoad
  <2>7. ~together => ~HasAccount(profile)  BY <1>1 DEF SubmitLoad
  <2>8. OneSubmission' /\ RowsStay'  BY <2>4, <2>5, <2>6, <2>7
  <2> QED  BY <2>1, <2>2, <2>3, <2>8
<1>2. ASSUME NEW s \in Submissions, Authenticate(s)
      PROVE  SetupInv'
  BY <1>2 DEF Authenticate
<1>3. ASSUME NEW s \in Submissions, Create(s)
      PROVE  SetupInv'
  BY <1>3 DEF Create
<1>4. ASSUME NEW s \in Submissions, Refuse(s)
      PROVE  SetupInv'
  BY <1>4 DEF Refuse
<1>5. ASSUME NEW s \in Submissions, Succeed(s)
      PROVE  SetupInv'
  <2>0. profile' \in {NoProfile} \cup Profile
    <3>1. submission[s] \in Submission  BY <1>5 DEF Succeed
    <3>2. profile.ref \in References \cup {NoReference} /\ submission[s].ref \in References
      BY <3>1
    <3>3. Flushed(profile.status, submission[s].row.status, "active") \in {profile.status, "active"}
      BY DEF Flushed
    <3>4. Flushed(profile.ref, submission[s].row.ref, submission[s].ref)
             \in References \cup {NoReference}
      BY <3>2 DEF Flushed
    <3>5. profile.status \in {"account_creation_failed", "active"}
             \/ (profile = NoProfile /\ submission[s].row = NoProfile)
      BY <1>5 DEF Succeed
    <3> QED  BY <1>5, <3>3, <3>4, <3>5 DEF Succeed, Stored, Flushed
  <2>1. SetupTypeOK'  BY <1>5, <2>0 DEF Succeed
  <2>2. StoredAccountExists'  BY <1>5 DEF Succeed, Stored, Flushed
  <2>3. AccountIsActive'  BY <1>5 DEF Succeed, Stored, Flushed
  <2>4. CreatedExists'  BY <1>5 DEF Succeed, Stored, Flushed
  <2>5. AccountsAreKnown'  BY <1>5 DEF Succeed, Stored, Flushed
  <2>6. OneSubmission' /\ RowsStay'  BY <1>5 DEF Succeed, Stored, Flushed
  <2> QED  BY <2>1, <2>2, <2>3, <2>4, <2>5, <2>6
<1>6. ASSUME NEW s \in Submissions, Failed(s)
      PROVE  SetupInv'
  BY <1>6 DEF Failed, Stored, Flushed, KeepRef
<1>7. CASE Die
  BY <1>7 DEF Die
<1>8. CASE TokenExpires
  BY <1>8 DEF TokenExpires
<1>9. CASE UNCHANGED setupVars
  BY <1>9 DEF setupVars
<1> QED  BY <1>1, <1>2, <1>3, <1>4, <1>5, <1>6, <1>7, <1>8, <1>9 DEF SetupNext

\* The account shown to the resident exists at Nomba; and unless submissions
\* overlapped, an account in the profile is active and every other one at Nomba
\* is one whose details never came back (wallet_setup.py:80-144).
THEOREM WalletsAreSetUp == SetupSpec => []WalletIsSetUp
<1>1. SetupInv => WalletIsSetUp
  BY DEF SetupInv, WalletIsSetUp, StoredAccountExists, AccountIsActive, AccountsAreKnown,
     CreatedRefs, AccountIsShown
<1> QED  BY <1>1, SetupInvInit, SetupInvNext, PTL DEF SetupSpec

-----------------------------------------------------------------------------
(* The operations.                                                         *)

\* Every step of the composition is a step of one part, and no step of any
\* other.
LEMMA OperationsStep ==
    ASSUME [Next]_vars
    PROVE  /\ [LiveNext]_liveVars /\ [BillingNext]_billingVars /\ [SetupNext]_setupVars
BY DEF Next, vars

\* What the service does by itself is, for every part, what its own
\* specification allows, its fairness included.
THEOREM OperationsKeepToTheirParts == Spec => LiveSpec /\ BillingSpec /\ SetupSpec
<1>1. Init => LiveInit /\ BillingInit /\ SetupInit  BY DEF Init
<1> QED  BY <1>1, OperationsStep, PTL DEF Spec, LiveSpec, BillingSpec, SetupSpec

\* Every variable of every part stays within its type, whatever workers,
\* processes, units and bounds there are.
THEOREM OperationTypes == Spec => []TypeOK
<1>1. LiveInv /\ BillingInv /\ SetupInv => TypeOK
  BY DEF LiveInv, BillingInv, SetupInv, TypeOK
<1>2. SetupSpec => []SetupInv  BY SetupInvInit, SetupInvNext, PTL DEF SetupSpec
<1> QED  BY <1>1, <1>2, LiveInvHolds, BillingInvHolds, OperationsKeepToTheirParts, PTL

\* What holds of each part holds of what the service does by itself.
THEOREM OperationsAreSafe ==
    Spec => [](StreamsAreInOrder /\ CyclesAreBilledOnce /\ WalletIsSetUp)
BY OperationsKeepToTheirParts, StreamsStayInOrder, CyclesAreBilled, WalletsAreSetUp, PTL
=============================================================================
