---------------------------- MODULE EventStream ----------------------------
(***************************************************************************)
(* The event stream of the daemon: a client follows the durable events of   *)
(* a task, or of all tasks, over connections that break.  Source:           *)
(* openEventStream and SseSink of src/src/daemon.ts, InProcessMessageBus of *)
(* src/src/message-bus.ts, #publish of src/src/coordinator.ts, appendEvent  *)
(* and listEventsAfter of src/src/db.ts.                                    *)
(*                                                                          *)
(* An event is its id, the position in the table.  One client is modelled,  *)
(* since streams share nothing but the table; frames have the same size,    *)
(* and the limits count frames instead of bytes.  How many frames the limit *)
(* of the queue comes to depends on that size, which nothing in the code    *)
(* limits to what a page of them would need.  The client is an EventSource: *)
(* it keeps the last id it got and connects again.                          *)
(***************************************************************************)
EXTENDS Naturals, Sequences, FiniteSets

CONSTANTS
  Tasks,       \* tasks with events
  Watched,     \* the tasks the client asks for: one, or all of them
  After,       \* the cursor in the client's URL
  PageLimit,   \* limit of listEventsAfter in the drain
  HighWater,   \* frames the response takes before write returns false
  QueueSizes,  \* frames that SSE_MAX_BUFFER_BYTES may come to
  MaxEvents,   \* bound on the events
  MaxBreaks,   \* bound on the connections that break
  MaxBeats     \* bound on the heartbeats

ASSUME StreamAssumption ==
  /\ Watched \subseteq Tasks
  /\ After \in Nat
  /\ PageLimit \in Nat \ {0}
  /\ HighWater \in Nat \ {0}
  /\ QueueSizes \subseteq Nat
  /\ MaxEvents \in Nat
  /\ MaxBreaks \in Nat
  /\ MaxBeats \in Nat

VARIABLES
  events,        \* the task of each row of the table
  unpublished,   \* events of this process that are not on the bus yet
  notified,      \* calls of the listener in the microtask queue
  open,          \* the response is not closed
  cursor,        \* the last id given to the sink
  pc,            \* where the drain is; "idle" when draining is null
  page,          \* what listEventsAfter returned
  drainAgain,
  unawaited,     \* nobody handles the rejection of the drain
  wire,          \* frames the response has taken and the client has not got
  queue,         \* frames the sink holds
  maxQueue,      \* how many it may hold
  backpressured,
  received,      \* ids the client got, over all connections
  breaks,        \* connections that broke
  beats          \* heartbeats sent

tableVars == << events, unpublished >>
drainVars == << cursor, pc, page, drainAgain, unawaited >>
sinkVars == << open, wire, queue, backpressured >>
counters == << breaks, beats, maxQueue >>
vars == << tableVars, notified, drainVars, sinkVars, received, counters >>

KeepAlive == 0

Ids == 1..Len(events)

\* The ids the client wants.
Wanted == {i \in Ids : events[i] \in Watched /\ i > After}

LastEventId == IF received = << >> THEN 0 ELSE received[Len(received)]

\* Everything stays within its domain: what the daemon holds for a client that
\* does not read is bounded, however long it lasts.
TypeOK ==
  /\ events \in Seq(Tasks)
  /\ unpublished \in Nat /\ notified \in Nat
  /\ open \in BOOLEAN /\ backpressured \in BOOLEAN
  /\ cursor \in Nat
  /\ pc \in {"idle", "reading", "paged", "settling"}
  /\ page \in Seq(Nat)
  /\ drainAgain \in BOOLEAN /\ unawaited \in BOOLEAN
  /\ wire \in Seq(Nat) /\ Len(wire) <= HighWater
  /\ maxQueue \in QueueSizes
  /\ queue \in Seq(Nat) /\ Len(queue) <= maxQueue
  /\ received \in Seq(Nat)
  /\ breaks \in Nat /\ beats \in Nat

\* The client has not connected yet.
Init ==
  /\ events = << >> /\ unpublished = 0 /\ notified = 0
  /\ open = FALSE /\ wire = << >> /\ queue = << >> /\ backpressured = FALSE
  /\ cursor = 0 /\ pc = "idle" /\ page = << >>
  /\ drainAgain = FALSE /\ unawaited = FALSE
  /\ received = << >> /\ breaks = 0 /\ beats = 0
  /\ maxQueue \in QueueSizes

-----------------------------------------------------------------------------
(* The table and the bus.                                                   *)

\* The coordinator of this process or another process appends an event; only
\* the coordinator publishes it.
AppendEvent(t) ==
  /\ Len(events) < MaxEvents
  /\ events' = Append(events, t)
  /\ unpublished' \in {unpublished, unpublished + 1}
  /\ UNCHANGED << notified, drainVars, sinkVars, received, counters >>

\* The bus has the listener between connection and close, and calls it in a
\* microtask.
Publish ==
  /\ unpublished > 0
  /\ unpublished' = unpublished - 1
  /\ notified' = IF open THEN notified + 1 ELSE notified
  /\ UNCHANGED << events, drainVars, sinkVars, received, counters >>

-----------------------------------------------------------------------------
(* The sink.                                                                *)

\* Of n frames, those the response takes: the one that fills it makes write
\* return false.
Taken(n) == IF n <= HighWater - Len(wire) THEN n ELSE HighWater - Len(wire)

Closed == open' = FALSE /\ queue' = << >>

\* Slip: the queue has no limit.
Put_unbounded(fs, k) ==
  /\ wire' = wire \o SubSeq(fs, 1, k)
  /\ queue' = queue \o SubSeq(fs, k + 1, Len(fs))
  /\ backpressured' = (backpressured \/ Len(wire') = HighWater)
  /\ UNCHANGED open

\* The response takes k of the frames and the queue the others.  What does not
\* fit in the queue destroys the response; of what it had taken, a part may
\* still arrive.
Put(fs, k) ==
  LET taken == wire \o SubSeq(fs, 1, k)
      rest == SubSeq(fs, k + 1, Len(fs))
  IN  IF Len(queue) + Len(rest) > maxQueue
      THEN /\ Closed
           /\ \E n \in 0..Len(taken) : wire' = SubSeq(taken, 1, n)
           /\ UNCHANGED backpressured
      ELSE /\ wire' = taken
           /\ queue' = queue \o rest
           /\ backpressured' = (backpressured \/ Len(taken) = HighWater)
           /\ UNCHANGED open

\* Slip: frames go to the response as soon as it takes them again, queue or not.
Write_overtake(fs) ==
  IF open THEN Put(fs, Taken(Len(fs))) ELSE UNCHANGED sinkVars

\* write for each of the frames.
Write(fs) ==
  IF open
  THEN Put(fs, IF backpressured \/ queue # << >> THEN 0 ELSE Taken(Len(fs)))
  ELSE UNCHANGED sinkVars

\* The response emits drain once it is empty.
Flush ==
  /\ open /\ backpressured /\ wire = << >>
  /\ LET k == Taken(Len(queue))
     IN  /\ wire' = SubSeq(queue, 1, k)
         /\ queue' = SubSeq(queue, k + 1, Len(queue))
         /\ backpressured' = (k = HighWater)
  /\ UNCHANGED << tableVars, notified, drainVars, open, received, counters >>

Heartbeat ==
  /\ open /\ beats < MaxBeats
  /\ beats' = beats + 1
  /\ Write(<< KeepAlive >>)
  /\ UNCHANGED << tableVars, notified, drainVars, received, breaks, maxQueue >>

-----------------------------------------------------------------------------
(* The drain.                                                               *)

\* A call of drain that nobody awaits, by the bus or by the poll.  A drain that
\* is under way is asked to look again, and its rejection is now unhandled.
Drain ==
  IF ~ open
  THEN UNCHANGED drainVars
  ELSE /\ unawaited' = TRUE
       /\ IF pc = "idle"
          THEN pc' = "reading" /\ drainAgain' = FALSE
          ELSE drainAgain' = TRUE /\ UNCHANGED pc
       /\ UNCHANGED << cursor, page >>

Notify ==
  /\ notified > 0
  /\ notified' = notified - 1
  /\ Drain
  /\ UNCHANGED << tableVars, sinkVars, received, counters >>

\* Slip: no poll.
Poll_never == FALSE /\ UNCHANGED vars

\* setInterval; the interval is cleared on close.
Poll ==
  /\ open
  /\ Drain
  /\ UNCHANGED << tableVars, notified, sinkVars, received, counters >>

\* The first PageLimit of the rows after the cursor, in the order of their ids.
IsPage(s) ==
  /\ \A i, j \in DOMAIN s : i < j => s[i] < s[j]
  /\ \A i \in DOMAIN s : events[s[i]] \in Watched /\ s[i] > cursor
  /\ \A e \in Ids : events[e] \in Watched /\ e > cursor =>
       \/ \E i \in DOMAIN s : s[i] = e
       \/ Len(s) = PageLimit /\ s[PageLimit] < e

listEventsAfter == {s \in UNION {[1..n -> Ids] : n \in 0..PageLimit} : IsPage(s)}

ReadPage ==
  /\ pc = "reading"
  /\ page' \in listEventsAfter
  /\ pc' = "paged"
  /\ UNCHANGED << tableVars, notified, cursor, drainAgain, unawaited, sinkVars, received, counters >>

\* The page goes to the sink in one go.  The drain reads on after a full page
\* and when it was asked to look again.
Resume ==
  /\ pc = "paged"
  /\ Write(page)
  /\ cursor' = IF page = << >> THEN cursor ELSE page[Len(page)]
  /\ LET full == Len(page) = PageLimit
     IN  /\ pc' = IF open' /\ (full \/ drainAgain) THEN "reading" ELSE "settling"
         /\ drainAgain' = (drainAgain /\ (full \/ ~ open'))
  /\ page' = << >>
  /\ UNCHANGED << tableVars, notified, unawaited, received, counters >>

\* finally: a request to look again that came after the last look is lost.
Settle ==
  /\ pc = "settling"
  /\ pc' = "idle" /\ unawaited' = FALSE
  /\ UNCHANGED << tableVars, notified, cursor, page, drainAgain, sinkVars, received, counters >>

-----------------------------------------------------------------------------
(* The connection.                                                          *)

\* The daemon ends: what is not in the table is gone.
DaemonGone ==
  /\ Closed
  /\ unpublished' = 0 /\ notified' = 0
  /\ pc' = "idle"
  /\ UNCHANGED << events, cursor, page, drainAgain, unawaited, wire, backpressured, received, beats, maxQueue >>

\* The read fails.  The first drain ends with the request, and the connection
\* stays; a rejection that nobody handles ends the process.
ReadFails ==
  /\ pc = "reading" /\ breaks < MaxBreaks
  /\ breaks' = breaks + 1
  /\ IF unawaited
     THEN DaemonGone
     ELSE /\ pc' = "settling"
          /\ UNCHANGED << tableVars, notified, cursor, page, drainAgain, unawaited, sinkVars, received, beats, maxQueue >>

Crash ==
  /\ breaks < MaxBreaks
  /\ breaks' = breaks + 1
  /\ DaemonGone

\* The client goes away or the network does: close empties the queue.
Break ==
  /\ open /\ breaks < MaxBreaks
  /\ breaks' = breaks + 1
  /\ Closed
  /\ UNCHANGED << tableVars, notified, drainVars, wire, backpressured, received, beats, maxQueue >>

Deliver ==
  /\ wire # << >>
  /\ wire' = Tail(wire)
  /\ received' = IF Head(wire) = KeepAlive THEN received ELSE Append(received, Head(wire))
  /\ UNCHANGED << tableVars, notified, drainVars, open, queue, backpressured, counters >>

\* Slip: the stream starts with what is appended after the connection.
Connect_live ==
  /\ ~ open
  /\ open' = TRUE /\ wire' = << >> /\ queue' = << >> /\ backpressured' = FALSE
  /\ cursor' = Len(events)
  /\ pc' = "reading" /\ page' = << >> /\ drainAgain' = FALSE /\ unawaited' = FALSE
  /\ notified' = 0
  /\ UNCHANGED << tableVars, received, counters >>

\* The client connects again; the daemon subscribes, and then drains for the
\* first time.  The drain of an earlier connection has nothing left to do but
\* to find its sink closed.
Connect ==
  /\ ~ open
  /\ open' = TRUE /\ wire' = << >> /\ queue' = << >> /\ backpressured' = FALSE
  /\ cursor' = IF LastEventId > After THEN LastEventId ELSE After
  /\ pc' = "reading" /\ page' = << >> /\ drainAgain' = FALSE /\ unawaited' = FALSE
  /\ notified' = 0
  /\ UNCHANGED << tableVars, received, counters >>

-----------------------------------------------------------------------------

Next ==
  \/ \E t \in Tasks : AppendEvent(t)
  \/ Publish \/ Notify \/ Poll \/ ReadPage \/ Resume \/ Settle \/ Flush \/ Heartbeat
  \/ ReadFails \/ Crash \/ Break \/ Deliver \/ Connect

Spec == Init /\ [][Next]_vars

\* Each callback of the event loop gets its turn, the interval fires and the
\* client connects again.  A client that reads gets something over the
\* connections it has, whatever breaks.  Nothing has to be appended, published
\* or sent as a heartbeat.
Fairness ==
  /\ WF_vars(ReadPage) /\ WF_vars(Resume) /\ WF_vars(Settle) /\ WF_vars(Flush)
  /\ WF_vars(Poll) /\ WF_vars(Connect) /\ SF_vars(Deliver)

FairSpec == Spec /\ Fairness

-----------------------------------------------------------------------------

\* The client gets the events it wants in their order, each one once, and none
\* is left out, over all its connections: replay and live events join without a
\* gap, and the slow client that is cut off goes on where it was.
StreamIsExact ==
  /\ \A i, j \in DOMAIN received : i < j => received[i] < received[j]
  /\ \A i \in DOMAIN received : received[i] \in Wanted
  /\ \A e \in Wanted : e < LastEventId => \E i \in DOMAIN received : received[i] = e

\* A frame in the queue is there because the response is full, so that a drain
\* event will send it.
QueueWillFlush ==
  open /\ queue # << >> => backpressured

Missing == {e \in Wanted : \A i \in DOMAIN received : received[i] # e}

\* A page of what the client still has to get is more than an empty response and
\* an empty queue take.  The page is written in one go, so it destroys every
\* response it is written to.
Stuck == PageLimit > HighWater + maxQueue /\ Cardinality(Missing) > HighWater + maxQueue

\* Every event the client wants reaches it in the end, also one that another
\* process wrote, one whose notification was lost, and those of a backlog that
\* is larger than the buffers but comes in pages that fit in them.  Pages that
\* do not fit, for they are destroyed with the response at each attempt, are all
\* that keeps a client from its events.
EventuallyReceived ==
  \A e \in 1..MaxEvents : e \in Wanted ~> (e \notin Missing \/ []Stuck)
=============================================================================
