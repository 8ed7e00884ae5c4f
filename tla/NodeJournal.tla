---------------------------- MODULE NodeJournal ----------------------------
(***************************************************************************)
(* The event journal of an execution node and its delivery to a controller: *)
(* the event half of src/src/node/session.ts on the SQLite store of         *)
(* src/src/node/state-store.ts.                                             *)
(*                                                                          *)
(* An event is its cursor and whether its kind is protected from being      *)
(* dropped.  The session's code is synchronous: while npc is not "idle" it  *)
(* is in the middle of a handler and only a crash can get between two of    *)
(* its writes, each of which the store commits by itself.  What is in       *)
(* flight belongs to one connection and is lost with it.  Envelopes are     *)
(* kept in sets: the client awaits a prefetch per message, so that inbound  *)
(* messages can overtake each other.  The controller is not part of the     *)
(* repository; it ingests batches by decideCursorAction and acknowledges    *)
(* what it has without gaps.                                                *)
(***************************************************************************)
EXTENDS Naturals, FiniteSets

CONSTANTS
  MaxEvents,     \* bound on the events ever emitted
  MaxBuffered,   \* maxBufferedEvents
  MaxBatch,      \* limits.maxEventsPerBatch
  MaxUnacked,    \* limits.maxUnackedBatches
  MaxCrashes     \* bound on the ends of the node's process

ASSUME LimitAssumption ==
  /\ MaxEvents \in Nat
  /\ MaxBuffered \in Nat
  /\ MaxBatch \in Nat \ {0}
  /\ MaxUnacked \in Nat \ {0}
  /\ MaxCrashes \in Nat

Cursors == 1..MaxEvents

VARIABLES
  nodeCursor,   \* node_cursors.node_cursor; #nodeCursor is written through
  ackedCursor,  \* node_cursors.acked_cursor
  journal,      \* cursors in node_events
  truncated,    \* cursors covered by a row of truncations
  protected,    \* cursors of events whose kind is protected
  npc,          \* where the session's code is
  dropped,      \* what #enforceBufferBounds deleted and has not recorded yet
  torn,         \* what it deleted when a crash kept it from recording it
  conn,         \* the connection: none, open without a welcome, welcomed
  batches,      \* run.event_batch in flight: <<firstCursor, lastCursor>>
  summary,      \* truncations in a reconcile.summary in flight
  acks,         \* message.ack in flight: highestContiguousCursor
  ingested,     \* events the controller has
  known,        \* truncations the controller has been told of
  crashes       \* ends of the process so far

storeVars == << nodeCursor, ackedCursor, journal, truncated, protected >>
localVars == << npc, dropped, torn >>
wireVars == << conn, batches, summary, acks >>
cloudVars == << ingested, known >>
journalVars == << storeVars, localVars, wireVars, cloudVars, crashes >>

JournalPc == {"off", "idle", "bounding", "recording", "pruning"}

\* The store, the code's position, what is in flight and the controller's
\* knowledge stay within their domains.
JournalTypeOK ==
  /\ nodeCursor \in 0..MaxEvents
  /\ ackedCursor \in 0..MaxEvents
  /\ journal \in SUBSET Cursors
  /\ truncated \in SUBSET Cursors
  /\ protected \in SUBSET Cursors
  /\ npc \in JournalPc
  /\ dropped \in SUBSET Cursors
  /\ torn \in SUBSET Cursors
  /\ conn \in {"none", "hello", "up"}
  /\ batches \in SUBSET (Cursors \X Cursors)
  /\ summary \in SUBSET Cursors
  /\ acks \in SUBSET (0..MaxEvents)
  /\ ingested \in SUBSET Cursors
  /\ known \in SUBSET Cursors
  /\ crashes \in Nat

JournalInit ==
  /\ nodeCursor = 0
  /\ ackedCursor = 0
  /\ journal = {}
  /\ truncated = {}
  /\ protected = {}
  /\ npc = "idle"
  /\ dropped = {}
  /\ torn = {}
  /\ conn = "none"
  /\ batches = {}
  /\ summary = {}
  /\ acks = {}
  /\ ingested = {}
  /\ known = {}
  /\ crashes = 0

-----------------------------------------------------------------------------
(* Emitting.                                                                *)

eventsAfter(cursor) == {c \in journal : c > cursor}

\* Slip: protected kinds are dropped too.
Victims_any(unacked, keep) ==
  IF Cardinality(unacked) > MaxBuffered THEN unacked ELSE {}

\* What #enforceBufferBounds may delete: nothing within the bounds, and never
\* a protected event.
Victims(unacked, keep) ==
  IF Cardinality(unacked) > MaxBuffered THEN unacked \ keep ELSE {}

\* Its loop goes on while there is a victim, and then records what it deleted.
BoundsPc(victims, gone) ==
  IF victims # {} THEN "bounding" ELSE IF gone # {} THEN "recording" ELSE "idle"

\* appendEventAndAdvanceCursor commits both in one transaction.
emitEvent(protect) ==
  LET cursor == nodeCursor + 1 IN
  /\ npc = "idle" /\ nodeCursor < MaxEvents
  /\ nodeCursor' = cursor
  /\ journal' = journal \cup {cursor}
  /\ protected' = IF protect THEN protected \cup {cursor} ELSE protected
  /\ npc' = BoundsPc(Victims(eventsAfter(ackedCursor) \cup {cursor}, protected'), {})
  /\ UNCHANGED << ackedCursor, truncated, dropped, torn, wireVars, cloudVars, crashes >>

\* #enforceBufferBounds deletes the oldest event that it may.
DropEvent ==
  LET victims == Victims(eventsAfter(ackedCursor), protected) IN
  /\ npc = "bounding"
  /\ \E c \in victims :
       /\ \A d \in victims : c <= d
       /\ journal' = journal \ {c}
       /\ dropped' = dropped \cup {c}
       /\ npc' = BoundsPc(Victims(eventsAfter(ackedCursor) \ {c}, protected), dropped')
  /\ UNCHANGED << nodeCursor, ackedCursor, truncated, protected, torn >>
  /\ UNCHANGED << wireVars, cloudVars, crashes >>

\* appendTruncation for the first contiguous range of what was dropped.
RecordTruncation ==
  /\ npc = "recording"
  /\ \E from \in dropped :
       LET range == {c \in dropped : from..c \subseteq dropped} IN
       /\ \A d \in dropped : from <= d
       /\ truncated' = truncated \cup range
       /\ dropped' = dropped \ range
  /\ npc' = IF dropped' = {} THEN "idle" ELSE "recording"
  /\ UNCHANGED << nodeCursor, ackedCursor, journal, protected, torn >>
  /\ UNCHANGED << wireVars, cloudVars, crashes >>

-----------------------------------------------------------------------------
(* Sending.                                                                 *)

\* First cursors of the batches for the events of S: every MaxBatch events of
\* a contiguous run.
BatchStarts(S) ==
  {c \in S : \E s \in S : /\ s <= c /\ s..c \subseteq S /\ s - 1 \notin S
                          /\ (c - s) % MaxBatch = 0}

\* Of these, the batches within limits.maxUnackedBatches.
BatchesOf(S) ==
  {b \in S \X S :
     /\ b[1] \in BatchStarts(S)
     /\ b[1]..b[2] \subseteq S
     /\ b[1] <= b[2] /\ b[2] - b[1] < MaxBatch
     /\ b[2] + 1 \in S => b[2] + 1 - b[1] = MaxBatch
     /\ Cardinality({c \in BatchStarts(S) : c < b[1]}) < MaxUnacked}

flush ==
  /\ conn = "up" /\ npc = "idle"
  /\ batches' = batches \cup BatchesOf(eventsAfter(ackedCursor))
  /\ UNCHANGED << storeVars, localVars, conn, summary, acks, cloudVars, crashes >>

-----------------------------------------------------------------------------
(* The connection.                                                          *)

\* connect and startHandshake: a new session; nothing of the old one counts.
startHandshake ==
  /\ npc = "idle" /\ conn = "none"
  /\ conn' = "hello"
  /\ UNCHANGED << storeVars, localVars, batches, summary, acks, cloudVars, crashes >>

\* The controller has everything up to n.
Contiguous(n, got) == n \in 0..MaxEvents /\ 1..n \subseteq got /\ n + 1 \notin got

\* node.welcome: report truncations and replay from the controller's cursor.
ReceiveWelcome ==
  /\ npc = "idle" /\ conn \in {"hello", "up"}
  /\ conn' = "up"
  /\ summary' = summary \cup truncated
  /\ \E n \in 0..MaxEvents :
       /\ Contiguous(n, ingested \cup known)
       /\ batches' = batches \cup BatchesOf(eventsAfter(n))
  /\ UNCHANGED << storeVars, localVars, acks, cloudVars, crashes >>

\* A welcome of an older epoch: the session takes itself for disconnected, and
\* the socket stays open.
ReceiveStaleWelcome ==
  /\ npc = "idle" /\ conn = "up"
  /\ conn' = "hello"
  /\ UNCHANGED << storeVars, localVars, batches, summary, acks, cloudVars, crashes >>

\* The socket closes or fails.
disconnect ==
  /\ conn # "none"
  /\ conn' = "none"
  /\ batches' = {} /\ summary' = {} /\ acks' = {}
  /\ UNCHANGED << storeVars, localVars, cloudVars, crashes >>

\* Slip: the cursor is taken for the next one expected.
ReceiveAck_next(a) ==
  /\ npc = "idle" /\ a \in acks
  /\ acks' = acks \ {a}
  /\ ackedCursor' = IF a >= ackedCursor THEN a + 1 ELSE ackedCursor
  /\ npc' = "pruning"
  /\ UNCHANGED << nodeCursor, journal, truncated, protected, dropped, torn >>
  /\ UNCHANGED << conn, batches, summary, cloudVars, crashes >>

\* message.ack: setAckedCursor, and then pruneUpTo.
ReceiveAck(a) ==
  /\ npc = "idle" /\ a \in acks
  /\ acks' = acks \ {a}
  /\ ackedCursor' = IF a > ackedCursor THEN a ELSE ackedCursor
  /\ npc' = "pruning"
  /\ UNCHANGED << nodeCursor, journal, truncated, protected, dropped, torn >>
  /\ UNCHANGED << conn, batches, summary, cloudVars, crashes >>

\* Slip: everything sent so far is pruned.
pruneUpTo_sent ==
  /\ npc = "pruning"
  /\ journal' = {}
  /\ npc' = "idle"
  /\ UNCHANGED << nodeCursor, ackedCursor, truncated, protected, dropped, torn >>
  /\ UNCHANGED << wireVars, cloudVars, crashes >>

pruneUpTo ==
  /\ npc = "pruning"
  /\ journal' = eventsAfter(ackedCursor)
  /\ npc' = "idle"
  /\ UNCHANGED << nodeCursor, ackedCursor, truncated, protected, dropped, torn >>
  /\ UNCHANGED << wireVars, cloudVars, crashes >>

-----------------------------------------------------------------------------
(* The process ends and starts again.                                       *)

\* What the end of the process does to the journal and the connection.
JournalCrash ==
  /\ npc # "off" /\ crashes < MaxCrashes
  /\ crashes' = crashes + 1
  /\ npc' = "off"
  /\ torn' = torn \cup dropped
  /\ dropped' = {}
  /\ conn' = "none"
  /\ batches' = {} /\ summary' = {} /\ acks' = {}
  /\ UNCHANGED << storeVars, cloudVars >>

JournalRestart ==
  /\ npc = "off"
  /\ npc' = "idle"
  /\ UNCHANGED << storeVars, dropped, torn, wireVars, cloudVars, crashes >>

-----------------------------------------------------------------------------
(* The controller.                                                          *)

decideCursorAction(high, first, last) ==
  IF last <= high THEN "duplicate"
  ELSE IF first <= high THEN "overlap"
  ELSE IF first = high + 1 THEN "accept"
  ELSE "gap"

\* A batch behind a gap may be kept until the gap is reconciled, or not.
IngestBatch(b) ==
  /\ b \in batches
  /\ batches' = batches \ {b}
  /\ \E high \in 0..MaxEvents :
       /\ Contiguous(high, ingested \cup known)
       /\ LET action == decideCursorAction(high, b[1], b[2]) IN
            ingested' \in (IF action \in {"accept", "overlap"} THEN {} ELSE {ingested})
                            \cup (IF action = "duplicate" THEN {} ELSE {ingested \cup (b[1]..b[2])})
  /\ \E n \in 0..MaxEvents : Contiguous(n, ingested' \cup known) /\ acks' = acks \cup {n}
  /\ UNCHANGED << storeVars, localVars, conn, summary, known, crashes >>

IngestSummary ==
  /\ summary # {}
  /\ known' = known \cup summary
  /\ summary' = {}
  /\ UNCHANGED << storeVars, localVars, conn, batches, acks, ingested, crashes >>

-----------------------------------------------------------------------------

\* What the session does apart from emitting and flushing, which its user asks
\* for.
SessionStep ==
  \/ DropEvent \/ RecordTruncation \/ pruneUpTo
  \/ startHandshake \/ ReceiveWelcome \/ ReceiveStaleWelcome
  \/ \E a \in acks : ReceiveAck(a)

ControllerStep ==
  \/ \E b \in batches : IngestBatch(b)
  \/ IngestSummary

JournalNext ==
  \/ \E protect \in BOOLEAN : emitEvent(protect)
  \/ flush
  \/ SessionStep \/ ControllerStep
  \/ disconnect \/ JournalCrash \/ JournalRestart

JournalSpec == JournalInit /\ [][JournalNext]_journalVars

-----------------------------------------------------------------------------

\* The node lets go of an event on the controller's word only when the
\* controller has it, and everything before it, or knows it was dropped:
\* across lost connections, late acknowledgements and restarts.
AckedIsIngested == 1..ackedCursor \subseteq ingested \cup known

\* Every event ever emitted is in the journal or at the controller, or the
\* journal says that it was dropped.  The only others are being dropped now,
\* or were when the process was killed between the deletion and its record.
EventsAccounted ==
  1..nodeCursor \subseteq journal \cup ingested \cup truncated \cup dropped \cup torn

\* However small the buffer: a completion, effect or verification event stays
\* in the journal until the controller has it.
ProtectedAreKept == protected \subseteq journal \cup ingested
=============================================================================
