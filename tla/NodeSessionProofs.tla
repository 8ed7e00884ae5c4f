------------------------- MODULE NodeSessionProofs -------------------------
(***************************************************************************)
(* The event journal loses nothing silently, for every number of events,    *)
(* every buffer and batch size and every number of crashes: proofs for      *)
(* NodeJournal.                                                             *)
(*                                                                          *)
(* An offer is answered one way and executed once, whatever is replayed and *)
(* whenever the process ends, and a node is a NodeJournal: proofs for       *)
(* NodeSession, for every set of offers and every bound.                    *)
(***************************************************************************)
EXTENDS NodeSession, FiniteSetTheorems, TLAPS

\* An acknowledgement in flight is as good as one applied.
AcksAreTrue == \A a \in acks : 1..a \subseteq ingested \cup known

\* What the controller knows of truncations, the store has recorded.
SummaryIsRecorded == summary \cup known \subseteq truncated

\* Nothing that was dropped is protected, recorded or not.
DroppedUnprotected == protected \cap (truncated \cup dropped \cup torn) = {}

\* A cursor is used for the first time when its event is emitted.
CursorsAreIssued ==
  /\ journal \cup protected \subseteq 1..nodeCursor
  /\ truncated \cup dropped \cup torn \subseteq 1..nodeCursor

\* The inductive invariant: the three properties, and what makes them last.
JournalInv ==
  /\ JournalTypeOK
  /\ AckedIsIngested
  /\ AcksAreTrue
  /\ SummaryIsRecorded
  /\ DroppedUnprotected
  /\ CursorsAreIssued
  /\ EventsAccounted
  /\ ProtectedAreKept

USE DEF storeVars, localVars, wireVars, cloudVars

LEMMA JournalInitInv == ASSUME JournalInit PROVE JournalInv
<1>. USE LimitAssumption DEF JournalInit, JournalInv
<1>1. JournalTypeOK
  BY DEF JournalTypeOK, JournalPc, Cursors
<1>2. AckedIsIngested /\ EventsAccounted /\ ProtectedAreKept
  BY DEF AckedIsIngested, EventsAccounted, ProtectedAreKept
<1>3. AcksAreTrue /\ SummaryIsRecorded /\ DroppedUnprotected /\ CursorsAreIssued
  BY DEF AcksAreTrue, SummaryIsRecorded, DroppedUnprotected, CursorsAreIssued
<1>. QED BY <1>1, <1>2, <1>3

\* The batches that are cut from events carry cursors of events.
LEMMA BatchesOfType ==
  ASSUME NEW S \in SUBSET Cursors PROVE BatchesOf(S) \subseteq Cursors \X Cursors
BY DEF BatchesOf

\* The session's state of the loop that enforces the bounds.
LEMMA BoundsPcType ==
  ASSUME NEW victims, NEW gone PROVE BoundsPc(victims, gone) \in JournalPc
BY DEF BoundsPc, JournalPc

LEMMA EmitInv ==
  ASSUME JournalInv, NEW protect \in BOOLEAN, emitEvent(protect) PROVE JournalInv'
<1>. USE LimitAssumption DEF JournalInv, JournalTypeOK, Cursors
<1>. DEFINE cursor == nodeCursor + 1
<1>1. /\ cursor \in 1..MaxEvents
      /\ nodeCursor' = cursor
      /\ journal' = journal \cup {cursor}
      /\ protected' \in {protected, protected \cup {cursor}}
      /\ UNCHANGED << ackedCursor, truncated, dropped, torn, wireVars, cloudVars, crashes >>
  BY DEF emitEvent
<1>2. npc' \in JournalPc
  BY BoundsPcType DEF emitEvent
<1>3. JournalTypeOK'
  BY <1>1, <1>2
<1>4. AckedIsIngested' /\ AcksAreTrue' /\ SummaryIsRecorded'
  BY <1>1 DEF AckedIsIngested, AcksAreTrue, SummaryIsRecorded
<1>5. cursor \notin truncated \cup dropped \cup torn
  BY DEF CursorsAreIssued
<1>6. DroppedUnprotected' /\ CursorsAreIssued'
  BY <1>1, <1>5 DEF DroppedUnprotected, CursorsAreIssued
<1>7. EventsAccounted' /\ ProtectedAreKept'
  BY <1>1 DEF EventsAccounted, ProtectedAreKept
<1>. QED BY <1>3, <1>4, <1>6, <1>7

LEMMA DropInv == ASSUME JournalInv, DropEvent PROVE JournalInv'
<1>. USE DEF JournalInv
<1>1. PICK c \in Victims(eventsAfter(ackedCursor), protected) :
        journal' = journal \ {c} /\ dropped' = dropped \cup {c} /\ npc' \in JournalPc
  BY BoundsPcType DEF DropEvent
<1>2. UNCHANGED << nodeCursor, ackedCursor, truncated, protected, torn,
                   wireVars, cloudVars, crashes >>
  BY DEF DropEvent
<1>3. c \in journal /\ c \notin protected
  BY <1>1 DEF Victims, eventsAfter
<1>4. JournalTypeOK'
  BY <1>1, <1>2, <1>3 DEF JournalTypeOK
<1>5. AckedIsIngested' /\ AcksAreTrue' /\ SummaryIsRecorded'
  BY <1>2 DEF AckedIsIngested, AcksAreTrue, SummaryIsRecorded
<1>6. DroppedUnprotected'
  BY <1>1, <1>2, <1>3 DEF DroppedUnprotected
<1>7. CursorsAreIssued'
  BY <1>1, <1>2, <1>3 DEF CursorsAreIssued
<1>8. EventsAccounted' /\ ProtectedAreKept'
  BY <1>1, <1>2, <1>3 DEF EventsAccounted, ProtectedAreKept
<1>. QED BY <1>4, <1>5, <1>6, <1>7, <1>8

LEMMA RecordInv == ASSUME JournalInv, RecordTruncation PROVE JournalInv'
<1>. USE DEF JournalInv
<1>1. PICK range \in SUBSET dropped : truncated' = truncated \cup range /\ dropped' = dropped \ range
  <2>1. PICK from \in dropped :
          /\ truncated' = truncated \cup {c \in dropped : from..c \subseteq dropped}
          /\ dropped' = dropped \ {c \in dropped : from..c \subseteq dropped}
    BY DEF RecordTruncation
  <2>. WITNESS {c \in dropped : from..c \subseteq dropped} \in SUBSET dropped
  <2>. QED BY <2>1
<1>2. /\ npc' \in {"idle", "recording"}
      /\ UNCHANGED << nodeCursor, ackedCursor, journal, protected, torn, wireVars, cloudVars, crashes >>
  BY DEF RecordTruncation
<1>3. JournalTypeOK'
  BY <1>1, <1>2 DEF JournalTypeOK, JournalPc
<1>4. AckedIsIngested' /\ AcksAreTrue' /\ SummaryIsRecorded'
  BY <1>1, <1>2 DEF AckedIsIngested, AcksAreTrue, SummaryIsRecorded
<1>5. DroppedUnprotected' /\ CursorsAreIssued'
  BY <1>1, <1>2 DEF DroppedUnprotected, CursorsAreIssued
<1>6. EventsAccounted' /\ ProtectedAreKept'
  BY <1>1, <1>2 DEF EventsAccounted, ProtectedAreKept
<1>. QED BY <1>3, <1>4, <1>5, <1>6

\* Sending batches and opening or losing a connection touch no event.
LEMMA WireInv ==
  ASSUME JournalInv,
         flush \/ startHandshake \/ ReceiveWelcome \/ ReceiveStaleWelcome \/ disconnect
  PROVE  JournalInv'
<1>. USE DEF JournalInv, flush, startHandshake, ReceiveWelcome, ReceiveStaleWelcome, disconnect
<1>1. JournalTypeOK'
  <2>1. \A n : eventsAfter(n) \in SUBSET Cursors
    BY DEF eventsAfter, JournalTypeOK
  <2>2. batches' \in SUBSET (Cursors \X Cursors)
    BY <2>1, BatchesOfType DEF JournalTypeOK
  <2>3. summary' \in SUBSET Cursors /\ conn' \in {"none", "hello", "up"}
    BY DEF JournalTypeOK
  <2>4. acks' \in SUBSET (0..MaxEvents)
    BY DEF JournalTypeOK
  <2>. QED BY <2>2, <2>3, <2>4 DEF JournalTypeOK
<1>2. AcksAreTrue' /\ SummaryIsRecorded'
  BY DEF AcksAreTrue, SummaryIsRecorded
<1>3. AckedIsIngested' /\ EventsAccounted' /\ ProtectedAreKept'
  BY DEF AckedIsIngested, EventsAccounted, ProtectedAreKept
<1>4. DroppedUnprotected' /\ CursorsAreIssued'
  BY DEF DroppedUnprotected, CursorsAreIssued
<1>. QED BY <1>1, <1>2, <1>3, <1>4

\* A late acknowledgement never moves the cursor back, and none moves it past
\* what the controller has.
LEMMA AckInv ==
  ASSUME JournalInv, NEW a \in acks, ReceiveAck(a) PROVE JournalInv'
<1>. USE DEF JournalInv, ReceiveAck
<1>1. JournalTypeOK'
  BY DEF JournalTypeOK, JournalPc
<1>2. AckedIsIngested' /\ AcksAreTrue'
  BY DEF AckedIsIngested, AcksAreTrue
<1>3. SummaryIsRecorded' /\ DroppedUnprotected' /\ CursorsAreIssued'
  BY DEF SummaryIsRecorded, DroppedUnprotected, CursorsAreIssued
<1>4. EventsAccounted' /\ ProtectedAreKept'
  BY DEF EventsAccounted, ProtectedAreKept
<1>. QED BY <1>1, <1>2, <1>3, <1>4

\* What is pruned is at the controller, or it knows that it was dropped.
LEMMA PruneInv == ASSUME JournalInv, pruneUpTo PROVE JournalInv'
<1>. USE DEF JournalInv, pruneUpTo
<1>1. journal' = {c \in journal : c > ackedCursor}
  BY DEF eventsAfter
<1>2. JournalTypeOK'
  BY <1>1 DEF JournalTypeOK, JournalPc
<1>3. \A c \in 1..nodeCursor : c \notin journal' =>
        c \notin journal \/ c \in ingested \cup truncated
  BY <1>1 DEF JournalTypeOK, AckedIsIngested, SummaryIsRecorded
<1>4. \A c \in protected : c \in journal' \cup ingested
  BY <1>3 DEF ProtectedAreKept, DroppedUnprotected, CursorsAreIssued
<1>5. EventsAccounted' /\ ProtectedAreKept'
  BY <1>3, <1>4 DEF EventsAccounted, ProtectedAreKept
<1>6. AckedIsIngested' /\ AcksAreTrue' /\ SummaryIsRecorded'
  BY DEF AckedIsIngested, AcksAreTrue, SummaryIsRecorded
<1>7. DroppedUnprotected' /\ CursorsAreIssued'
  BY <1>1 DEF DroppedUnprotected, CursorsAreIssued
<1>. QED BY <1>2, <1>5, <1>6, <1>7

LEMMA CrashInv == ASSUME JournalInv, JournalCrash \/ JournalRestart PROVE JournalInv'
<1>. USE DEF JournalInv, JournalCrash, JournalRestart
<1>1. JournalTypeOK'
  <2>1. CASE JournalCrash
    <3>1. crashes' \in Nat
      BY <2>1 DEF JournalTypeOK
    <3>2. batches' \in SUBSET (Cursors \X Cursors) /\ acks' \in SUBSET (0..MaxEvents)
      BY <2>1
    <3>. QED BY <2>1, <3>1, <3>2 DEF JournalTypeOK, JournalPc
  <2>2. CASE JournalRestart
    BY <2>2 DEF JournalTypeOK, JournalPc
  <2>. QED BY <2>1, <2>2
<1>2. AckedIsIngested' /\ AcksAreTrue' /\ SummaryIsRecorded'
  BY DEF AckedIsIngested, AcksAreTrue, SummaryIsRecorded
<1>3. DroppedUnprotected' /\ CursorsAreIssued'
  BY DEF DroppedUnprotected, CursorsAreIssued
<1>4. EventsAccounted' /\ ProtectedAreKept'
  BY DEF EventsAccounted, ProtectedAreKept
<1>. QED BY <1>1, <1>2, <1>3, <1>4

LEMMA IngestBatchInv ==
  ASSUME JournalInv, NEW b \in batches, IngestBatch(b) PROVE JournalInv'
<1>. USE DEF JournalInv
<1>1. UNCHANGED << storeVars, localVars, conn, summary, known, crashes >>
      /\ batches' = batches \ {b}
  BY DEF IngestBatch
<1>2. ingested' \in {ingested, ingested \cup (b[1]..b[2])}
  BY DEF IngestBatch
<1>3. PICK n \in 0..MaxEvents : 1..n \subseteq ingested' \cup known /\ acks' = acks \cup {n}
  BY DEF IngestBatch, Contiguous
<1>4. ingested \subseteq ingested' /\ ingested' \subseteq Cursors
  BY <1>2, LimitAssumption DEF JournalTypeOK, Cursors
<1>5. JournalTypeOK'
  BY <1>1, <1>3, <1>4 DEF JournalTypeOK
<1>6. AcksAreTrue'
  BY <1>1, <1>3, <1>4 DEF AcksAreTrue
<1>7. AckedIsIngested' /\ EventsAccounted' /\ ProtectedAreKept'
  BY <1>1, <1>4 DEF AckedIsIngested, EventsAccounted, ProtectedAreKept
<1>8. SummaryIsRecorded' /\ DroppedUnprotected' /\ CursorsAreIssued'
  BY <1>1 DEF SummaryIsRecorded, DroppedUnprotected, CursorsAreIssued
<1>. QED BY <1>5, <1>6, <1>7, <1>8

LEMMA IngestSummaryInv == ASSUME JournalInv, IngestSummary PROVE JournalInv'
<1>. USE DEF JournalInv, IngestSummary
<1>1. JournalTypeOK'
  BY DEF JournalTypeOK
<1>2. AckedIsIngested' /\ AcksAreTrue' /\ SummaryIsRecorded'
  BY DEF AckedIsIngested, AcksAreTrue, SummaryIsRecorded
<1>3. DroppedUnprotected' /\ CursorsAreIssued'
  BY DEF DroppedUnprotected, CursorsAreIssued
<1>4. EventsAccounted' /\ ProtectedAreKept'
  BY DEF EventsAccounted, ProtectedAreKept
<1>. QED BY <1>1, <1>2, <1>3, <1>4

LEMMA JournalStutterInv ==
  ASSUME JournalInv, UNCHANGED journalVars PROVE JournalInv'
BY DEF JournalInv, journalVars, JournalTypeOK, AckedIsIngested, AcksAreTrue, SummaryIsRecorded,
   DroppedUnprotected, CursorsAreIssued, EventsAccounted, ProtectedAreKept

LEMMA JournalNextInv == JournalInv /\ [JournalNext]_journalVars => JournalInv'
<1>. SUFFICES ASSUME JournalInv, [JournalNext]_journalVars PROVE JournalInv'
  OBVIOUS
<1>1. CASE \E protect \in BOOLEAN : emitEvent(protect)
  BY <1>1, EmitInv
<1>2. CASE SessionStep
  BY <1>2, DropInv, RecordInv, PruneInv, WireInv, AckInv DEF SessionStep
<1>3. CASE ControllerStep
  BY <1>3, IngestBatchInv, IngestSummaryInv DEF ControllerStep
<1>4. CASE flush \/ disconnect
  BY <1>4, WireInv
<1>5. CASE JournalCrash \/ JournalRestart
  BY <1>5, CrashInv
<1>6. CASE UNCHANGED journalVars
  BY <1>6, JournalStutterInv
<1>. QED BY <1>1, <1>2, <1>3, <1>4, <1>5, <1>6 DEF JournalNext

LEMMA JournalInductive == JournalSpec => []JournalInv
<1>1. JournalInit => JournalInv
  BY JournalInitInv
<1>. QED BY <1>1, JournalNextInv, PTL DEF JournalSpec

\* The store, the connection and the controller stay within their domains.
THEOREM JournalTypeCorrect == JournalSpec => []JournalTypeOK
<1>1. JournalInv => JournalTypeOK
  BY DEF JournalInv
<1>. QED BY <1>1, JournalInductive, PTL

\* setAckedCursor never runs ahead of the controller, and so pruneUpTo deletes
\* nothing that it still needs.
THEOREM AckNeverAhead == JournalSpec => []AckedIsIngested
<1>1. JournalInv => AckedIsIngested
  BY DEF JournalInv
<1>. QED BY <1>1, JournalInductive, PTL

\* No event disappears without a truncation record, except in the gap between
\* deleteEventAt and appendTruncation.
THEOREM NothingLostSilently == JournalSpec => []EventsAccounted
<1>1. JournalInv => EventsAccounted
  BY DEF JournalInv
<1>. QED BY <1>1, JournalInductive, PTL

\* #enforceBufferBounds and pruneUpTo together never lose a protected event.
THEOREM ProtectedNeverLost == JournalSpec => []ProtectedAreKept
<1>1. JournalInv => ProtectedAreKept
  BY DEF JournalInv
<1>. QED BY <1>1, JournalInductive, PTL

-----------------------------------------------------------------------------

\* The lease of offer o waits in #pendingLeases.
Waiting(o) == \E i \in 1..Len(pending) : pending[i] = o

\* While the process runs, its map of answers is the stored one, except for
\* the answer that is just being saved.
AnswersAreSaved ==
  /\ opc # "none" => npc = "idle" /\ handling \in Offers /\ cached[handling] # "none"
  /\ npc # "off" => \A o \in Offers :
       stored[o] = IF opc = "saving" /\ o = handling THEN "none" ELSE cached[o]

\* The controller hears an answer after it is stored.
ToldIsStored == \A o \in Offers : told[o] \subseteq {stored[o]} \ {"none"}

\* A lease exists in one place: waiting, started, or as a local task; and
\* only for an offer whose answer is stored or being stored.
LeaseIsUnique ==
  /\ \A i, j \in 1..Len(pending) : pending[i] = pending[j] => i = j
  /\ IF epc = "none" THEN lease = NoOffer ELSE lease \in Offers
  /\ \A o \in Offers :
       /\ Waiting(o) => created[o] = 0 /\ lease # o
       /\ lease = o /\ epc = "started" => created[o] = 0
       /\ created[o] <= 1
       /\ stored[o] = "none" => /\ created[o] = 0 /\ lease # o
                                /\ Waiting(o) => opc = "saving" /\ handling = o

\* Nothing is reported for a task of somebody else.
ReportsOwnTask ==
  /\ epc \in {"mirrored", "proposing"} => took = lease
  /\ CompletionIsOwn

-----------------------------------------------------------------------------
(* A node is a journal.                                                     *)

LEMMA StepIsJournalStep == [Next]_vars => [JournalNext]_journalVars
<1>. SUFFICES ASSUME [Next]_vars PROVE [JournalNext]_journalVars
  OBVIOUS
<1>1. CASE JournalStep
  BY <1>1 DEF JournalStep, JournalNext
<1>2. CASE OfferStep
  BY <1>2 DEF OfferStep, SendOffer, ReplayAnswer, DecideOffer, SaveOfferAnswer, SendAnswer
<1>3. CASE LeaseStep
  <2>1. CASE StartLease \/ MirrorEvent \/ EmitCompletion
    BY <2>1 DEF StartLease, MirrorEvent, EmitCompletion, JournalNext
  <2>2. CASE CreateLocalTask \/ RunNext \/ QueueLocalTask \/ OtherWorkerTakes
    BY <2>2 DEF CreateLocalTask, RunNext, QueueLocalTask, OtherWorkerTakes
  <2>3. CASE ProposeCompletion
    BY <2>3 DEF ProposeCompletion, JournalNext
  <2>. QED BY <1>3, <2>1, <2>2, <2>3 DEF LeaseStep
<1>4. CASE Disconnect \/ Crash \/ Restart
  BY <1>4 DEF Disconnect, Crash, Restart, JournalNext
<1>5. CASE UNCHANGED vars
  BY <1>5 DEF vars
<1>. QED BY <1>1, <1>2, <1>3, <1>4, <1>5 DEF Next

\* What is proved of the journal above therefore holds in every node.
THEOREM NodeIsJournal == Spec => ImplementsJournal
<1>1. Init => JournalInit
  BY DEF Init
<1>. QED BY <1>1, StepIsJournalStep, PTL DEF Spec, ImplementsJournal, JournalSpec

-----------------------------------------------------------------------------
(* Offers and leases.                                                       *)

\* The inductive invariant.
SessionInv ==
  /\ SessionTypeOK
  /\ AnswersAreSaved
  /\ ToldIsStored
  /\ LeaseIsUnique
  /\ ReportsOwnTask

USE DEF localVars, answerVars, leaseVars, kernelVars, offerVars

LEMMA SessionInitInv == ASSUME Init PROVE SessionInv
<1>. USE OfferAssumption DEF Init, JournalInit
<1>1. SessionTypeOK
  BY DEF SessionTypeOK, Answers, ExecutePc
<1>2. AnswersAreSaved /\ ToldIsStored
  BY DEF AnswersAreSaved, ToldIsStored
<1>3. LeaseIsUnique
  BY DEF LeaseIsUnique, Waiting
<1>4. ReportsOwnTask
  BY DEF ReportsOwnTask, CompletionIsOwn
<1>. QED BY <1>1, <1>2, <1>3, <1>4 DEF SessionInv

\* Only the end of the process and its restart switch between off and on.
LEMMA StaysRunning ==
  ASSUME \/ SessionStep \/ ControllerStep \/ flush \/ disconnect
         \/ \E protect \in BOOLEAN : emitEvent(protect)
  PROVE  (npc' = "off") <=> (npc = "off")
<1>1. CASE SessionStep
  <2>1. CASE DropEvent
    <3>1. PICK victims, gone : npc' = BoundsPc(victims, gone)
      BY <2>1 DEF DropEvent
    <3>. QED BY <2>1, <3>1 DEF DropEvent, BoundsPc
  <2>2. CASE RecordTruncation \/ pruneUpTo \/ \E a \in acks : ReceiveAck(a)
    BY <2>2 DEF RecordTruncation, pruneUpTo, ReceiveAck
  <2>3. CASE startHandshake \/ ReceiveWelcome \/ ReceiveStaleWelcome
    BY <2>3 DEF startHandshake, ReceiveWelcome, ReceiveStaleWelcome
  <2>. QED BY <1>1, <2>1, <2>2, <2>3 DEF SessionStep
<1>2. CASE ControllerStep
  BY <1>2 DEF ControllerStep, IngestBatch, IngestSummary
<1>3. CASE flush \/ disconnect
  BY <1>3 DEF flush, disconnect
<1>4. ASSUME NEW protect \in BOOLEAN, emitEvent(protect) PROVE npc' # "off" /\ npc # "off"
  <2>. DEFINE cursor == nodeCursor + 1
  <2>1. npc = "idle"
        /\ npc' = BoundsPc(Victims(eventsAfter(ackedCursor) \cup {cursor}, protected'), {})
    BY <1>4 DEF emitEvent
  <2>. QED BY <2>1 DEF BoundsPc
<1>. QED BY <1>1, <1>2, <1>3, <1>4

\* A step that leaves offers alone leaves the invariant alone.
LEMMA FrameInv ==
  ASSUME SessionInv, UNCHANGED offerVars,
         (npc' = "off") <=> (npc = "off"), opc # "none" => npc' = npc
  PROVE  SessionInv'
<1>1. SessionTypeOK'
  BY DEF SessionInv, SessionTypeOK
<1>2. AnswersAreSaved'
  BY DEF SessionInv, AnswersAreSaved
<1>3. ToldIsStored' /\ LeaseIsUnique' /\ ReportsOwnTask'
  BY DEF SessionInv, ToldIsStored, LeaseIsUnique, Waiting, ReportsOwnTask, CompletionIsOwn
<1>. QED BY <1>1, <1>2, <1>3 DEF SessionInv

LEMMA JournalStepInv == ASSUME SessionInv, JournalStep PROVE SessionInv'
<1>1. (npc' = "off") <=> (npc = "off")
  BY StaysRunning DEF JournalStep
<1>2. ControllerStep => npc' = npc
  BY DEF ControllerStep, IngestBatch, IngestSummary, localVars
<1>. QED BY <1>1, <1>2, FrameInv DEF JournalStep

LEMMA SendOfferInv ==
  ASSUME SessionInv, NEW o \in Offers, SendOffer(o) PROVE SessionInv'
<1>. USE DEF SessionInv, SendOffer, journalVars, localVars
<1>1. SessionTypeOK'
  BY DEF SessionTypeOK
<1>2. AnswersAreSaved' /\ ToldIsStored'
  BY DEF AnswersAreSaved, ToldIsStored
<1>3. LeaseIsUnique' /\ ReportsOwnTask'
  BY DEF LeaseIsUnique, Waiting, ReportsOwnTask, CompletionIsOwn
<1>. QED BY <1>1, <1>2, <1>3

\* What is told is what is stored.
LEMMA ReplyInv ==
  ASSUME SessionTypeOK, ToldIsStored, NEW o \in Offers, Reply(o, cached[o]),
         cached[o] # "none", stored[o] = cached[o], stored' = stored
  PROVE  told' \in [Offers -> SUBSET Answers] /\ ToldIsStored'
<1>1. cached[o] \in Answers
  BY DEF SessionTypeOK
<1>2. told' \in {told, [told EXCEPT ![o] = @ \cup {cached[o]}]}
  BY DEF Reply
<1>3. told' \in [Offers -> SUBSET Answers]
  BY <1>1, <1>2 DEF SessionTypeOK
<1>4. \A q \in Offers : told'[q] \subseteq told[q] \cup (IF q = o THEN {stored[o]} ELSE {})
  BY <1>2 DEF SessionTypeOK
<1>. QED BY <1>3, <1>4 DEF ToldIsStored

LEMMA ReplayInv ==
  ASSUME SessionInv, NEW o \in Offers, ReplayAnswer(o) PROVE SessionInv'
<1>. USE DEF SessionInv
<1>1. stored[o] = cached[o] /\ cached[o] # "none" /\ Reply(o, cached[o])
  BY DEF ReplayAnswer, AnswersAreSaved, Idle
<1>2. UNCHANGED << journalVars, answerVars, leaseVars, kernelVars, proposed >>
      /\ inbox' = inbox \ {o}
  BY DEF ReplayAnswer
<1>3. told' \in [Offers -> SUBSET Answers] /\ ToldIsStored'
  BY <1>1, <1>2, ReplyInv
<1>4. SessionTypeOK'
  BY <1>2, <1>3 DEF SessionTypeOK
<1>5. AnswersAreSaved'
  BY <1>2 DEF AnswersAreSaved, journalVars, localVars
<1>6. LeaseIsUnique' /\ ReportsOwnTask'
  BY <1>2 DEF LeaseIsUnique, Waiting, ReportsOwnTask, CompletionIsOwn
<1>. QED BY <1>3, <1>4, <1>5, <1>6

\* A lease is queued for an offer that has none yet.
LEMMA DecideInv ==
  ASSUME SessionInv, NEW o \in Offers, NEW answer \in Answers, DecideOffer(o, answer)
  PROVE  SessionInv'
<1>. USE DEF SessionInv
<1>1. /\ opc = "none" /\ npc = "idle" /\ npc' = npc /\ cached[o] = "none"
      /\ cached' = [cached EXCEPT ![o] = answer]
      /\ pending' \in {pending, Append(pending, o)}
      /\ handling' = o /\ opc' = "saving" /\ inbox' = inbox \ {o}
      /\ UNCHANGED << stored, lease, epc, took, kernelVars, told, proposed >>
  BY DEF DecideOffer, Idle, journalVars, localVars
<1>2. stored[o] = "none"
  BY <1>1 DEF AnswersAreSaved
<1>3. created[o] = 0 /\ lease # o /\ ~ Waiting(o)
  BY <1>1, <1>2 DEF LeaseIsUnique
<1>4. pending \in Seq(Offers) /\ pending' \in Seq(Offers)
  <2>1. pending \in Seq(Offers)
    BY DEF SessionTypeOK
  <2>. QED BY <1>1, <2>1
<1>5. SessionTypeOK'
  BY <1>1, <1>4 DEF SessionTypeOK
<1>6. AnswersAreSaved' /\ ToldIsStored'
  <2>1. answer # "none"
    BY DEF Answers
  <2>2. cached'[o] = answer /\ \A q \in Offers : q # o => cached'[q] = cached[q]
    BY <1>1 DEF SessionTypeOK
  <2>. QED BY <1>1, <1>2, <2>1, <2>2 DEF AnswersAreSaved, ToldIsStored
<1>7. LeaseIsUnique'
  <2>1. \A q \in Offers : q # o => (Waiting(q)' <=> Waiting(q))
    BY <1>1, <1>4 DEF Waiting
  <2>2. \A i, j \in 1..Len(pending') : pending'[i] = pending'[j] => i = j
    BY <1>1, <1>3, <1>4 DEF LeaseIsUnique, Waiting
  <2>. QED BY <1>1, <1>2, <1>3, <2>1, <2>2 DEF LeaseIsUnique
<1>8. ReportsOwnTask'
  BY <1>1 DEF ReportsOwnTask, CompletionIsOwn
<1>. QED BY <1>5, <1>6, <1>7, <1>8

LEMMA SaveInv == ASSUME SessionInv, SaveOfferAnswer PROVE SessionInv'
<1>. USE DEF SessionInv
<1>1. /\ opc = "saving" /\ opc' = "replying"
      /\ stored' = [stored EXCEPT ![handling] = cached[handling]]
      /\ UNCHANGED << journalVars, cached, handling, leaseVars, kernelVars, inbox, told, proposed >>
  BY DEF SaveOfferAnswer
<1>2. /\ npc = "idle" /\ npc' = npc /\ handling \in Offers
      /\ cached[handling] # "none" /\ stored[handling] = "none"
  BY <1>1 DEF AnswersAreSaved, journalVars, localVars
<1>3. /\ stored'[handling] = cached[handling]
      /\ \A q \in Offers : q # handling => stored'[q] = stored[q]
  BY <1>1, <1>2 DEF SessionTypeOK
<1>4. SessionTypeOK'
  BY <1>1, <1>2 DEF SessionTypeOK
<1>5. AnswersAreSaved' /\ ToldIsStored'
  BY <1>1, <1>2, <1>3 DEF AnswersAreSaved, ToldIsStored
<1>6. LeaseIsUnique'
  BY <1>1, <1>2, <1>3 DEF LeaseIsUnique, Waiting
<1>7. ReportsOwnTask'
  BY <1>1 DEF ReportsOwnTask, CompletionIsOwn
<1>. QED BY <1>4, <1>5, <1>6, <1>7

LEMMA SendAnswerInv == ASSUME SessionInv, SendAnswer PROVE SessionInv'
<1>. USE DEF SessionInv
<1>1. /\ opc = "replying" /\ opc' = "none" /\ handling' = NoOffer
      /\ Reply(handling, cached[handling])
      /\ UNCHANGED << journalVars, stored, cached, leaseVars, kernelVars, inbox, proposed >>
  BY DEF SendAnswer
<1>2. /\ npc = "idle" /\ npc' = npc /\ handling \in Offers
      /\ cached[handling] # "none" /\ stored[handling] = cached[handling]
  BY <1>1 DEF AnswersAreSaved, journalVars, localVars
<1>3. told' \in [Offers -> SUBSET Answers] /\ ToldIsStored'
  BY <1>1, <1>2, ReplyInv
<1>4. SessionTypeOK'
  BY <1>1, <1>3 DEF SessionTypeOK
<1>5. AnswersAreSaved'
  BY <1>1, <1>2 DEF AnswersAreSaved
<1>6. LeaseIsUnique' /\ ReportsOwnTask'
  BY <1>1 DEF LeaseIsUnique, Waiting, ReportsOwnTask, CompletionIsOwn
<1>. QED BY <1>3, <1>4, <1>5, <1>6

\* The head of the queue is started; the rest keeps its order.
LEMMA StartInv == ASSUME SessionInv, StartLease PROVE SessionInv'
<1>. USE DEF SessionInv
<1>1. /\ opc = "none" /\ npc = "idle" /\ epc = "none" /\ epc' = "started" /\ pending # << >>
      /\ lease' = Head(pending) /\ pending' = Tail(pending)
      /\ UNCHANGED << answerVars, took, kernelVars, inbox, told, proposed >>
  BY DEF StartLease, Idle
<1>2. npc' # "off"
  BY <1>1, StaysRunning DEF StartLease
<1>3. pending \in Seq(Offers)
  BY DEF SessionTypeOK
<1>4. lease' \in Offers /\ pending' \in Seq(Offers) /\ lease' = pending[1]
      /\ 1 \in 1..Len(pending) /\ Len(pending') = Len(pending) - 1
      /\ \A i \in 1..Len(pending') : pending'[i] = pending[i + 1] /\ i + 1 \in 1..Len(pending)
  BY <1>1, <1>3
<1>5. SessionTypeOK'
  BY <1>1, <1>4 DEF SessionTypeOK, ExecutePc
<1>6. AnswersAreSaved' /\ ToldIsStored'
  BY <1>1, <1>2 DEF AnswersAreSaved, ToldIsStored
<1>7. LeaseIsUnique'
  <2>1. Waiting(lease')
    BY <1>4 DEF Waiting
  <2>2. created[lease'] = 0 /\ stored[lease'] # "none"
    BY <1>1, <1>4, <2>1 DEF LeaseIsUnique
  <2>3. \A q \in Offers : Waiting(q)' => Waiting(q) /\ q # lease'
    BY <1>4 DEF Waiting, LeaseIsUnique
  <2>4. \A i, j \in 1..Len(pending') : pending'[i] = pending'[j] => i = j
    <3>. TAKE i, j \in 1..Len(pending')
    <3>1. pending'[i] = pending'[j] => i + 1 = j + 1
      BY <1>4 DEF LeaseIsUnique
    <3>. QED BY <1>3, <1>4, <3>1
  <2>. QED BY <1>1, <1>4, <2>2, <2>3, <2>4 DEF LeaseIsUnique
<1>8. ReportsOwnTask'
  BY <1>1 DEF ReportsOwnTask, CompletionIsOwn
<1>. QED BY <1>5, <1>6, <1>7, <1>8

LEMMA CreateInv == ASSUME SessionInv, CreateLocalTask PROVE SessionInv'
<1>. USE DEF SessionInv
<1>1. /\ epc = "started" /\ epc' = "created" /\ npc' = npc
      /\ queue' = Append(queue, lease)
      /\ created' = [created EXCEPT ![lease] = @ + 1]
      /\ UNCHANGED << answerVars, pending, lease, took, inbox, told, proposed >>
  BY DEF CreateLocalTask, journalVars
<1>2. lease \in Offers /\ created[lease] = 0
  BY <1>1 DEF LeaseIsUnique
<1>3. created'[lease] = 1 /\ \A q \in Offers : q # lease => created'[q] = created[q]
  BY <1>1, <1>2 DEF SessionTypeOK
<1>4. SessionTypeOK'
  <2>1. queue' \in Seq(Offers \cup {Local})
    <3>1. queue \in Seq(Offers \cup {Local})
      BY DEF SessionTypeOK
    <3>. QED BY <1>1, <1>2, <3>1
  <2>2. created' \in [Offers -> Nat]
    BY <1>1, <1>2 DEF SessionTypeOK
  <2>. QED BY <1>1, <2>1, <2>2 DEF SessionTypeOK, ExecutePc
<1>5. AnswersAreSaved' /\ ToldIsStored'
  BY <1>1 DEF AnswersAreSaved, ToldIsStored
<1>6. LeaseIsUnique'
  BY <1>1, <1>2, <1>3 DEF LeaseIsUnique, Waiting
<1>7. ReportsOwnTask'
  BY <1>1 DEF ReportsOwnTask, CompletionIsOwn
<1>. QED BY <1>4, <1>5, <1>6, <1>7

LEMMA RunInv == ASSUME SessionInv, RunNext PROVE SessionInv'
<1>. USE DEF SessionInv
<1>1. /\ epc = "created" /\ epc' = "ran" /\ npc' = npc
      /\ queue # << >> /\ took' = Head(queue) /\ queue' = Tail(queue)
      /\ UNCHANGED << answerVars, pending, lease, created, inbox, told, proposed >>
  BY DEF RunNext, journalVars
<1>2. SessionTypeOK'
  <2>1. queue \in Seq(Offers \cup {Local})
    BY DEF SessionTypeOK
  <2>2. took' \in Offers \cup {Local} /\ queue' \in Seq(Offers \cup {Local})
    BY <1>1, <2>1
  <2>. QED BY <1>1, <2>2 DEF SessionTypeOK, ExecutePc
<1>3. AnswersAreSaved' /\ ToldIsStored'
  BY <1>1 DEF AnswersAreSaved, ToldIsStored
<1>4. LeaseIsUnique' /\ ReportsOwnTask'
  BY <1>1 DEF LeaseIsUnique, Waiting, ReportsOwnTask, CompletionIsOwn
<1>. QED BY <1>2, <1>3, <1>4

\* Events are reported for the task of the lease only.
LEMMA ReportInv == ASSUME SessionInv, MirrorEvent \/ EmitCompletion PROVE SessionInv'
<1>. USE DEF SessionInv
<1>1. /\ opc = "none" /\ npc = "idle" /\ took = lease
      /\ epc \notin {"none", "started"} /\ epc' \in {"mirrored", "proposing"}
      /\ UNCHANGED << answerVars, pending, lease, took, kernelVars, inbox, told, proposed >>
  BY DEF MirrorEvent, EmitCompletion, Idle, ReportsOwnTask
<1>2. npc' # "off"
  BY <1>1, StaysRunning DEF MirrorEvent, EmitCompletion
<1>3. SessionTypeOK'
  BY <1>1 DEF SessionTypeOK, ExecutePc
<1>4. AnswersAreSaved' /\ ToldIsStored'
  BY <1>1, <1>2 DEF AnswersAreSaved, ToldIsStored
<1>5. LeaseIsUnique' /\ ReportsOwnTask'
  BY <1>1 DEF LeaseIsUnique, Waiting, ReportsOwnTask, CompletionIsOwn
<1>. QED BY <1>3, <1>4, <1>5

LEMMA ProposeInv == ASSUME SessionInv, ProposeCompletion PROVE SessionInv'
<1>. USE OfferAssumption DEF SessionInv
<1>1. /\ opc = "none" /\ npc = "idle" /\ epc = "proposing" /\ epc' = "none"
      /\ lease' = NoOffer /\ took' = NoOffer
      /\ proposed' \in {proposed, proposed \cup {<<lease, took>>}}
      /\ UNCHANGED << answerVars, pending, kernelVars, inbox, told >>
  BY DEF ProposeCompletion, Idle
<1>2. npc' # "off"
  BY <1>1, StaysRunning DEF ProposeCompletion, journalVars
<1>3. took = lease /\ lease \in Offers
  BY <1>1 DEF ReportsOwnTask, LeaseIsUnique
<1>4. SessionTypeOK'
  BY <1>1, <1>3 DEF SessionTypeOK, ExecutePc
<1>5. AnswersAreSaved' /\ ToldIsStored'
  BY <1>1, <1>2 DEF AnswersAreSaved, ToldIsStored
<1>6. LeaseIsUnique' /\ ReportsOwnTask'
  BY <1>1, <1>3 DEF LeaseIsUnique, Waiting, ReportsOwnTask, CompletionIsOwn
<1>. QED BY <1>4, <1>5, <1>6

LEMMA QueueInv == ASSUME SessionInv, QueueLocalTask \/ OtherWorkerTakes PROVE SessionInv'
<1>. USE DEF SessionInv
<1>1. /\ queue' \in {Append(queue, Local), Tail(queue)} /\ npc' = npc
      /\ queue' = Append(queue, Local) \/ queue # << >>
      /\ UNCHANGED << answerVars, leaseVars, created, inbox, told, proposed >>
  BY DEF QueueLocalTask, OtherWorkerTakes, journalVars
<1>2. SessionTypeOK'
  <2>1. queue \in Seq(Offers \cup {Local})
    BY DEF SessionTypeOK
  <2>2. queue' \in Seq(Offers \cup {Local})
    BY <1>1, <2>1
  <2>. QED BY <1>1, <2>2 DEF SessionTypeOK
<1>3. AnswersAreSaved' /\ ToldIsStored'
  BY <1>1 DEF AnswersAreSaved, ToldIsStored
<1>4. LeaseIsUnique' /\ ReportsOwnTask'
  BY <1>1 DEF LeaseIsUnique, Waiting, ReportsOwnTask, CompletionIsOwn
<1>. QED BY <1>2, <1>3, <1>4

\* What a crash takes along was not stored, so that a replay starts afresh.
LEMMA SessionCrashInv == ASSUME SessionInv, Crash PROVE SessionInv'
<1>. USE OfferAssumption DEF SessionInv
<1>1. /\ npc' = "off" /\ opc' = "none" /\ handling' = NoOffer /\ pending' = << >>
      /\ lease' = NoOffer /\ epc' = "none" /\ took' = NoOffer /\ inbox' = {}
      /\ cached' = [o \in Offers |-> "none"]
      /\ UNCHANGED << stored, kernelVars, told, proposed >>
  BY DEF Crash, JournalCrash
<1>2. SessionTypeOK'
  BY <1>1 DEF SessionTypeOK, ExecutePc
<1>3. AnswersAreSaved' /\ ToldIsStored'
  BY <1>1 DEF AnswersAreSaved, ToldIsStored
<1>4. LeaseIsUnique' /\ ReportsOwnTask'
  BY <1>1 DEF LeaseIsUnique, Waiting, ReportsOwnTask, CompletionIsOwn
<1>. QED BY <1>2, <1>3, <1>4

LEMMA RestartInv == ASSUME SessionInv, Restart PROVE SessionInv'
<1>. USE DEF SessionInv
<1>1. /\ npc = "off" /\ npc' = "idle" /\ cached' = stored
      /\ UNCHANGED << stored, opc, handling, leaseVars, kernelVars, inbox, told, proposed >>
  BY DEF Restart, JournalRestart
<1>2. opc = "none"
  BY <1>1 DEF AnswersAreSaved
<1>3. SessionTypeOK'
  BY <1>1 DEF SessionTypeOK
<1>4. AnswersAreSaved' /\ ToldIsStored'
  BY <1>1, <1>2 DEF AnswersAreSaved, ToldIsStored
<1>5. LeaseIsUnique' /\ ReportsOwnTask'
  BY <1>1 DEF LeaseIsUnique, Waiting, ReportsOwnTask, CompletionIsOwn
<1>. QED BY <1>3, <1>4, <1>5

LEMMA DisconnectInv == ASSUME SessionInv, Disconnect PROVE SessionInv'
<1>. USE DEF SessionInv
<1>1. npc' = npc /\ inbox' = {}
      /\ UNCHANGED << answerVars, leaseVars, kernelVars, told, proposed >>
  BY DEF Disconnect, disconnect
<1>2. SessionTypeOK'
  BY <1>1 DEF SessionTypeOK
<1>3. AnswersAreSaved' /\ ToldIsStored'
  BY <1>1 DEF AnswersAreSaved, ToldIsStored
<1>4. LeaseIsUnique' /\ ReportsOwnTask'
  BY <1>1 DEF LeaseIsUnique, Waiting, ReportsOwnTask, CompletionIsOwn
<1>. QED BY <1>2, <1>3, <1>4

LEMMA SessionNextInv == SessionInv /\ [Next]_vars => SessionInv'
<1>. SUFFICES ASSUME SessionInv, [Next]_vars PROVE SessionInv'
  OBVIOUS
<1>1. CASE JournalStep
  BY <1>1, JournalStepInv
<1>2. CASE OfferStep
  BY <1>2, SendOfferInv, ReplayInv, DecideInv, SaveInv, SendAnswerInv DEF OfferStep
<1>3. CASE LeaseStep
  BY <1>3, StartInv, CreateInv, RunInv, ReportInv, ProposeInv, QueueInv DEF LeaseStep
<1>4. CASE Disconnect \/ Crash \/ Restart
  BY <1>4, DisconnectInv, SessionCrashInv, RestartInv
<1>5. CASE UNCHANGED vars
  BY <1>5, FrameInv DEF vars, journalVars
<1>. QED BY <1>1, <1>2, <1>3, <1>4, <1>5 DEF Next

LEMMA SessionInductive == Spec => []SessionInv
<1>1. Init => SessionInv
  BY SessionInitInv
<1>. QED BY <1>1, SessionNextInv, PTL DEF Spec

\* The journal's variables and the session's stay within their domains.
THEOREM SessionTypeCorrect == Spec => []TypeOK
<1>1. JournalTypeOK /\ SessionInv => TypeOK
  BY DEF SessionInv, TypeOK
<1>. QED BY <1>1, NodeIsJournal, JournalTypeCorrect, SessionInductive, PTL DEF ImplementsJournal

\* receive answers an offer one way only, across replays, lost replies and
\* restarts.
THEOREM OneAnswer == Spec => []AnswersAreStable
<1>1. ASSUME SessionInv PROVE AnswersAreStable
  <2>. SUFFICES ASSUME NEW o \in Offers PROVE Cardinality(told[o]) <= 1
    BY DEF AnswersAreStable
  <2>1. told[o] = {} \/ told[o] = {stored[o]}
    BY <1>1 DEF SessionInv, ToldIsStored
  <2>2. Cardinality({}) = 0 /\ Cardinality({stored[o]}) = 1
    BY FS_EmptySet, FS_Singleton
  <2>. QED BY <2>1, <2>2
<1>. QED BY <1>1, SessionInductive, PTL

\* The local kernel gets one task for an offer at most.
THEOREM OneExecution == Spec => []OfferRunsOnce
<1>1. SessionInv => OfferRunsOnce
  BY DEF SessionInv, LeaseIsUnique, OfferRunsOnce
<1>. QED BY <1>1, SessionInductive, PTL

\* No completion is proposed for a task that runNext took from somebody else.
THEOREM OwnCompletion == Spec => []CompletionIsOwn
<1>1. SessionInv => CompletionIsOwn
  BY DEF SessionInv, ReportsOwnTask
<1>. QED BY <1>1, SessionInductive, PTL
=============================================================================
