---------------------------- MODULE NodeSession ----------------------------
(***************************************************************************)
(* An execution node: the offers it answers and the work it does for them,  *)
(* reported through the journal of NodeJournal.  Source: the offer half of  *)
(* src/src/node/session.ts, src/src/node/node-runtime.ts and                *)
(* src/src/kernel/coordinator-bridge.ts.                                    *)
(*                                                                          *)
(* An offer stands for its idempotency key and its lease.  The local        *)
(* database's queue is shared with the operator and with other workers; a   *)
(* task in it is named by the offer it was created for.  A rejection that   *)
(* nothing handles ends the process.                                        *)
(***************************************************************************)
EXTENDS NodeJournal, Sequences

CONSTANTS
  Offers,     \* idempotency keys of work offers
  NoOffer,    \* no lease is being executed
  Local,      \* a task that the operator queued
  MaxQueued   \* bound on the tasks in the local queue

ASSUME OfferAssumption ==
  /\ NoOffer \notin Offers
  /\ Local \notin Offers
  /\ MaxQueued \in Nat

VARIABLES
  stored,    \* offer_answers
  cached,    \* #offerAnswers
  opc,       \* where receive is with an offer
  handling,  \* that offer
  pending,   \* #pendingLeases
  lease,     \* the lease that #drain executes
  epc,       \* where executeAccepted is
  took,      \* the task that its runNext executed
  queue,     \* queued tasks of the local database
  created,   \* how often a task was created for an offer
  inbox,     \* work.offer in flight
  told,      \* answers that the controller got for an offer
  proposed   \* completions that it got: <<offer, task it is about>>

answerVars == << stored, cached, opc, handling >>
leaseVars == << pending, lease, epc, took >>
kernelVars == << queue, created >>
offerVars == << answerVars, leaseVars, kernelVars, inbox, told, proposed >>
vars == << journalVars, offerVars >>

Answers == {"accepted", "declined"}

ExecutePc == {"none", "started", "created", "ran", "mirrored", "proposing"}

SessionTypeOK ==
  /\ stored \in [Offers -> Answers \cup {"none"}]
  /\ cached \in [Offers -> Answers \cup {"none"}]
  /\ opc \in {"none", "saving", "replying"}
  /\ handling \in Offers \cup {NoOffer}
  /\ pending \in Seq(Offers)
  /\ lease \in Offers \cup {NoOffer}
  /\ epc \in ExecutePc
  /\ took \in Offers \cup {NoOffer, Local}
  /\ queue \in Seq(Offers \cup {Local})
  /\ created \in [Offers -> Nat]
  /\ inbox \in SUBSET Offers
  /\ told \in [Offers -> SUBSET Answers]
  /\ proposed \in SUBSET (Offers \X (Offers \cup {NoOffer, Local}))

\* The durable state, the session's and the runner's stay within their domains.
TypeOK == JournalTypeOK /\ SessionTypeOK

Init ==
  /\ JournalInit
  /\ stored = [o \in Offers |-> "none"]
  /\ cached = [o \in Offers |-> "none"]
  /\ opc = "none"
  /\ handling = NoOffer
  /\ pending = << >>
  /\ lease = NoOffer
  /\ epc = "none"
  /\ took = NoOffer
  /\ queue = << >>
  /\ created = [o \in Offers |-> 0]
  /\ inbox = {}
  /\ told = [o \in Offers |-> {}]
  /\ proposed = {}

-----------------------------------------------------------------------------
(* Offers.                                                                  *)

\* The controller offers work, and offers it again as long as it likes.
SendOffer(o) ==
  /\ conn = "up"
  /\ inbox' = inbox \cup {o}
  /\ UNCHANGED << journalVars, answerVars, leaseVars, kernelVars, told, proposed >>

\* The answer reaches the controller unless the socket is gone by then.
Reply(o, answer) ==
  \/ conn # "none" /\ told' = [told EXCEPT ![o] = @ \cup {answer}]
  \/ UNCHANGED told

\* The session's code is in no handler.
Idle == npc = "idle" /\ opc = "none"

\* A replayed offer: the answer is replayed.
ReplayAnswer(o) ==
  /\ Idle /\ o \in inbox /\ cached[o] # "none"
  /\ inbox' = inbox \ {o}
  /\ Reply(o, cached[o])
  /\ UNCHANGED << journalVars, answerVars, leaseVars, kernelVars, proposed >>

\* decideOffer: an accepted lease is queued before the answer is stored.
DecideOffer(o, answer) ==
  /\ Idle /\ o \in inbox /\ cached[o] = "none"
  /\ inbox' = inbox \ {o}
  /\ pending' = IF answer = "accepted" THEN Append(pending, o) ELSE pending
  /\ cached' = [cached EXCEPT ![o] = answer]
  /\ handling' = o
  /\ opc' = "saving"
  /\ UNCHANGED << journalVars, stored, lease, epc, took, kernelVars, told, proposed >>

\* Slip: the answer is kept in memory only.
SaveOfferAnswer_memory ==
  /\ opc = "saving"
  /\ opc' = "replying"
  /\ UNCHANGED << journalVars, stored, cached, handling, leaseVars, kernelVars >>
  /\ UNCHANGED << inbox, told, proposed >>

SaveOfferAnswer ==
  /\ opc = "saving"
  /\ stored' = [stored EXCEPT ![handling] = cached[handling]]
  /\ opc' = "replying"
  /\ UNCHANGED << journalVars, cached, handling, leaseVars, kernelVars, inbox, told, proposed >>

SendAnswer ==
  /\ opc = "replying"
  /\ Reply(handling, cached[handling])
  /\ handling' = NoOffer
  /\ opc' = "none"
  /\ UNCHANGED << journalVars, stored, cached, leaseVars, kernelVars, inbox, proposed >>

-----------------------------------------------------------------------------
(* #drain and executeAccepted: one lease at a time.                         *)

\* run.started
StartLease ==
  /\ Idle /\ epc = "none" /\ pending # << >>
  /\ emitEvent(FALSE)
  /\ lease' = Head(pending)
  /\ pending' = Tail(pending)
  /\ epc' = "started"
  /\ UNCHANGED << answerVars, took, kernelVars, inbox, told, proposed >>

CreateLocalTask ==
  /\ Idle /\ epc = "started" /\ Len(queue) < MaxQueued
  /\ queue' = Append(queue, lease)
  /\ created' = [created EXCEPT ![lease] = @ + 1]
  /\ epc' = "created"
  /\ UNCHANGED << journalVars, answerVars, pending, lease, took, inbox, told, proposed >>

\* runNext claims the oldest queued task, whoever queued it.
RunNext ==
  /\ Idle /\ epc = "created" /\ queue # << >>
  /\ took' = Head(queue)
  /\ queue' = Tail(queue)
  /\ epc' = "ran"
  /\ UNCHANGED << journalVars, answerVars, pending, lease, created, inbox, told, proposed >>

\* Slip: whatever runNext executed is reported.
MirrorEvent_anyTask ==
  /\ Idle /\ epc \in {"ran", "mirrored"}
  /\ emitEvent(FALSE)
  /\ epc' = "mirrored"
  /\ UNCHANGED << answerVars, pending, lease, took, kernelVars, inbox, told, proposed >>

\* One event of the local timeline of the task that was created for the offer;
\* for any other task executeAccepted throws and #drain never resumes.  The
\* model admits messages between these emissions, which the code does not.
MirrorEvent ==
  /\ Idle /\ epc \in {"ran", "mirrored"} /\ took = lease
  /\ emitEvent(FALSE)
  /\ epc' = "mirrored"
  /\ UNCHANGED << answerVars, pending, lease, took, kernelVars, inbox, told, proposed >>

\* The event run.completion_proposed is protected.
EmitCompletion ==
  /\ Idle /\ epc = "mirrored"
  /\ emitEvent(TRUE)
  /\ epc' = "proposing"
  /\ UNCHANGED << answerVars, pending, lease, took, kernelVars, inbox, told, proposed >>

\* flushEvents, which needs a welcome, and the completion's envelope, which
\* needs an open socket and is lost without one.
ProposeCompletion ==
  /\ Idle /\ epc = "proposing"
  /\ flush \/ (conn # "up" /\ UNCHANGED journalVars)
  /\ \/ conn # "none" /\ proposed' = proposed \cup {<<lease, took>>}
     \/ UNCHANGED proposed
  /\ lease' = NoOffer
  /\ took' = NoOffer
  /\ epc' = "none"
  /\ UNCHANGED << answerVars, pending, kernelVars, inbox, told >>

-----------------------------------------------------------------------------
(* The local queue's other users.                                           *)

QueueLocalTask ==
  /\ Len(queue) < MaxQueued
  /\ queue' = Append(queue, Local)
  /\ UNCHANGED << journalVars, answerVars, leaseVars, created, inbox, told, proposed >>

OtherWorkerTakes ==
  /\ queue # << >>
  /\ queue' = Tail(queue)
  /\ UNCHANGED << journalVars, answerVars, leaseVars, created, inbox, told, proposed >>

-----------------------------------------------------------------------------
(* The process.                                                             *)

\* The process ends: killed, or by a rejection that nothing handles, such as
\* the one of executeAccepted when runNext executed another task or none, or
\* the one of saveOfferAnswer.  Everything in memory is gone.
Crash ==
  /\ JournalCrash
  /\ cached' = [o \in Offers |-> "none"]
  /\ opc' = "none"
  /\ handling' = NoOffer
  /\ pending' = << >>
  /\ lease' = NoOffer
  /\ epc' = "none"
  /\ took' = NoOffer
  /\ inbox' = {}
  /\ UNCHANGED << stored, kernelVars, told, proposed >>

\* The constructor loads the stored answers.
Restart ==
  /\ JournalRestart
  /\ cached' = stored
  /\ UNCHANGED << stored, opc, handling, leaseVars, kernelVars, inbox, told, proposed >>

Disconnect == disconnect /\ inbox' = {} /\
  UNCHANGED << answerVars, leaseVars, kernelVars, told, proposed >>

\* Steps of the journal that leave offers alone; the session takes none while
\* it handles one.
JournalStep ==
  /\ (opc = "none" /\ SessionStep) \/ ControllerStep
  /\ UNCHANGED offerVars

OfferStep ==
  \/ \E o \in Offers : \/ SendOffer(o) \/ ReplayAnswer(o)
                       \/ \E answer \in Answers : DecideOffer(o, answer)
  \/ SaveOfferAnswer \/ SendAnswer

LeaseStep ==
  \/ StartLease \/ CreateLocalTask \/ RunNext \/ MirrorEvent \/ EmitCompletion
  \/ ProposeCompletion
  \/ QueueLocalTask \/ OtherWorkerTakes

Next == JournalStep \/ OfferStep \/ LeaseStep \/ Disconnect \/ Crash \/ Restart

Spec == Init /\ [][Next]_vars

-----------------------------------------------------------------------------

\* Whatever the node does with offers, its journal and its connection behave as
\* NodeJournal says: no handler of an offer writes the store's events or moves
\* a cursor except through emitEvent, and no answer is sent over a connection
\* in a way that disturbs what is in flight.
ImplementsJournal == JournalSpec

\* The controller never gets two different answers to one offer, however often
\* it is delivered and whatever restarts in between.
AnswersAreStable == \A o \in Offers : Cardinality(told[o]) <= 1

\* At most one local task is ever created for an offer.
OfferRunsOnce == \A o \in Offers : created[o] <= 1

\* A completion is about the task that was created for its offer, although
\* the queue it is taken from is shared.
CompletionIsOwn == \A p \in proposed : p[1] = p[2]

\* A running node has the work it told the controller it accepted: the lease
\* is queued, under way, or a local task has been created for it.
AcceptedIsKept ==
  npc # "off" =>
    \A o \in Offers : "accepted" \in told[o] =>
      \/ created[o] > 0
      \/ lease = o
      \/ \E i \in DOMAIN pending : pending[i] = o
=============================================================================
