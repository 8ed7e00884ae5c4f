---------------------------- MODULE Idempotency ----------------------------
(***************************************************************************)
(* Mutations over HTTP: runIdempotentMutation of src/src/daemon.ts on the   *)
(* idempotency_keys table of src/src/db.ts.  Clients send a request again   *)
(* when its answer does not arrive, send it twice at once, or reuse a key   *)
(* for something else; the daemon handles requests concurrently, may fail   *)
(* to write the table and may crash.                                        *)
(*                                                                          *)
(* A request stands for one HTTP exchange.  The claim's INSERT and SELECT   *)
(* are one action: they run in one turn of the write lane, and no row is    *)
(* ever deleted (releaseIdempotencyKey has no caller).  What a handler      *)
(* answers is named after the exchange that ran it.                         *)
(***************************************************************************)
EXTENDS Naturals, FiniteSets

CONSTANTS
  Requests,    \* HTTP exchanges
  Keys,        \* values of Idempotency-Key
  Hashes,      \* request fingerprints
  KeyOf,       \* the key of a request
  HashOf,      \* its fingerprint
  NoHash,      \* the fingerprint of a key without a row
  NoRequest,   \* no stored response
  MaxCrashes   \* bound on daemon crashes

ASSUME RequestAssumption ==
  /\ KeyOf \in [Requests -> Keys]
  /\ HashOf \in [Requests -> Hashes]
  /\ NoHash \notin Hashes
  /\ NoRequest \notin Requests
  /\ MaxCrashes \in Nat

VARIABLES
  state,      \* idempotency_keys.state, or "absent"
  rowHash,    \* idempotency_keys.request_hash
  response,   \* idempotency_keys.response_status and response_body_json
  rpc,        \* where a request is
  answer,     \* what its handler returned: "ok" or "error"
  reply,      \* what its client got
  effects,    \* requests whose handler changed something
  crashes     \* daemon crashes so far

rows == << state, rowHash, response >>
vars == << rows, rpc, answer, reply, effects, crashes >>

Pc == {"unsent", "arrived", "handling", "handled", "completed", "done"}

\* What a client gets: the answer of the exchange that ran the handler, or why
\* there is none.
Reply == [kind : {"none", "answer", "conflict", "pending", "failed", "lost"},
          by : Requests \cup {NoRequest}, result : {"none", "ok", "error"}]

NoAnswer(kind) == [kind |-> kind, by |-> NoRequest, result |-> "none"]

AnswerOf(q, result) == [kind |-> "answer", by |-> q, result |-> result]

TypeOK ==
  /\ state \in [Keys -> {"absent", "pending", "completed"}]
  /\ rowHash \in [Keys -> Hashes \cup {NoHash}]
  /\ response \in [Keys -> Reply]
  /\ rpc \in [Requests -> Pc]
  /\ answer \in [Requests -> {"none", "ok", "error"}]
  /\ reply \in [Requests -> Reply]
  /\ effects \in SUBSET Requests
  /\ crashes \in Nat

Init ==
  /\ state = [k \in Keys |-> "absent"]
  /\ rowHash = [k \in Keys |-> NoHash]
  /\ response = [k \in Keys |-> NoAnswer("none")]
  /\ rpc = [q \in Requests |-> "unsent"]
  /\ answer = [q \in Requests |-> "none"]
  /\ reply = [q \in Requests |-> NoAnswer("none")]
  /\ effects = {}
  /\ crashes = 0

Goto(q, pc) == rpc' = [rpc EXCEPT ![q] = pc]

Answer(q, r) == Goto(q, "done") /\ reply' = [reply EXCEPT ![q] = r]

-----------------------------------------------------------------------------

Send(q) ==
  /\ rpc[q] = "unsent"
  /\ Goto(q, "arrived")
  /\ UNCHANGED << rows, answer, reply, effects, crashes >>

\* Slip: a pending key is taken over by the retry.
ClaimNew_takesOver(q) ==
  LET k == KeyOf[q] IN
  /\ rpc[q] = "arrived" /\ state[k] \in {"absent", "pending"}
  /\ state' = [state EXCEPT ![k] = "pending"]
  /\ rowHash' = [rowHash EXCEPT ![k] = HashOf[q]]
  /\ Goto(q, "handling")
  /\ UNCHANGED << response, answer, reply, effects, crashes >>

\* claimIdempotencyKey: the insert wins.
ClaimNew(q) ==
  LET k == KeyOf[q] IN
  /\ rpc[q] = "arrived" /\ state[k] = "absent"
  /\ state' = [state EXCEPT ![k] = "pending"]
  /\ rowHash' = [rowHash EXCEPT ![k] = HashOf[q]]
  /\ Goto(q, "handling")
  /\ UNCHANGED << response, answer, reply, effects, crashes >>

\* Slip: the fingerprint is not compared.
ClaimTaken_anyHash(q) ==
  LET k == KeyOf[q] IN
  /\ rpc[q] = "arrived" /\ state[k] # "absent"
  /\ Answer(q, IF state[k] = "pending" THEN NoAnswer("pending") ELSE response[k])
  /\ UNCHANGED << rows, answer, effects, crashes >>

\* claimIdempotencyKey: conflict, pending, or the replay of what is stored.
ClaimTaken(q) ==
  LET k == KeyOf[q] IN
  /\ rpc[q] = "arrived" /\ state[k] # "absent"
  /\ \/ rowHash[k] # HashOf[q] /\ Answer(q, NoAnswer("conflict"))
     \/ rowHash[k] = HashOf[q] /\ state[k] = "pending" /\ Answer(q, NoAnswer("pending"))
     \/ rowHash[k] = HashOf[q] /\ state[k] = "completed" /\ Answer(q, response[k])
  /\ UNCHANGED << rows, answer, effects, crashes >>

\* The handler returns or throws; a handler that throws may have changed
\* something before.
Handle(q) ==
  /\ rpc[q] = "handling"
  /\ \/ answer' = [answer EXCEPT ![q] = "ok"] /\ effects' = effects \cup {q}
     \/ answer' = [answer EXCEPT ![q] = "error"] /\ effects' \in {effects, effects \cup {q}}
  /\ Goto(q, "handled")
  /\ UNCHANGED << rows, reply, crashes >>

\* completeIdempotencyKey: the update must find its own pending row.
Complete(q) ==
  LET k == KeyOf[q] IN
  /\ rpc[q] = "handled"
  /\ state[k] = "pending" /\ rowHash[k] = HashOf[q]
  /\ state' = [state EXCEPT ![k] = "completed"]
  /\ response' = [response EXCEPT ![k] = AnswerOf(q, answer[q])]
  /\ Goto(q, "completed")
  /\ UNCHANGED << rowHash, answer, reply, effects, crashes >>

\* Slip: the answer is sent although it could not be stored.
CompleteFails_answers(q) ==
  /\ rpc[q] = "handled"
  /\ Answer(q, AnswerOf(q, answer[q]))
  /\ UNCHANGED << rows, answer, effects, crashes >>

\* The update fails: the client gets an internal error, the key stays pending.
CompleteFails(q) ==
  /\ rpc[q] = "handled"
  /\ Answer(q, NoAnswer("failed"))
  /\ UNCHANGED << rows, answer, effects, crashes >>

Respond(q) ==
  /\ rpc[q] = "completed"
  /\ \/ Answer(q, AnswerOf(q, answer[q]))
     \/ Answer(q, NoAnswer("lost"))
  /\ UNCHANGED << rows, answer, effects, crashes >>

InDaemon == {"arrived", "handling", "handled", "completed"}

\* A crash while a handler runs comes before or after what it changes.
Crash ==
  /\ crashes < MaxCrashes
  /\ crashes' = crashes + 1
  /\ rpc' = [q \in Requests |-> IF rpc[q] \in InDaemon THEN "done" ELSE rpc[q]]
  /\ reply' = [q \in Requests |-> IF rpc[q] \in InDaemon THEN NoAnswer("lost") ELSE reply[q]]
  /\ \E late \in SUBSET {q \in Requests : rpc[q] = "handling"} : effects' = effects \cup late
  /\ UNCHANGED << rows, answer >>

Next ==
  \/ \E q \in Requests :
       \/ Send(q) \/ ClaimNew(q) \/ ClaimTaken(q) \/ Handle(q)
       \/ Complete(q) \/ CompleteFails(q) \/ Respond(q)
  \/ Crash

Spec == Init /\ [][Next]_vars

-----------------------------------------------------------------------------

\* However often and however concurrently requests with one key arrive,
\* whatever fails or crashes: at most one of them takes effect.
AtMostOnce ==
  \A q, r \in effects : KeyOf[q] = KeyOf[r] => q = r

Final(q) == reply[q].kind = "answer"

\* Clients that get an answer for the same key get the same answer, to the
\* request they made: one that asked for something else never gets it.
SameAnswer ==
  \A q, r \in Requests : Final(q) /\ Final(r) /\ KeyOf[q] = KeyOf[r] =>
    reply[q] = reply[r] /\ HashOf[q] = HashOf[r]

\* An answer that says so is true: the effect took place, in the exchange that
\* is named, and the table says the same.
AnswerIsTrue ==
  \A q \in Requests : Final(q) =>
    /\ reply[q].result = "ok" => reply[q].by \in effects
    /\ response[KeyOf[q]] = reply[q]
=============================================================================
