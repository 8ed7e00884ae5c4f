------------------------- MODULE IdempotencyProofs -------------------------
(***************************************************************************)
(* At most one effect per key and one answer per key, for any number of     *)
(* requests, keys and fingerprints, whatever fails or crashes.              *)
(***************************************************************************)
EXTENDS Idempotency, TLAPS

\* q is the exchange that claimed its key, as far as its effects or its
\* progress show.
Claimed(q) == q \in effects \/ rpc[q] \in {"handling", "handled", "completed"}

\* An open handler has its key's row for itself.
OpenRow ==
  \A q \in Requests : rpc[q] \in {"handling", "handled"} =>
    state[KeyOf[q]] = "pending" /\ rowHash[KeyOf[q]] = HashOf[q]

\* A key is claimed once.
ClaimedOnce ==
  /\ \A q \in Requests : Claimed(q) => state[KeyOf[q]] # "absent"
  /\ \A q, r \in Requests : Claimed(q) /\ Claimed(r) /\ KeyOf[q] = KeyOf[r] => q = r

\* What is stored is what happened.
StoredIsTrue ==
  /\ \A q \in Requests : rpc[q] = "handled" /\ answer[q] = "ok" => q \in effects
  /\ \A k \in Keys : state[k] = "completed" =>
       /\ response[k].kind = "answer"
       /\ response[k].result = "ok" => response[k].by \in effects

\* What is answered is what is stored.
AnsweredIsStored ==
  /\ \A q \in Requests : rpc[q] = "completed" =>
       /\ state[KeyOf[q]] = "completed"
       /\ rowHash[KeyOf[q]] = HashOf[q]
       /\ response[KeyOf[q]] = AnswerOf(q, answer[q])
  /\ \A q \in Requests : Final(q) =>
       /\ state[KeyOf[q]] = "completed"
       /\ rowHash[KeyOf[q]] = HashOf[q]
       /\ response[KeyOf[q]] = reply[q]

\* The inductive invariant.
IdInv == OpenRow /\ ClaimedOnce /\ StoredIsTrue /\ AnsweredIsStored

LEMMA ReplyType ==
  /\ \A kind \in {"none", "conflict", "pending", "failed", "lost"} : NoAnswer(kind) \in Reply
  /\ \A q \in Requests, result \in {"none", "ok", "error"} : AnswerOf(q, result) \in Reply
BY DEF Reply, NoAnswer, AnswerOf

LEMMA ReplyFields ==
  /\ \A kind : NoAnswer(kind).kind = kind
  /\ \A q, result : /\ AnswerOf(q, result).kind = "answer"
                    /\ AnswerOf(q, result).by = q
                    /\ AnswerOf(q, result).result = result
BY DEF NoAnswer, AnswerOf

LEMMA TypeStep == TypeOK /\ [Next]_vars => TypeOK'
<1> SUFFICES ASSUME TypeOK, [Next]_vars PROVE TypeOK'
  OBVIOUS
<1> USE RequestAssumption, ReplyType DEF TypeOK, Pc, Goto, Answer, rows
<1>1. ASSUME NEW q \in Requests, Send(q) \/ ClaimNew(q) PROVE TypeOK'
  BY <1>1 DEF Send, ClaimNew
<1>2. ASSUME NEW q \in Requests, ClaimTaken(q) PROVE TypeOK'
  BY <1>2 DEF ClaimTaken
<1>3. ASSUME NEW q \in Requests, Handle(q) PROVE TypeOK'
  BY <1>3 DEF Handle
<1>4. ASSUME NEW q \in Requests, Complete(q) PROVE TypeOK'
  BY <1>4 DEF Complete
<1>5. ASSUME NEW q \in Requests, CompleteFails(q) \/ Respond(q) PROVE TypeOK'
  BY <1>5 DEF CompleteFails, Respond
<1>6. CASE Crash
  BY <1>6 DEF Crash
<1>7. CASE UNCHANGED vars
  BY <1>7 DEF vars
<1>8. QED
  BY <1>1, <1>2, <1>3, <1>4, <1>5, <1>6, <1>7 DEF Next

LEMMA IdInvStep == TypeOK /\ IdInv /\ [Next]_vars => IdInv'
<1> SUFFICES ASSUME TypeOK, IdInv, [Next]_vars PROVE IdInv'
  OBVIOUS
<1> USE RequestAssumption DEF TypeOK, Goto, Answer, rows
<1>1. OpenRow /\ ClaimedOnce /\ StoredIsTrue /\ AnsweredIsStored
  BY DEF IdInv
<1>2. ASSUME NEW q \in Requests, Send(q) PROVE IdInv'
  <2>1. OpenRow'
    BY <1>1, <1>2 DEF Send, OpenRow, ClaimedOnce, Claimed
  <2>2. ClaimedOnce'
    BY <1>1, <1>2 DEF Send, ClaimedOnce, Claimed
  <2>3. StoredIsTrue'
    BY <1>1, <1>2 DEF Send, StoredIsTrue
  <2>4. AnsweredIsStored'
    BY <1>1, <1>2, ReplyFields DEF Send, AnsweredIsStored, OpenRow, Final
  <2>5. QED
    BY <2>1, <2>2, <2>3, <2>4 DEF IdInv
<1>3. ASSUME NEW q \in Requests, ClaimNew(q) PROVE IdInv'
  <2>1. OpenRow'
    BY <1>1, <1>3 DEF ClaimNew, OpenRow, ClaimedOnce, Claimed
  <2>2. ClaimedOnce'
    BY <1>1, <1>3 DEF ClaimNew, ClaimedOnce, Claimed
  <2>3. StoredIsTrue'
    BY <1>1, <1>3 DEF ClaimNew, StoredIsTrue
  <2>4. AnsweredIsStored'
    BY <1>1, <1>3, ReplyFields DEF ClaimNew, AnsweredIsStored, OpenRow, Final
  <2>5. QED
    BY <2>1, <2>2, <2>3, <2>4 DEF IdInv
<1>4. ASSUME NEW q \in Requests, ClaimTaken(q) PROVE IdInv'
  <2>1. OpenRow'
    BY <1>1, <1>4 DEF ClaimTaken, OpenRow, ClaimedOnce, Claimed
  <2>2. ClaimedOnce'
    BY <1>1, <1>4 DEF ClaimTaken, ClaimedOnce, Claimed
  <2>3. StoredIsTrue'
    BY <1>1, <1>4 DEF ClaimTaken, StoredIsTrue
  <2>4. AnsweredIsStored'
    BY <1>1, <1>4, ReplyFields DEF ClaimTaken, AnsweredIsStored, OpenRow, Final
  <2>5. QED
    BY <2>1, <2>2, <2>3, <2>4 DEF IdInv
<1>5. ASSUME NEW q \in Requests, Handle(q) PROVE IdInv'
  <2>1. OpenRow'
    BY <1>1, <1>5 DEF Handle, OpenRow, ClaimedOnce, Claimed
  <2>2. ClaimedOnce'
    BY <1>1, <1>5 DEF Handle, ClaimedOnce, Claimed
  <2>3. StoredIsTrue'
    BY <1>1, <1>5 DEF Handle, StoredIsTrue
  <2>4. AnsweredIsStored'
    BY <1>1, <1>5, ReplyFields DEF Handle, AnsweredIsStored, OpenRow, Final
  <2>5. QED
    BY <2>1, <2>2, <2>3, <2>4 DEF IdInv
<1>6. ASSUME NEW q \in Requests, Complete(q) PROVE IdInv'
  <2>1. OpenRow'
    BY <1>1, <1>6 DEF Complete, OpenRow, ClaimedOnce, Claimed
  <2>2. ClaimedOnce'
    BY <1>1, <1>6 DEF Complete, ClaimedOnce, Claimed
  <2>3. StoredIsTrue'
    BY <1>1, <1>6, ReplyFields DEF Complete, StoredIsTrue
  <2>4. AnsweredIsStored'
    BY <1>1, <1>6, ReplyFields DEF Complete, AnsweredIsStored, OpenRow, Final
  <2>5. QED
    BY <2>1, <2>2, <2>3, <2>4 DEF IdInv
<1>7. ASSUME NEW q \in Requests, CompleteFails(q) PROVE IdInv'
  <2>1. OpenRow'
    BY <1>1, <1>7 DEF CompleteFails, OpenRow, ClaimedOnce, Claimed
  <2>2. ClaimedOnce'
    BY <1>1, <1>7 DEF CompleteFails, ClaimedOnce, Claimed
  <2>3. StoredIsTrue'
    BY <1>1, <1>7 DEF CompleteFails, StoredIsTrue
  <2>4. AnsweredIsStored'
    BY <1>1, <1>7, ReplyFields DEF CompleteFails, AnsweredIsStored, OpenRow, Final
  <2>5. QED
    BY <2>1, <2>2, <2>3, <2>4 DEF IdInv
<1>8. ASSUME NEW q \in Requests, Respond(q) PROVE IdInv'
  <2>1. OpenRow'
    BY <1>1, <1>8 DEF Respond, OpenRow, ClaimedOnce, Claimed
  <2>2. ClaimedOnce'
    BY <1>1, <1>8 DEF Respond, ClaimedOnce, Claimed
  <2>3. StoredIsTrue'
    BY <1>1, <1>8 DEF Respond, StoredIsTrue
  <2>4. AnsweredIsStored'
    BY <1>1, <1>8, ReplyFields DEF Respond, AnsweredIsStored, OpenRow, Final
  <2>5. QED
    BY <2>1, <2>2, <2>3, <2>4 DEF IdInv
<1>9. CASE Crash
  <2>1. OpenRow'
    BY <1>1, <1>9 DEF Crash, InDaemon, OpenRow, ClaimedOnce, Claimed
  <2>2. ClaimedOnce'
    BY <1>1, <1>9 DEF Crash, InDaemon, ClaimedOnce, Claimed
  <2>3. StoredIsTrue'
    BY <1>1, <1>9 DEF Crash, InDaemon, StoredIsTrue
  <2>4. AnsweredIsStored'
    BY <1>1, <1>9, ReplyFields DEF Crash, InDaemon, AnsweredIsStored, OpenRow, Final
  <2>5. QED
    BY <2>1, <2>2, <2>3, <2>4 DEF IdInv
<1>10. CASE UNCHANGED vars
  BY <1>1, <1>10 DEF vars, IdInv, OpenRow, ClaimedOnce, Claimed, StoredIsTrue, AnsweredIsStored, Final
<1>11. QED
  BY <1>2, <1>3, <1>4, <1>5, <1>6, <1>7, <1>8, <1>9, <1>10 DEF Next

\* The invariant holds of runIdempotentMutation under any clients.
THEOREM KeysAreClaimedOnce == Spec => [](TypeOK /\ IdInv)
<1>1. Init => TypeOK
  BY ReplyType DEF Init, TypeOK, Pc
<1>2. Init => IdInv
  BY ReplyFields DEF Init, IdInv, OpenRow, ClaimedOnce, StoredIsTrue, AnsweredIsStored, Claimed, Final
<1>3. QED
  BY <1>1, <1>2, TypeStep, IdInvStep, PTL DEF Spec

\* A mutation takes effect at most once per Idempotency-Key.
THEOREM EffectsAtMostOnce == Spec => []AtMostOnce
<1>1. TypeOK /\ IdInv => AtMostOnce
  BY DEF TypeOK, IdInv, ClaimedOnce, AtMostOnce, Claimed
<1>2. QED
  BY <1>1, KeysAreClaimedOnce, PTL

\* All clients of a key that get an answer get the same one, for the same request.
THEOREM AnswersAgree == Spec => []SameAnswer
<1>1. TypeOK /\ IdInv => SameAnswer
  BY DEF IdInv, AnsweredIsStored, SameAnswer
<1>2. QED
  BY <1>1, KeysAreClaimedOnce, PTL

\* An answer "ok" is never sent, or replayed, without its effect.
THEOREM AnswersAreTrue == Spec => []AnswerIsTrue
<1>1. TypeOK /\ IdInv => AnswerIsTrue
  BY RequestAssumption DEF IdInv, StoredIsTrue, AnsweredIsStored, AnswerIsTrue
<1>2. QED
  BY <1>1, KeysAreClaimedOnce, PTL
=============================================================================
