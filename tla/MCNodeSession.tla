--------------------------- MODULE MCNodeSession ---------------------------
(***************************************************************************)
(* NodeSession with offers that are model values.                           *)
(***************************************************************************)
EXTENDS NodeSession, TLC

CONSTANTS o1, o2

\* A node that starts again: its journal holds the completion that it emitted
\* last for an earlier offer, of which the controller has nothing yet.
LaterInit ==
  /\ nodeCursor = 1 /\ journal = {1} /\ protected = {1}
  /\ ackedCursor = 0 /\ truncated = {}
  /\ npc = "idle" /\ dropped = {} /\ torn = {}
  /\ conn = "none" /\ batches = {} /\ summary = {} /\ acks = {}
  /\ ingested = {} /\ known = {} /\ crashes = 0
  /\ stored = [o \in Offers |-> "none"] /\ cached = stored
  /\ opc = "none" /\ handling = NoOffer
  /\ pending = << >> /\ lease = NoOffer /\ epc = "none" /\ took = NoOffer
  /\ queue = << >> /\ created = [o \in Offers |-> 0]
  /\ inbox = {} /\ told = [o \in Offers |-> {}] /\ proposed = {}

LaterSpec == LaterInit /\ [][Next]_vars

Symmetry == Permutations(Offers)
=============================================================================
