--------------------------- MODULE MCIdempotency ---------------------------
(* A request, two retries of it, and one that reuses its key by mistake.    *)
EXTENDS Idempotency

MCKeyOf == [q \in Requests |-> "key"]
MCHashOf == [q \in Requests |-> IF q = 4 THEN "other" ELSE "hash"]
=============================================================================
