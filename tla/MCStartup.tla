----------------------------- MODULE MCStartup -----------------------------
(* A process of a newer version and two of an older one.                    *)
EXTENDS Startup, TLC

CONSTANTS p1, p2, p3

MCKnown == [p \in Procs |-> IF p = p1 THEN 2 ELSE 1]

Symmetry == Permutations({p2, p3})
=============================================================================
