---------------------------- MODULE MCRunControl ----------------------------
(***************************************************************************)
(* RunControl with room for one chunk of the agent's output and for none of *)
(* the verification's.                                                      *)
(***************************************************************************)
EXTENDS RunControl

MCMaxBytes == [h \in Handles |-> IF h = Agent THEN 1 ELSE 0]
=============================================================================
