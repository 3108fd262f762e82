------------------------- MODULE MCQueueDeletions -------------------------
(* Two deriver processes with one worker each serve the representation unit  *)
(* of a session (or workspace) that may be deleted while they do.  Row 1     *)
(* alone stays below the token threshold; rows 2 and 3 alone reach it.       *)
EXTENDS WorkQueue, TLC

CONSTANTS p1, p2, rep

MCWorkUnitOf == [i \in Item |-> rep]
MCKind       == rep :> "representation"
MCTokens     == [i \in Item |-> IF i = 1 THEN 1 ELSE 2]
MCScopes     == {[units |-> {rep}, rows |-> Item]}
=============================================================================
