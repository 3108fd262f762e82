------------------------- MODULE MCDreamScheduler -------------------------
(* Two savers of one deriver process race for the timer of one collection,  *)
(* in which every new document makes a dream due, and a request to the API  *)
(* enqueues the same dream from another process.                            *)
EXTENDS DreamScheduler

CONSTANTS p1, s1, s2, c1, dream

MCHomeOf   == [s \in Saver |-> p1]
MCTargetOf == [c \in Caller |-> dream]
=============================================================================
