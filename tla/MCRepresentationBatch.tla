----------------------- MODULE MCRepresentationBatch -----------------------
(* A peer and one companion, who may join and leave as an observer between  *)
(* messages.  Three small messages fit in a batch, or one large one alone.   *)
EXTENDS RepresentationBatch

CONSTANTS alice, bob, plain, custom
=============================================================================
