---------------------------- MODULE MCWorkQueue ----------------------------
(* Two deriver processes with one worker each serve a representation unit   *)
(* with two rows and the webhook unit that queue.empty events are put in.   *)
(* Row 1 alone stays below the token threshold; row 2 alone reaches it.     *)
EXTENDS WorkQueue, TLC

CONSTANTS p1, p2, rep, hook

MCWorkUnitOf == 1 :> rep @@ 2 :> rep @@ 3 :> hook
MCKind       == rep :> "representation" @@ hook :> "webhook"
MCTokens     == 1 :> 1 @@ 2 :> 2 @@ 3 :> 0

=============================================================================
