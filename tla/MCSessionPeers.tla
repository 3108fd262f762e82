--------------------------- MODULE MCSessionPeers ---------------------------
(* The members of a session for TLC. *)
EXTENDS SessionPeers, TLC

CONSTANTS a, b
=============================================================================
