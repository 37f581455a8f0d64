------------------------- MODULE MCTelemetryBuffer -------------------------
(* A small instance of TelemetryBuffer for TLC. *)
EXTENDS TelemetryBuffer, TLC

CONSTANTS s1, s2, t1, t2, t3

(* t3 is too long for its storage; its beginning is t1. *)
MCCut == t1 :> t1 @@ t2 :> t2 @@ t3 :> t1
=============================================================================
