---------------------------- MODULE MCGoIngest ----------------------------
(* A small instance of GoIngest for TLC. *)
EXTENDS GoIngest, TLC

CONSTANTS d1, m1, m2

(* A telemetry with two alerts, and one next to every threshold with none. *)
MCPayload ==
  m1 :> [dev |-> d1, seq |-> 8, interval |-> 20, tenths |-> 0, batt |-> 19, rssi |-> -86] @@
  m2 :> [dev |-> d1, seq |-> 7, interval |-> 0, tenths |-> 349, batt |-> 20, rssi |-> -85]
=============================================================================
