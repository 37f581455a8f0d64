---------------------------- MODULE MCGoSystem ----------------------------
(* Small instances of GoSystem for TLC. *)
EXTENDS GoSystem, TLC

CONSTANTS c1, c2, d1

(* Two interval settings for the one device. *)
MCSettings ==
  c1 :> [dev |-> d1, action |-> "CONFIG_UPDATE", tenths |-> 100] @@
  c2 :> [dev |-> d1, action |-> "CONFIG_UPDATE", tenths |-> 300]

MCBatteries == {19, 20}
=============================================================================
