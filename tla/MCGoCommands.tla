--------------------------- MODULE MCGoCommands ---------------------------
(* Small instances of GoCommands for TLC. *)
EXTENDS GoCommands, TLC

CONSTANTS c1, c2, d1, d2, h1, h2

(* Two interval settings for d1, of which one is below a second; d2 gets   *)
(* no command and must see none. *)
MCRequest ==
  c1 :> [dev |-> d1, action |-> "CONFIG_UPDATE", tenths |-> 5] @@
  c2 :> [dev |-> d1, action |-> "CONFIG_UPDATE", tenths |-> 305]

(* One level on each side of the low-battery threshold. *)
MCBatteries == {19, 20}

(* The handlers are interchangeable goroutines. *)
Symmetry == Permutations({h1, h2})
=============================================================================
