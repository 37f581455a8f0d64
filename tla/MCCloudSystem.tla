--------------------------- MODULE MCCloudSystem ---------------------------
(* Small instances of CloudSystem for TLC. *)
EXTENDS CloudSystem, TLC

CONSTANTS c1, c2, d1, w1, w2

MCTarget == [c \in {c1, c2} |-> d1]

(* A valid interval, and one the device refuses. *)
MCSettings == c1 :> 30 @@ c2 :> 100000

(* A valid interval, and a command without one. *)
MCMixed == c1 :> 30 @@ c2 :> NoSetting

(* The PHP processes are interchangeable. *)
Symmetry == Permutations({w1, w2})
=============================================================================
