--------------------------- MODULE CommandLedger ---------------------------
(***************************************************************************)
(* What remote control promises an operator, with no server in it: a       *)
(* command waits, is handed to its device once, is executed at most once,  *)
(* and is confirmed only after it was executed.  A command that was handed *)
(* over may be lost on its way: the promise is "at most once".             *)
(***************************************************************************)
EXTENDS Naturals

CONSTANT Commands

VARIABLES
  phase, \* where each command stands
  runs   \* how many times the device has executed it

ledgerVars == <<phase, runs>>

Phases == {"none", "waiting", "handed", "confirmed"}

Init ==
  /\ phase = [c \in Commands |-> "none"]
  /\ runs = [c \in Commands |-> 0]

Move(S, from, to) ==
  /\ \A c \in S : phase[c] = from
  /\ phase' = [c \in Commands |-> IF c \in S THEN to ELSE phase[c]]

(* The operator's request is on record. *)
Issue(c) == Move({c}, "none", "waiting") /\ UNCHANGED runs

(* Commands are taken off the record for their devices. *)
HandOver(S) == Move(S, "waiting", "handed") /\ UNCHANGED runs

(* The device executes it, for the first and only time. *)
Execute(c) ==
  /\ phase[c] = "handed"
  /\ runs[c] = 0
  /\ runs' = [runs EXCEPT ![c] = 1]
  /\ UNCHANGED phase

(* The confirmation of an executed command is on record, for good. *)
Confirm(c) ==
  /\ runs[c] = 1
  /\ Move({c}, "handed", "confirmed")
  /\ UNCHANGED runs

Next ==
  \/ \E S \in SUBSET Commands : HandOver(S)
  \/ \E c \in Commands : Issue(c) \/ Execute(c) \/ Confirm(c)

Spec == Init /\ [][Next]_ledgerVars
=============================================================================
