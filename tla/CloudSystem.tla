---------------------------- MODULE CloudSystem ----------------------------
(***************************************************************************)
(* The PHP server with its ESP32 devices, edge/platform/esp32/main.cpp.  A *)
(* device wakes up, posts one telemetry, obeys the answer, acknowledges    *)
(* one command and goes to deep sleep, from which it starts as after a     *)
(* reset: only the RTC memory (boot count, sleep interval) is kept.        *)
(***************************************************************************)
EXTENDS CloudApi

CONSTANTS
  NoWorker,       \* the worker of a request that never arrived
  NoCommand,
  DefaultInterval,\* AppConst::DEEP_SLEEP_DURATION_SEC
  MaxInterval,    \* the longest interval a device accepts
  MaxOverlaps,    \* bound: client timeouts while the request is served
  MaxPowerCycles  \* bound: losses of the RTC memory

ASSUME SystemAssumption ==
  /\ NoWorker \notin Workers
  /\ NoCommand \notin Commands
  /\ DefaultInterval \in 1 .. MaxInterval
  /\ MaxInterval \in Nat
  /\ MaxOverlaps \in Nat
  /\ MaxPowerCycles \in Nat

VARIABLES
  esp,      \* the devices
  taken,    \* how often a device took c as the first command of an answer and
            \* acknowledged it, 2 meaning "again"
  acks,     \* acknowledgements on their way to the server
  overlaps,
  cycles

vars == <<apiVars, esp, taken, acks, overlaps, cycles>>

(* interval and boots are s_sleep_interval_sec and s_boot_count; buffered  *)
(* tells whether the telemetry of this boot is in the PSRAM buffer, which  *)
(* holds nothing else: every boot allocates it anew.                       *)
EspSteps == {"asleep", "awake", "waiting", "acking", "done"}

OffEsp == [pc |-> "asleep", at |-> NoWorker, interval |-> DefaultInterval, boots |-> 0,
           ack |-> NoCommand, buffered |-> FALSE]

SystemInit ==
  /\ Init
  /\ esp = [d \in Devices |-> OffEsp]
  /\ taken = [c \in Commands |-> 0]
  /\ acks = {}
  /\ overlaps = 0
  /\ cycles = 0

-----------------------------------------------------------------------------
(* One turn of setup().                                                    *)

(* The timer or the button; boot_count goes up, init_psram_buffer empties  *)
(* the buffer.                                                             *)
Wake(d) ==
  /\ esp[d].pc = "asleep"
  /\ esp' = [esp EXCEPT ![d].pc = "awake", ![d].buffered = FALSE,
                        ![d].boots = IF @ < MaxSeq THEN @ + 1 ELSE @]
  /\ UNCHANGED <<apiVars, taken, acks, overlaps, cycles>>

(* No Wi-Fi within WIFI_TIMEOUT_MS: psram_buffer_push.                     *)
Offline(d) ==
  /\ esp[d].pc = "awake"
  /\ esp' = [esp EXCEPT ![d].pc = "done", ![d].buffered = TRUE]
  /\ UNCHANGED <<apiVars, taken, acks, overlaps, cycles>>

(* https.begin is false: the telemetry is neither sent nor buffered.       *)
BeginFails(d) ==
  /\ esp[d].pc = "awake"
  /\ esp' = [esp EXCEPT ![d].pc = "done"]
  /\ UNCHANGED <<apiVars, taken, acks, overlaps, cycles>>

Post(d) ==
  /\ esp[d].pc = "awake"
  /\ \E w \in Workers :
       /\ Receive(w, d, esp[d].boots, esp[d].interval)
       /\ esp' = [esp EXCEPT ![d].pc = "waiting", ![d].at = w]
  /\ UNCHANGED <<taken, acks, overlaps, cycles>>

PostLost(d) ==
  /\ esp[d].pc = "awake"
  /\ esp' = [esp EXCEPT ![d].pc = "waiting"]
  /\ UNCHANGED <<apiVars, taken, acks, overlaps, cycles>>

(* Mutant: an interval is obeyed whatever its value.                       *)
DeliverAny(w) ==
  LET d == req[w].dev IN
  /\ req[w].pc = "reply"
  /\ Respond(w)
  /\ esp[d].pc = "waiting" /\ esp[d].at = w
  /\ esp' = [esp EXCEPT ![d].pc = "done", ![d].at = NoWorker, ![d].interval = req[w].sleep]
  /\ UNCHANGED <<taken, acks, overlaps, cycles>>

(* process_server_response: the first sleep_interval_sec of the answer is  *)
(* obeyed if it is in range, the first command_id is acknowledged, the     *)
(* other commands are not looked at.                                       *)
Deliver(w) ==
  LET d == req[w].dev
      picked == req[w].picked
      told == IF req[w].sleep \in 1 .. MaxInterval THEN req[w].sleep ELSE esp[d].interval
      heard == [esp[d] EXCEPT !.at = NoWorker, !.interval = told]
  IN
  /\ req[w].pc = "reply"
  /\ Respond(w)
  /\ esp[d].pc = "waiting" /\ esp[d].at = w
  /\ \/ /\ picked = <<>>
        /\ esp' = [esp EXCEPT ![d] = [heard EXCEPT !.pc = "done"]]
        /\ UNCHANGED taken
     \/ /\ picked # <<>>
        /\ esp' = [esp EXCEPT ![d] = [heard EXCEPT !.pc = "acking", !.ack = Head(picked)]]
        /\ taken' = [taken EXCEPT ![Head(picked)] = IF @ < 2 THEN @ + 1 ELSE @]
  /\ UNCHANGED <<acks, overlaps, cycles>>

(* Any status code counts as a success: nothing is buffered.               *)
DeliverError(w) ==
  LET d == req[w].dev IN
  /\ req[w].pc = "error"
  /\ Respond(w)
  /\ esp[d].pc = "waiting" /\ esp[d].at = w
  /\ esp' = [esp EXCEPT ![d].pc = "done", ![d].at = NoWorker]
  /\ UNCHANGED <<taken, acks, overlaps, cycles>>

(* The answer is lost, or nobody waits for it any more.                    *)
LoseAnswer(w) ==
  /\ Respond(w)
  /\ esp' = [d \in Devices |-> IF esp[d].at = w THEN [esp[d] EXCEPT !.at = NoWorker] ELSE esp[d]]
  /\ UNCHANGED <<taken, acks, overlaps, cycles>>

WorkerKilled(w) ==
  /\ Killed(w)
  /\ esp' = [d \in Devices |-> IF esp[d].at = w THEN [esp[d] EXCEPT !.at = NoWorker] ELSE esp[d]]
  /\ UNCHANGED <<taken, acks, overlaps, cycles>>

(* HTTPClient gives up: httpCode < 0, psram_buffer_push.                   *)
Timeout(d) ==
  /\ esp[d].pc = "waiting"
  /\ IF esp[d].at = NoWorker THEN UNCHANGED overlaps
                             ELSE overlaps < MaxOverlaps /\ overlaps' = overlaps + 1
  /\ esp' = [esp EXCEPT ![d].pc = "done", ![d].at = NoWorker, ![d].buffered = TRUE]
  /\ UNCHANGED <<apiVars, taken, acks, cycles>>

(* The result of the acknowledgement is not looked at.                     *)
SendAck(d) ==
  /\ esp[d].pc = "acking"
  /\ \/ acks' = acks \cup {esp[d].ack}
     \/ UNCHANGED acks
  /\ esp' = [esp EXCEPT ![d].pc = "done", ![d].ack = NoCommand]
  /\ UNCHANGED <<apiVars, taken, overlaps, cycles>>

(* enter_power_saving_sleep: the PSRAM loses its contents.                 *)
DeepSleep(d) ==
  /\ esp[d].pc = "done"
  /\ esp' = [esp EXCEPT ![d].pc = "asleep", ![d].buffered = FALSE]
  /\ UNCHANGED <<apiVars, taken, acks, overlaps, cycles>>

(* The power goes and comes back: the RTC memory is initialised again.     *)
PowerCycle(d) ==
  /\ cycles < MaxPowerCycles
  /\ cycles' = cycles + 1
  /\ esp' = [esp EXCEPT ![d] = OffEsp]
  /\ UNCHANGED <<apiVars, taken, acks, overlaps>>

-----------------------------------------------------------------------------

ServeAck(c) ==
  /\ c \in acks
  /\ Ack(c)
  /\ acks' = acks \ {c}
  /\ UNCHANGED <<esp, taken, overlaps, cycles>>

LoseAck(c) ==
  /\ c \in acks
  /\ acks' = acks \ {c}
  /\ UNCHANGED <<apiVars, esp, taken, overlaps, cycles>>

ServerStep(A) == A /\ UNCHANGED <<esp, taken, acks, overlaps, cycles>>

Device(d) ==
  \/ Wake(d) \/ Offline(d) \/ BeginFails(d) \/ Post(d) \/ PostLost(d)
  \/ Timeout(d) \/ SendAck(d) \/ DeepSleep(d) \/ PowerCycle(d)

SystemNext ==
  \/ \E d \in Devices : Device(d)
  \/ \E w \in Workers : \/ Deliver(w) \/ DeliverError(w) \/ LoseAnswer(w) \/ WorkerKilled(w)
                        \/ ServerStep(Work(w)) \/ ServerStep(Throw(w))
  \/ \E c \in Commands : \/ ServeAck(c) \/ LoseAck(c)
                         \/ ServerStep(QueueCommand(c)) \/ ServerStep(QueueThrows(c))
  \/ \E D \in {{d} : d \in Devices} \cup {Devices} : ServerStep(ClearTelemetry(D))

SystemSpec == SystemInit /\ [][SystemNext]_vars

(* PHP processes run, devices wake up for ever, and of the requests and    *)
(* answers sent again and again some get through.                          *)
Fairness ==
  /\ \A w \in Workers : /\ WF_vars(ServerStep(Work(w)))
                        /\ WF_vars(LoseAnswer(w) \/ Deliver(w) \/ DeliverError(w))
                        /\ SF_vars(Deliver(w))
  /\ \A d \in Devices : /\ WF_vars(Wake(d)) /\ WF_vars(Offline(d) \/ Post(d))
                        /\ SF_vars(Post(d))
                        /\ WF_vars(Timeout(d)) /\ WF_vars(SendAck(d)) /\ WF_vars(DeepSleep(d))

FairSystemSpec == SystemSpec /\ Fairness

-----------------------------------------------------------------------------
(* Properties.                                                             *)

(* Every variable of the devices has its type; a device never sleeps for   *)
(* zero seconds or for longer than MaxInterval, whatever it is answered.   *)
SystemTypeOK ==
  /\ TypeOK
  /\ esp \in [Devices -> [pc: EspSteps, at: Workers \cup {NoWorker}, interval: 1 .. MaxInterval,
                          boots: 0 .. MaxSeq, ack: Commands \cup {NoCommand}, buffered: BOOLEAN]]
  /\ taken \in [Commands -> 0 .. 2]
  /\ acks \subseteq Commands
  /\ overlaps \in 0 .. MaxOverlaps
  /\ cycles \in 0 .. MaxPowerCycles

Phase(c) ==
  CASE status[c] = "PENDING" -> "waiting"
    [] status[c] = "DELIVERED" -> "handed"
    [] status[c] = "ACKED" -> "confirmed"
    [] OTHER -> "none"

Ledger == INSTANCE CommandLedger
            WITH phase <- [c \in Commands |-> Phase(c)], runs <- taken

(* api.php and the device together keep the promise of CommandLedger: a    *)
(* command goes PENDING, DELIVERED, ACKED and never back, is taken by the  *)
(* device at most once and ACKED only after that.  This holds although     *)
(* requests of the same device overlap, because each UPDATE asks for the   *)
(* status it replaces and a device reads only the answer it waits for.     *)
ImplementsLedger == Ledger!Spec

(* The interval of the devices table and that of the device agree in the   *)
(* end: a device whose answer with the CONFIG_UPDATE was lost, or whose    *)
(* RTC memory was, is told again by every later answer.  (An interval out  *)
(* of range stays in the table and is obeyed by nobody.)                   *)
IntervalConverges ==
  \A d \in Devices :
    <>[](row[d].known /\ row[d].interval \in 1 .. MaxInterval =>
           esp[d].interval = row[d].interval)

(* A queued command does not wait for ever: a device that keeps posting    *)
(* takes it off the table (the answer may be lost; it is not repeated).    *)
PendingIsTaken == \A c \in Commands : status[c] = "PENDING" ~> status[c] # "PENDING"

(* api.php, the comment on the UPDATE: "commands updated as delivered".  A *)
(* command becomes DELIVERED only when a request has it in its answer.     *)
DeliveredWasAnswered ==
  [][\A c \in Commands :
       status[c] = "PENDING" /\ status'[c] = "DELIVERED" =>
         \E w \in Workers, i \in 1 .. Cardinality(Commands) :
           i <= Len(req[w].picked) /\ req[w].picked[i] = c]_vars

(* docs/edge_user_guide_esp32: the ring buffer loses no data while the     *)
(* network is away.  A telemetry leaves the buffer only when the server    *)
(* has it.                                                                 *)
BufferedIsKept ==
  [][\A d \in Devices :
       esp[d].buffered /\ ~ esp'[d].buffered => esp[d].boots \in telemetry[d]]_vars
=============================================================================
