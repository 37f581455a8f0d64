----------------------------- MODULE GoSystem -----------------------------
(***************************************************************************)
(* The Go server with the devices of tools/simulator: a device posts a     *)
(* telemetry, waits for the answer, downloads the firmware it announces,   *)
(* executes every command of it and acknowledges each.  Requests, answers  *)
(* and downloads get lost, the client gives up after its timeout and posts *)
(* again, the server restarts.                                             *)
(***************************************************************************)
EXTENDS GoCommands

CONSTANTS
  NoHandler,          \* the handler of a request that never arrived
  OverlappingRetries, \* TRUE: the client may time out (5 s) while the
                      \* handler of its request is still at work
  MaxRuns             \* executions of one command are counted up to here

ASSUME SystemAssumption ==
  /\ NoHandler \notin Handlers
  /\ OverlappingRetries \in BOOLEAN
  /\ MaxRuns \in Nat \ {0}

VARIABLES
  sim,      \* the devices: step, handler that serves them, commands to run
  fw,       \* FirmwareVersion of each device
  updates,  \* how many times each device has installed a firmware
  executed, \* how many times each command was executed
  acks,     \* acknowledgements on their way to the server
  told      \* the last sleep_interval_sec each device received, 0 before

simVars == <<sim, fw, updates, executed, acks, told>>
vars == <<goVars, simVars>>

SimSteps == {"ready", "waiting", "ota", "exec"}

ReadySim == [pc |-> "ready", at |-> NoHandler, inbox |-> <<>>]

FirstVersion == "1.0.0"
TargetVersion == "1.1.0" \* of availableOTA, which is set once by NewApiHandler
Versions == {FirstVersion, TargetVersion}

SystemInit ==
  /\ Init
  /\ sim = [d \in Devices |-> ReadySim]
  /\ fw = [d \in Devices |-> FirstVersion]
  /\ updates = [d \in Devices |-> 0]
  /\ executed = [c \in Commands |-> 0]
  /\ acks = {}
  /\ told = [d \in Devices |-> 0]

-----------------------------------------------------------------------------
(* The device: one turn of SimulatedDevice.Run.                            *)

(* Client.Post: the request reaches a handler.                             *)
Poll(d) ==
  /\ sim[d].pc = "ready"
  /\ \E h \in Handlers, b \in Batteries :
       /\ Receive(h, d, b)
       /\ sim' = [sim EXCEPT ![d] = [ReadySim EXCEPT !.pc = "waiting", !.at = h]]
  /\ UNCHANGED <<fw, updates, executed, acks, told>>

(* ... or is lost before it does (or the server answers 500 at once).      *)
PollLost(d) ==
  /\ sim[d].pc = "ready"
  /\ sim' = [sim EXCEPT ![d].pc = "waiting"]
  /\ UNCHANGED <<goVars, fw, updates, executed, acks, told>>

(* Both sides compare the device's version with the offered one: the       *)
(* server in the payload of the request, the device in the answer.         *)
Announced(d) == fw[d] # TargetVersion

(* The answer arrives.                                                     *)
Deliver(h) ==
  LET d == job[h].dev IN
  /\ Respond(h)
  /\ sim[d].at = h
  /\ sim' = [sim EXCEPT ![d] = [pc |-> IF Announced(d) THEN "ota" ELSE "exec",
                               at |-> NoHandler, inbox |-> job[h].picked]]
  /\ told' = [told EXCEPT ![d] = job[h].sleep]
  /\ UNCHANGED <<fw, updates, executed, acks>>

(* The answer is lost on its way, or the client has given up the request   *)
(* and nobody reads it.  A client that waits does so until its timeout.    *)
LoseAnswer(h) ==
  /\ Respond(h)
  /\ sim' = [d \in Devices |-> IF sim[d].at = h THEN [sim[d] EXCEPT !.at = NoHandler]
                                               ELSE sim[d]]
  /\ UNCHANGED <<fw, updates, executed, acks, told>>

(* http.Client.Timeout: the next attempt, or the next cycle when there     *)
(* were three, posts again.                                                *)
Timeout(d) ==
  /\ sim[d].pc = "waiting"
  /\ sim[d].at = NoHandler \/ OverlappingRetries
  /\ sim' = [sim EXCEPT ![d] = ReadySim]
  /\ UNCHANGED <<goVars, fw, updates, executed, acks, told>>

(* Mutant: the device boots the new firmware, which still names itself by  *)
(* the old version.                                                        *)
InstallUnnamed(d) ==
  /\ sim[d].pc = "ota"
  /\ updates' = [updates EXCEPT ![d] = IF @ < MaxRuns THEN @ + 1 ELSE @]
  /\ sim' = [sim EXCEPT ![d].pc = "exec"]
  /\ UNCHANGED <<goVars, fw, executed, acks, told>>

(* Mutant: a download that fails ends the loop of the device.              *)
GiveUpOta(d) ==
  /\ sim[d].pc = "ota"
  /\ sim' = [sim EXCEPT ![d].pc = "failed"]
  /\ UNCHANGED <<goVars, fw, updates, executed, acks, told>>

(* PerformOTA: the image is downloaded, its hash is the announced one, and *)
(* the device restarts with it - and goes on with the same answer.         *)
InstallOta(d) ==
  /\ sim[d].pc = "ota"
  /\ fw' = [fw EXCEPT ![d] = TargetVersion]
  /\ updates' = [updates EXCEPT ![d] = IF @ < MaxRuns THEN @ + 1 ELSE @]
  /\ sim' = [sim EXCEPT ![d].pc = "exec"]
  /\ UNCHANGED <<goVars, executed, acks, told>>

(* No answer, another status than 200, a body that breaks off or has       *)
(* another hash: the next answer announces the firmware again.             *)
OtaFails(d) ==
  /\ sim[d].pc = "ota"
  /\ sim' = [sim EXCEPT ![d].pc = "exec"]
  /\ UNCHANGED <<goVars, fw, updates, executed, acks, told>>

(* Executions are counted as far as the properties ask: the in-memory      *)
(* store repeats its commands without an end.                              *)
Counted == IF repo = "memory" THEN 1 ELSE MaxRuns

(* ExecuteCommand: run the next command and post its acknowledgement.      *)
Execute(d) ==
  /\ sim[d].pc = "exec" /\ sim[d].inbox # <<>>
  /\ LET c == Head(sim[d].inbox) IN
     /\ executed' = [executed EXCEPT ![c] = IF @ < Counted THEN @ + 1 ELSE @]
     /\ acks' = acks \cup {c}
  /\ sim' = [sim EXCEPT ![d].inbox = Tail(@)]
  /\ UNCHANGED <<goVars, fw, updates, told>>

(* The commands are done; the device sleeps and starts its next cycle.     *)
EndCycle(d) ==
  /\ sim[d].pc = "exec" /\ sim[d].inbox = <<>>
  /\ sim' = [sim EXCEPT ![d] = ReadySim]
  /\ UNCHANGED <<goVars, fw, updates, executed, acks, told>>

-----------------------------------------------------------------------------
(* The server, as its clients see it.                                      *)

ServeAck(c) ==
  /\ c \in acks
  /\ Ack(c)
  /\ acks' = acks \ {c}
  /\ UNCHANGED <<sim, fw, updates, executed, told>>

(* The POST is lost, and the simulator does not send it again.             *)
LoseAck(c) ==
  /\ c \in acks
  /\ acks' = acks \ {c}
  /\ UNCHANGED <<goVars, sim, fw, updates, executed, told>>

(* A restart breaks the connections of the requests being served.          *)
ServerRestart ==
  /\ Restart
  /\ sim' = [d \in Devices |-> [sim[d] EXCEPT !.at = NoHandler]]
  /\ UNCHANGED <<fw, updates, executed, acks, told>>

ServerWork(h) == Work(h) /\ UNCHANGED simVars

Operator(c) == Queue(c) /\ UNCHANGED simVars

SystemNext ==
  \/ \E d \in Devices : Poll(d) \/ PollLost(d) \/ Timeout(d)
                          \/ InstallOta(d) \/ OtaFails(d) \/ Execute(d) \/ EndCycle(d)
  \/ \E h \in Handlers : ServerWork(h) \/ Deliver(h) \/ LoseAnswer(h)
  \/ \E c \in Commands : Operator(c) \/ ServeAck(c) \/ LoseAck(c)
  \/ ServerRestart

SystemSpec == SystemInit /\ [][SystemNext]_vars

(* Goroutines run, the pool serves its waiters in turn, the simulator      *)
(* loops for ever.  The network is fair-lossy: of requests, answers,       *)
(* downloads and acknowledgements sent again and again, some get through.  *)
Fairness ==
  /\ \A h \in Handlers : /\ SF_vars(ServerWork(h))
                         /\ WF_vars(LoseAnswer(h) \/ Deliver(h))
                         /\ SF_vars(Deliver(h))
  /\ \A d \in Devices : /\ SF_vars(Poll(d))
                        /\ WF_vars(Timeout(d)) /\ WF_vars(Execute(d)) /\ WF_vars(EndCycle(d))
                        /\ SF_vars(InstallOta(d)) /\ WF_vars(InstallOta(d) \/ OtaFails(d))
  /\ \A c \in Commands : /\ SF_vars(ServeAck(c))
                         /\ WF_vars(QueueStamp(c) /\ UNCHANGED simVars)
                         /\ SF_vars(QueueInsert(c) /\ UNCHANGED simVars)
                         /\ WF_vars(QueueAppend(c) /\ UNCHANGED simVars)

FairSystemSpec == SystemSpec /\ Fairness

-----------------------------------------------------------------------------
(* Properties.                                                             *)

(* Every variable of the devices and the network has its type.             *)
SystemTypeOK ==
  /\ TypeOK
  /\ sim \in [Devices -> [pc: SimSteps, at: Handlers \cup {NoHandler}, inbox: Seq(Commands)]]
  /\ fw \in [Devices -> Versions]
  /\ updates \in [Devices -> 0 .. MaxRuns]
  /\ executed \in [Commands -> 0 .. MaxRuns]
  /\ acks \subseteq Commands
  /\ told \in [Devices -> Nat]

(* The phase an operator would give a command from what is recorded (the   *)
(* in-memory store records nothing of that kind).                          *)
Phase(c) ==
  IF repo = "memory" THEN "none"
  ELSE CASE status[c] = "PENDING" -> "waiting"
         [] status[c] = "SENT" -> "handed"
         [] status[c] = "ACKED" -> "confirmed"
         [] OTHER -> "none"

Ledger == INSTANCE CommandLedger
            WITH phase <- [c \in Commands |-> Phase(c)],
                 runs <- [c \in Commands |-> IF repo = "sql" THEN executed[c] ELSE 0]

(* SQLRepository keeps the promise of CommandLedger: every command goes    *)
(* PENDING, SENT, ACKED and never back, is executed at most once and       *)
(* ACKED only after that, whatever is lost or restarted - as long as no    *)
(* UPDATE fails and no client gives up a request still being served.       *)
ImplementsLedger == Ledger!Spec

(* c is the last setting for d in a sequence of commands.                  *)
LastSettingIn(seq, c, d) ==
  LET mine == {i \in 1 .. Len(seq) : Request[seq[i]].dev = d /\ HasInterval(seq[i])}
  IN \E i \in mine : seq[i] = c /\ \A k \in mine : k <= i

(* The newest setting of d by its created_at and by its row alike.  Of two *)
(* concurrent POSTs whose created_at disagree with the order of their      *)
(* INSERTs neither is: the older one may then be answered last.            *)
IsLatestSetting(c, d) == LastSettingIn(order, c, d) /\ LastSettingIn(rows, c, d)

(* The device acknowledged the newest setting, and no other is under way.  *)
Settled(c) ==
  /\ status[c] = "ACKED"
  /\ IsLatestSetting(c, Request[c].dev)
  /\ \A x \in Commands : status[x] \notin {"inserting", "stamped"}

(* HandleTelemetry, "persistent device setting": once the device has       *)
(* acknowledged the newest interval, every answer to it repeats that       *)
(* interval (or the low-battery one), although the command is gone.  (An   *)
(* interval below one second is cut to 0, which is answered as none.)      *)
SettingSurvives ==
  \A h \in Handlers, c \in Commands :
    /\ job[h].pc = "reply"
    /\ job[h].dev = Request[c].dev
    /\ Settled(c)
    /\ Seconds(c) > 0
    => job[h].sleep \in {Seconds(c), LowBatterySleep}

(* ... which SQLRepository keeps as long as the process is not restarted.  *)
(* (The in-memory store answers an older command whose acknowledgement was *)
(* lost once more, and its interval takes over again.)                     *)
SettingIsKept == repo = "sql" /\ restarts = 0 => SettingSurvives

(* A device that keeps reporting ends up with the newest interval queued   *)
(* for it, even when the answer that carried the command was lost and the  *)
(* command will never be sent again: the interval is in every answer of a  *)
(* server that is not restarted.                                           *)
SettingReachesDevice ==
  \A c \in Commands :
    <>[](repo = "sql" /\ restarts = 0 /\ IsLatestSetting(c, Request[c].dev) =>
           told[Request[c].dev] \in {Seconds(c), LowBatterySleep})

(* InMemoryRepository repeats a command until it is acknowledged: every    *)
(* accepted command is executed and leaves the list, whatever is lost -    *)
(* unless the list itself is lost with the process.                        *)
AcceptedIsConfirmed ==
  \A c \in Commands :
    repo = "memory" /\ status[c] = "PENDING"
      ~> (status[c] = "ACKED" /\ executed[c] > 0) \/ status[c] = "dropped"

(* The offer of a firmware: a device that keeps reporting installs it in   *)
(* the end, however often an answer or a download fails, ...               *)
DeviceUpdates == \A d \in Devices : <>[](fw[d] = TargetVersion)

(* ... and once only: no answer that was on its way, no retry and no       *)
(* restart of the server makes it boot the same firmware again.            *)
UpdatesOnce == \A d \in Devices : updates[d] <= 1

(* docs/protocol_specification: a command ends ACKED.                      *)
AckedIsFinal ==
  [][\A c \in Commands : status[c] = "ACKED" => status'[c] = "ACKED"]_vars
=============================================================================
