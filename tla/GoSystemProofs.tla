--------------------------- MODULE GoSystemProofs ---------------------------
(***************************************************************************)
(* The Go server with its devices, for any number of devices, commands and *)
(* handlers: the server in the system is the server of GoCommands, so what *)
(* is proved there holds here; a firmware is installed once; and, without  *)
(* failing statements and overlapping retries, SQLRepository and the       *)
(* devices keep the promise of CommandLedger.                              *)
(***************************************************************************)
EXTENDS GoSystem, GoCommandsProofs

-----------------------------------------------------------------------------
(* The server in the system.                                               *)

LEMMA ServerStep == [SystemNext]_vars => [Next]_goVars
<1> SUFFICES ASSUME [SystemNext]_vars PROVE [Next]_goVars
  OBVIOUS
<1>1. CASE UNCHANGED vars
  BY <1>1 DEF vars
<1>2. ASSUME NEW d \in Devices, Poll(d) PROVE Next
  BY <1>2 DEF Poll, Next
<1>3. ASSUME NEW d \in Devices,
             PollLost(d) \/ Timeout(d) \/ InstallOta(d) \/ OtaFails(d)
               \/ Execute(d) \/ EndCycle(d)
      PROVE  UNCHANGED goVars
  BY <1>3 DEF PollLost, Timeout, InstallOta, OtaFails, Execute, EndCycle
<1>4. ASSUME NEW h \in Handlers, ServerWork(h) \/ Deliver(h) \/ LoseAnswer(h)
      PROVE  Next
  BY <1>4 DEF ServerWork, Deliver, LoseAnswer, Next
<1>5. ASSUME NEW c \in Commands, Operator(c) \/ ServeAck(c) \/ LoseAck(c)
      PROVE  Next \/ UNCHANGED goVars
  BY <1>5 DEF Operator, ServeAck, LoseAck, Next
<1>6. CASE ServerRestart
  BY <1>6 DEF ServerRestart, Next
<1> QED
  BY <1>1, <1>2, <1>3, <1>4, <1>5, <1>6 DEF SystemNext

(* Whatever the devices and the network do, the server of the system       *)
(* behaves as GoCommands: every theorem of GoCommandsProofs holds here.    *)
THEOREM SystemIsServer == SystemSpec => Spec
<1>1. SystemInit => Init
  BY DEF SystemInit
<1> QED
  BY <1>1, ServerStep, PTL DEF SystemSpec, Spec

-----------------------------------------------------------------------------
(* Types.                                                                  *)

Sims == [pc: SimSteps, at: Handlers \cup {NoHandler}, inbox: Seq(Commands)]

SimTypeInv ==
  /\ TypeInv
  /\ sim \in [Devices -> Sims]
  /\ fw \in [Devices -> Versions]
  /\ updates \in [Devices -> 0 .. MaxRuns]
  /\ executed \in [Commands -> 0 .. MaxRuns]
  /\ acks \subseteq Commands
  /\ told \in [Devices -> Nat]

LEMMA ReadySimType == ReadySim \in Sims
<1>1. <<>> \in Seq(Commands)
  OBVIOUS
<1> QED
  BY <1>1 DEF ReadySim, Sims, SimSteps

LEMMA SystemInitType == SystemInit => SimTypeInv
<1> SUFFICES ASSUME SystemInit PROVE SimTypeInv
  OBVIOUS
<1>1. TypeInv
  BY InitType DEF SystemInit
<1> QED
  BY <1>1, ReadySimType, SystemAssumption
  DEF SystemInit, SimTypeInv, Versions, FirstVersion

LEMMA SystemStepType == SimTypeInv /\ [SystemNext]_vars => SimTypeInv'
<1> SUFFICES ASSUME SimTypeInv, [SystemNext]_vars PROVE SimTypeInv'
  OBVIOUS
<1>0. TypeInv' /\ job \in [Handlers -> Jobs] /\ sim \in [Devices -> Sims] /\ MaxRuns \in Nat \ {0}
  BY ServerStep, NextType, SystemAssumption DEF SimTypeInv, TypeInv, JobsOK
<1> DEFINE SimOK == sim' \in [Devices -> Sims]
<1>1. CASE UNCHANGED vars
  BY <1>0, <1>1 DEF vars, simVars, SimTypeInv
<1>2. ASSUME NEW d \in Devices, Poll(d) PROVE SimTypeInv'
  <2>1. PICK h \in Handlers : sim' = [sim EXCEPT ![d] = [ReadySim EXCEPT !.pc = "waiting", !.at = h]]
    BY <1>2 DEF Poll
  <2>2. SimOK
    BY <1>0, <2>1, ReadySimType DEF Sims, SimSteps
  <2> QED
    BY <1>0, <1>2, <2>2 DEF Poll, SimTypeInv
<1>3. ASSUME NEW d \in Devices, PollLost(d) \/ OtaFails(d) PROVE SimTypeInv'
  <2>1. PICK step \in {"waiting", "exec"} : sim' = [sim EXCEPT ![d].pc = step]
    BY <1>3 DEF PollLost, OtaFails
  <2>2. SimOK
    BY <1>0, <2>1 DEF Sims, SimSteps
  <2> QED
    BY <1>0, <1>3, <2>2 DEF PollLost, OtaFails, SimTypeInv
<1>4. ASSUME NEW d \in Devices, Timeout(d) \/ EndCycle(d) PROVE SimTypeInv'
  <2>1. SimOK
    BY <1>0, <1>4, ReadySimType DEF Timeout, EndCycle
  <2> QED
    BY <1>0, <1>4, <2>1 DEF Timeout, EndCycle, SimTypeInv
<1>5. ASSUME NEW d \in Devices, InstallOta(d) PROVE SimTypeInv'
  <2>1. SimOK
    BY <1>0, <1>5 DEF InstallOta, Sims, SimSteps
  <2>2. fw' \in [Devices -> Versions]
    BY <1>5 DEF InstallOta, SimTypeInv, Versions
  <2>3. updates' \in [Devices -> 0 .. MaxRuns]
    BY <1>0, <1>5 DEF InstallOta, SimTypeInv
  <2> QED
    BY <1>0, <1>5, <2>1, <2>2, <2>3 DEF InstallOta, SimTypeInv
<1>6. ASSUME NEW d \in Devices, Execute(d) PROVE SimTypeInv'
  <2> DEFINE c == Head(sim[d].inbox)
  <2>1. sim[d].inbox \in Seq(Commands) /\ sim[d].inbox # <<>>
    BY <1>0, <1>6 DEF Execute, Sims
  <2>2. c \in Commands /\ Tail(sim[d].inbox) \in Seq(Commands)
    BY <2>1
  <2>3. SimOK
    BY <1>0, <1>6, <2>2 DEF Execute, Sims
  <2>4. acks' = acks \cup {c}
        /\ executed' = [executed EXCEPT ![c] = IF @ < Counted THEN @ + 1 ELSE @]
    BY <1>6 DEF Execute
  <2>5. Counted \in 1 .. MaxRuns
    BY <1>0 DEF Counted
  <2> HIDE DEF c
  <2>6. executed' \in [Commands -> 0 .. MaxRuns] /\ acks' \subseteq Commands
    BY <1>0, <2>2, <2>4, <2>5 DEF SimTypeInv
  <2> QED
    BY <1>0, <1>6, <2>3, <2>6 DEF Execute, SimTypeInv
<1>7. ASSUME NEW h \in Handlers, ServerWork(h) PROVE SimTypeInv'
  BY <1>0, <1>7 DEF ServerWork, simVars, SimTypeInv
<1>8. ASSUME NEW h \in Handlers, Deliver(h) PROVE SimTypeInv'
  <2>1. /\ job[h].sleep \in Nat /\ job[h].picked \in Seq(Commands)
        /\ job[h].dev \in Devices
    BY <1>0, <1>8 DEF Deliver, Respond, SimTypeInv, TypeInv, JobsOK, JobOK, Jobs
  <2>2. SimOK /\ told' \in [Devices -> Nat]
    BY <1>0, <1>8, <2>1 DEF Deliver, Sims, SimSteps, SimTypeInv
  <2> QED
    BY <1>0, <1>8, <2>2 DEF Deliver, SimTypeInv
<1>9. ASSUME sim' = [d \in Devices |-> sim'[d]],
             \A d \in Devices : sim'[d] = sim[d] \/ sim'[d] = [sim[d] EXCEPT !.at = NoHandler]
      PROVE  SimOK
  <2>1. ASSUME NEW d \in Devices PROVE sim'[d] \in Sims
    BY <1>0, <1>9 DEF Sims
  <2> QED
    BY <1>9, <2>1
<1>10. ASSUME NEW h \in Handlers, LoseAnswer(h) PROVE SimTypeInv'
  <2>1. SimOK
    BY <1>9, <1>10 DEF LoseAnswer
  <2> QED
    BY <1>0, <1>10, <2>1 DEF LoseAnswer, SimTypeInv
<1>11. CASE ServerRestart
  <2>1. SimOK
    BY <1>9, <1>11 DEF ServerRestart
  <2> QED
    BY <1>0, <1>11, <2>1 DEF ServerRestart, SimTypeInv
<1>12. ASSUME NEW c \in Commands, Operator(c) \/ ServeAck(c) \/ LoseAck(c) PROVE SimTypeInv'
  BY <1>0, <1>12 DEF Operator, ServeAck, LoseAck, simVars, SimTypeInv
<1> QED
  BY <1>1, <1>2, <1>3, <1>4, <1>5, <1>6, <1>7, <1>8, <1>10, <1>11, <1>12 DEF SystemNext

(* Every variable of the server, the devices and the network keeps its     *)
(* type.                                                                   *)
THEOREM SystemTypeCorrect == SystemSpec => []SystemTypeOK
<1>1. SimTypeInv => SystemTypeOK
  BY TypeInvGivesTypeOK DEF SimTypeInv, SystemTypeOK, Sims
<1> QED
  BY <1>1, SystemInitType, SystemStepType, PTL DEF SystemSpec

-----------------------------------------------------------------------------
(* The offer of a firmware.  UpdatesOnce is not inductive: a device that   *)
(* downloads has not installed anything yet, because it went to "ota" only *)
(* when its version was another one, and nothing else changes its version. *)

OtaInv ==
  \A d \in Devices :
    /\ sim[d].pc = "ota" => updates[d] = 0
    /\ fw[d] # TargetVersion => updates[d] = 0
    /\ updates[d] <= 1

LEMMA OtaStep == SimTypeInv /\ OtaInv /\ [SystemNext]_vars => OtaInv'
<1> SUFFICES ASSUME SimTypeInv, OtaInv, [SystemNext]_vars, NEW e \in Devices
             PROVE  /\ sim'[e].pc = "ota" => updates'[e] = 0
                    /\ fw'[e] # TargetVersion => updates'[e] = 0
                    /\ updates'[e] <= 1
  BY DEF OtaInv
<1> DEFINE Goal == /\ sim'[e].pc = "ota" => updates'[e] = 0
                   /\ fw'[e] # TargetVersion => updates'[e] = 0
                   /\ updates'[e] <= 1
<1>0. /\ sim \in [Devices -> Sims] /\ updates \in [Devices -> 0 .. MaxRuns]
      /\ fw \in [Devices -> Versions] /\ MaxRuns \in Nat \ {0}
      /\ job \in [Handlers -> Jobs]
  BY SystemAssumption DEF SimTypeInv, TypeInv, JobsOK
<1>1. ASSUME sim'[e].pc = "ota" => sim[e].pc = "ota" \/ Announced(e),
             fw' = fw, updates' = updates
      PROVE  Goal
  BY <1>1 DEF OtaInv, Announced
<1>2. CASE UNCHANGED vars
  BY <1>1, <1>2 DEF vars, simVars
<1>3. ASSUME NEW d \in Devices,
             Poll(d) \/ PollLost(d) \/ Timeout(d) \/ OtaFails(d) \/ Execute(d) \/ EndCycle(d)
      PROVE  Goal
  <2>1. sim'[e].pc = "ota" => sim[e].pc = "ota"
    <3>1. CASE Poll(d)
      <4>1. PICK h \in Handlers :
              sim' = [sim EXCEPT ![d] = [ReadySim EXCEPT !.pc = "waiting", !.at = h]]
        BY <3>1 DEF Poll
      <4> QED
        BY <1>0, <4>1 DEF ReadySim
    <3>2. CASE PollLost(d) \/ OtaFails(d)
      <4>1. PICK step \in {"waiting", "exec"} : sim' = [sim EXCEPT ![d].pc = step]
        BY <3>2 DEF PollLost, OtaFails
      <4> QED
        BY <1>0, <4>1 DEF Sims
    <3>3. CASE Timeout(d) \/ EndCycle(d)
      <4>1. sim' = [sim EXCEPT ![d] = ReadySim] /\ ReadySim.pc = "ready"
        BY <3>3 DEF Timeout, EndCycle, ReadySim
      <4> QED
        BY <1>0, <4>1
    <3>4. CASE Execute(d)
      <4>1. PICK list : sim' = [sim EXCEPT ![d].inbox = list]
        BY <3>4 DEF Execute
      <4> QED
        BY <1>0, <4>1 DEF Sims
    <3> QED
      BY <1>3, <3>1, <3>2, <3>3, <3>4
  <2>2. fw' = fw /\ updates' = updates
    BY <1>3 DEF Poll, PollLost, Timeout, OtaFails, Execute, EndCycle
  <2> QED
    BY <1>1, <2>1, <2>2
<1>4. ASSUME NEW d \in Devices, InstallOta(d) PROVE Goal
  <2>1. CASE d = e
    <3>1. updates[e] = 0
      BY <1>4, <2>1 DEF InstallOta, OtaInv
    <3>2. updates' = [updates EXCEPT ![e] = IF updates[e] < MaxRuns THEN updates[e] + 1
                                                                    ELSE updates[e]]
      BY <1>4, <2>1 DEF InstallOta
    <3>3. updates'[e] = 1
      BY <1>0, <3>1, <3>2
    <3>4. fw'[e] = TargetVersion
      BY <1>0, <1>4, <2>1 DEF InstallOta
    <3>5. sim' = [sim EXCEPT ![e] = [sim[e] EXCEPT !.pc = "exec"]]
      BY <1>4, <2>1 DEF InstallOta
    <3>6. [sim[e] EXCEPT !.pc = "exec"].pc = "exec"
      BY <1>0 DEF Sims
    <3>7. sim'[e].pc = "exec"
      BY <1>0, <3>5, <3>6
    <3> QED
      BY <3>3, <3>4, <3>7
  <2>2. CASE d # e
    <3>1. updates'[e] = updates[e] /\ fw'[e] = fw[e] /\ sim'[e] = sim[e]
      BY <1>0, <1>4, <2>2 DEF InstallOta
    <3> QED
      BY <3>1 DEF OtaInv
  <2> QED
    BY <2>1, <2>2
<1>5. ASSUME NEW h \in Handlers, ServerWork(h) PROVE Goal
  BY <1>1, <1>5 DEF ServerWork, simVars
<1>6. ASSUME NEW h \in Handlers, Deliver(h) PROVE Goal
  <2>1. sim'[e].pc = "ota" => sim[e].pc = "ota" \/ Announced(e)
    BY <1>0, <1>6 DEF Deliver, Sims
  <2> QED
    BY <1>1, <1>6, <2>1 DEF Deliver
<1>7. ASSUME NEW h \in Handlers, LoseAnswer(h) PROVE Goal
  <2>1. sim'[e].pc = "ota" => sim[e].pc = "ota"
    BY <1>0, <1>7 DEF LoseAnswer, Sims
  <2> QED
    BY <1>1, <1>7, <2>1 DEF LoseAnswer
<1>8. CASE ServerRestart
  <2>1. sim'[e].pc = "ota" => sim[e].pc = "ota"
    BY <1>0, <1>8 DEF ServerRestart, Sims
  <2> QED
    BY <1>1, <1>8, <2>1 DEF ServerRestart
<1>9. ASSUME NEW c \in Commands, Operator(c) \/ ServeAck(c) \/ LoseAck(c) PROVE Goal
  BY <1>1, <1>9 DEF Operator, ServeAck, LoseAck, simVars
<1> QED
  BY <1>2, <1>3, <1>4, <1>5, <1>6, <1>7, <1>8, <1>9 DEF SystemNext

(* HandleTelemetry and Run: no answer that was on its way, no retry and no *)
(* restart of the server makes a device boot the same firmware again.      *)
THEOREM FirmwareIsInstalledOnce == SystemSpec => []UpdatesOnce
<1>1. SystemInit => OtaInv
  BY DEF SystemInit, OtaInv, ReadySim
<1>2. OtaInv => UpdatesOnce
  BY DEF OtaInv, UpdatesOnce
<1> QED
  BY <1>1, <1>2, SystemInitType, SystemStepType, OtaStep, PTL DEF SystemSpec

-----------------------------------------------------------------------------
(* The promise of CommandLedger, where no statement fails and no client    *)
(* gives up a request still being served.  The invariant says where a      *)
(* command can be: in the table, in the list of the one handler that       *)
(* serves its device, or in the answer the device is working through.      *)

Distinct(list) == \A i, k \in 1 .. Len(list) : list[i] = list[k] => i = k

(* What the i-th command of a handler's list is in the table.              *)
ListedStatus(h, i) ==
  IF job[h].pc = "rows" \/ (job[h].pc = "mark" /\ i >= job[h].next) THEN "PENDING" ELSE "SENT"

(* The device waits for this handler and for no other, and has executed    *)
(* nothing of its list.                                                    *)
HandlerOK(h) ==
  job[h].pc # "idle" =>
    /\ sim[job[h].dev].pc = "waiting"
    /\ sim[job[h].dev].at = h
    /\ Distinct(job[h].picked)
    /\ \A i \in 1 .. Len(job[h].picked) :
         /\ Request[job[h].picked[i]].dev = job[h].dev
         /\ executed[job[h].picked[i]] = 0
         /\ status[job[h].picked[i]] = ListedStatus(h, i)

(* The rest of an answer is SENT and not executed.                         *)
DeviceOK(d) ==
  /\ sim[d].pc \in {"ready", "waiting"} => sim[d].inbox = <<>>
  /\ Distinct(sim[d].inbox)
  /\ \A i \in 1 .. Len(sim[d].inbox) :
       /\ Request[sim[d].inbox[i]].dev = d
       /\ executed[sim[d].inbox[i]] = 0
       /\ status[sim[d].inbox[i]] = "SENT"

(* What was executed was handed over before; what is acknowledged was      *)
(* executed before.                                                        *)
CommandOK(c) ==
  /\ executed[c] \in {0, 1}
  /\ executed[c] = 1 => status[c] \in {"SENT", "ACKED"}
  /\ status[c] = "ACKED" => executed[c] = 1
  /\ c \in acks => executed[c] = 1

(* Every command is stamped once and stored once.                          *)
RowsOK ==
  /\ Distinct(order) /\ Distinct(rows)
  /\ \A i \in 1 .. Len(order) : status[order[i]] \notin {"none", "inserting"}
  /\ \A i \in 1 .. Len(rows) : status[rows[i]] \in {"PENDING", "SENT", "ACKED"}

LedgerInv ==
  repo = "sql" =>
    /\ \A h \in Handlers : HandlerOK(h)
    /\ \A d \in Devices : DeviceOK(d)
    /\ \A c \in Commands : CommandOK(c)
    /\ RowsOK

(* What the lemmas below assume of a state.                                *)
LedgerState == SimTypeInv /\ LedgerInv /\ repo = "sql" /\ MaxFaults = 0 /\ ~ OverlappingRetries

LEMMA LedgerTypes ==
  ASSUME LedgerState
  PROVE  /\ sim \in [Devices -> Sims] /\ job \in [Handlers -> Jobs]
         /\ status \in [Commands -> Statuses] /\ executed \in [Commands -> 0 .. MaxRuns]
         /\ acks \subseteq Commands /\ order \in Seq(Commands) /\ rows \in Seq(Commands)
         /\ \A h \in Handlers : /\ JobOK(job[h]) /\ HandlerOK(h)
                                /\ job[h].picked \in Seq(Commands)
                                /\ job[h].next \in Nat
         /\ \A d \in Devices : DeviceOK(d) /\ sim[d].inbox \in Seq(Commands)
         /\ \A c \in Commands : CommandOK(c)
         /\ RowsOK
         /\ ~ Fault
<1>1. TypeInv /\ faults = 0
  BY DEF LedgerState, SimTypeInv, TypeInv, TableOK
<1>2. \A h \in Handlers : job[h] \in Jobs /\ JobOK(job[h])
  BY <1>1 DEF TypeInv, JobsOK, JobOK
<1>3. \A h \in Handlers : job[h].picked \in Seq(Commands) /\ job[h].next \in Nat
  BY <1>2 DEF Jobs
<1>4. \A d \in Devices : sim[d].inbox \in Seq(Commands)
  BY DEF LedgerState, SimTypeInv, Sims
<1>5. ~ Fault
  BY <1>1 DEF Fault, LedgerState
<1> QED
  BY <1>1, <1>2, <1>3, <1>4, <1>5
  DEF LedgerState, LedgerInv, SimTypeInv, TypeInv, JobsOK, TableOK

(* A step that leaves alone a handler, its device and its commands.        *)
LEMMA HandlerFrame ==
  ASSUME LedgerState, NEW h \in Handlers, job'[h] = job[h],
         job[h].pc # "idle" => /\ sim'[job[h].dev].pc = "waiting"
                               /\ sim'[job[h].dev].at = h,
         \A i \in 1 .. Len(job[h].picked) :
           job[h].pc # "idle" => /\ status'[job[h].picked[i]] = status[job[h].picked[i]]
                                 /\ executed'[job[h].picked[i]] = executed[job[h].picked[i]]
  PROVE  HandlerOK(h)'
BY LedgerTypes DEF HandlerOK, ListedStatus

LEMMA DeviceFrame ==
  ASSUME LedgerState, NEW d \in Devices, sim'[d].inbox = sim[d].inbox,
         sim'[d].pc \in {"ready", "waiting"} => sim[d].inbox = <<>>,
         \A i \in 1 .. Len(sim[d].inbox) :
           /\ status'[sim[d].inbox[i]] = status[sim[d].inbox[i]]
           /\ executed'[sim[d].inbox[i]] = executed[sim[d].inbox[i]]
  PROVE  DeviceOK(d)'
BY LedgerTypes DEF DeviceOK

LEMMA CommandFrame ==
  ASSUME LedgerState, UNCHANGED <<status, executed>>, acks' \subseteq acks
  PROVE  \A c \in Commands : CommandOK(c)'
BY LedgerTypes DEF CommandOK

LEMMA RowsFrame ==
  ASSUME LedgerState, UNCHANGED <<status, order, rows>>
  PROVE  RowsOK'
BY LedgerTypes DEF RowsOK

(* No handler is at work for a device that does not wait for it.           *)
LEMMA NobodyServes ==
  ASSUME LedgerState, NEW h \in Handlers, job[h].pc # "idle"
  PROVE  /\ sim[job[h].dev].pc = "waiting" /\ sim[job[h].dev].at = h
         /\ job[h].dev \in Devices /\ h # NoHandler
<1>1. h # NoHandler
  BY SystemAssumption
<1> QED
  BY <1>1, LedgerTypes DEF HandlerOK, JobOK

(* Steps that change neither table nor handlers nor answers.               *)
LEMMA DeviceSteps ==
  ASSUME LedgerState, NEW d \in Devices,
         PollLost(d) \/ Timeout(d) \/ InstallOta(d) \/ OtaFails(d) \/ EndCycle(d)
  PROVE  LedgerInv'
<1>1. UNCHANGED <<repo, status, order, rows, job, executed, acks>>
  BY DEF PollLost, Timeout, InstallOta, OtaFails, EndCycle, goVars
<1>2. /\ sim \in [Devices -> Sims] /\ DeviceOK(d) /\ sim[d].inbox \in Seq(Commands)
  BY LedgerTypes
<1>3. PICK s \in Sims : sim' = [sim EXCEPT ![d] = s] /\ s.inbox = sim[d].inbox
                        /\ (s.pc \in {"ready", "waiting"} => sim[d].inbox = <<>>)
  <2>1. CASE PollLost(d) \/ InstallOta(d) \/ OtaFails(d)
    <3>1. PICK step \in {"waiting", "exec"} :
             /\ sim' = [sim EXCEPT ![d].pc = step]
             /\ step = "waiting" => sim[d].pc = "ready"
      BY <2>1 DEF PollLost, InstallOta, OtaFails
    <3>2. [sim[d] EXCEPT !.pc = step] \in Sims
      BY <1>2 DEF Sims, SimSteps
    <3> QED
      BY <1>2, <3>1, <3>2 DEF Sims, DeviceOK
  <2>2. CASE Timeout(d) \/ EndCycle(d)
    <3>1. sim' = [sim EXCEPT ![d] = ReadySim] /\ sim[d].inbox = <<>>
      BY <1>2, <2>2 DEF Timeout, EndCycle, DeviceOK
    <3> QED
      BY <3>1, ReadySimType DEF ReadySim
  <2> QED
    BY <2>1, <2>2
<1>4. sim[d].pc = "waiting" => sim[d].at = NoHandler
  BY DEF PollLost, Timeout, InstallOta, OtaFails, EndCycle, LedgerState
<1>5. \A h \in Handlers : HandlerOK(h)'
  <2> SUFFICES ASSUME NEW h \in Handlers PROVE HandlerOK(h)'
    OBVIOUS
  <2>1. job[h].pc # "idle" => job[h].dev # d
    BY <1>4, NobodyServes
  <2>2. job[h].pc # "idle" => sim'[job[h].dev].pc = "waiting" /\ sim'[job[h].dev].at = h
    BY <1>2, <1>3, <2>1, NobodyServes
  <2> QED
    BY <1>1, <2>2, HandlerFrame
<1>6. \A e \in Devices : DeviceOK(e)'
  <2> SUFFICES ASSUME NEW e \in Devices PROVE DeviceOK(e)'
    OBVIOUS
  <2>1. sim'[e].inbox = sim[e].inbox
        /\ (sim'[e].pc \in {"ready", "waiting"} => sim[e].inbox = <<>>)
    BY <1>2, <1>3, LedgerTypes DEF DeviceOK
  <2> QED
    BY <1>1, <2>1, DeviceFrame
<1> QED
  BY <1>1, <1>5, <1>6, CommandFrame, RowsFrame DEF LedgerInv

(* A request of a device that was not served finds no list yet.            *)
LEMMA PollStep ==
  ASSUME LedgerState, NEW d \in Devices, Poll(d)
  PROVE  LedgerInv'
<1>1. UNCHANGED <<repo, status, order, rows, executed, acks>>
  BY DEF Poll, Receive
<1>2. /\ sim \in [Devices -> Sims] /\ job \in [Handlers -> Jobs] /\ sim[d].pc = "ready"
      /\ sim[d].inbox = <<>>
  BY LedgerTypes DEF Poll, DeviceOK
<1>3. PICK h \in Handlers, b \in Batteries :
         /\ Receive(h, d, b)
         /\ sim' = [sim EXCEPT ![d] = [ReadySim EXCEPT !.pc = "waiting", !.at = h]]
  BY DEF Poll
<1>4. sim'[d].pc = "waiting" /\ sim'[d].at = h /\ sim'[d].inbox = <<>>
  BY <1>2, <1>3 DEF ReadySim
<1>5. job'[h].pc = "config" /\ job'[h].dev = d /\ job'[h].picked = <<>>
  BY <1>2, <1>3 DEF Receive, IdleJob
<1>6. HandlerOK(h)'
  BY <1>4, <1>5 DEF HandlerOK, Distinct
<1>7. ASSUME NEW g \in Handlers, g # h PROVE HandlerOK(g)'
  <2>1. job'[g] = job[g]
    BY <1>2, <1>3, <1>7 DEF Receive
  <2>2. job[g].pc # "idle" => job[g].dev # d
    BY <1>2, NobodyServes
  <2>3. job[g].pc # "idle" => sim'[job[g].dev].pc = "waiting" /\ sim'[job[g].dev].at = g
    BY <1>2, <1>3, <2>2, NobodyServes
  <2> QED
    BY <1>1, <2>1, <2>3, HandlerFrame
<1>8. ASSUME NEW e \in Devices PROVE DeviceOK(e)'
  <2>1. sim'[e].inbox = sim[e].inbox
        /\ (sim'[e].pc \in {"ready", "waiting"} => sim[e].inbox = <<>>)
    BY <1>2, <1>3, <1>4, LedgerTypes DEF DeviceOK
  <2> QED
    BY <1>1, <2>1, DeviceFrame
<1> QED
  BY <1>1, <1>6, <1>7, <1>8, CommandFrame, RowsFrame DEF LedgerInv

(* The command executed is in no other list and not in the rest of its     *)
(* own.                                                                    *)
LEMMA ExecuteStep ==
  ASSUME LedgerState, NEW d \in Devices, Execute(d)
  PROVE  /\ LedgerInv'
         /\ LET c == Head(sim[d].inbox)
            IN  /\ c \in Commands /\ executed[c] = 0 /\ status[c] = "SENT"
                /\ executed' = [executed EXCEPT ![c] = 1]
<1> DEFINE c == Head(sim[d].inbox)
           list == sim[d].inbox
<1>1. UNCHANGED <<repo, status, order, rows, job>> /\ acks' = acks \cup {c}
  BY DEF Execute, goVars
<1>2. /\ sim \in [Devices -> Sims] /\ list \in Seq(Commands) /\ list # <<>>
      /\ sim[d].pc = "exec" /\ DeviceOK(d) /\ executed \in [Commands -> 0 .. MaxRuns]
  BY LedgerTypes DEF Execute
<1>3. c = list[1] /\ 1 \in 1 .. Len(list) /\ c \in Commands
  BY <1>2
<1>4. Request[c].dev = d /\ executed[c] = 0 /\ status[c] = "SENT"
  BY <1>2, <1>3 DEF DeviceOK
<1>5. Counted \in Nat \ {0}
  BY SystemAssumption DEF Counted
<1>6. executed' = [executed EXCEPT ![c] = 1]
  <2>1. executed' = [executed EXCEPT ![c] = IF executed[c] < Counted THEN executed[c] + 1
                                                                     ELSE executed[c]]
    BY DEF Execute
  <2>2. (IF executed[c] < Counted THEN executed[c] + 1 ELSE executed[c]) = 1
    BY <1>4, <1>5
  <2> QED
    BY <2>1, <2>2
<1>7. sim'[d].inbox = Tail(list) /\ sim'[d].pc = "exec"
      /\ \A e \in Devices : e # d => sim'[e] = sim[e]
  BY <1>2 DEF Execute, Sims
<1> HIDE DEF c, list
<1>8. \A x \in Commands : x # c => executed'[x] = executed[x]
  BY <1>2, <1>6
<1>9. ASSUME NEW h \in Handlers PROVE HandlerOK(h)'
  <2>1. job[h].pc # "idle" => job[h].dev # d
    BY <1>2, NobodyServes
  <2>2. job[h].pc # "idle" => sim'[job[h].dev].pc = "waiting" /\ sim'[job[h].dev].at = h
    BY <1>7, <2>1, NobodyServes
  <2>3. ASSUME NEW i \in 1 .. Len(job[h].picked), job[h].pc # "idle"
        PROVE  executed'[job[h].picked[i]] = executed[job[h].picked[i]]
    <3>1. job[h].picked[i] \in Commands /\ Request[job[h].picked[i]].dev = job[h].dev
      BY <2>3, LedgerTypes DEF HandlerOK
    <3> QED
      BY <1>4, <1>8, <2>1, <2>3, <3>1
  <2> QED
    BY <1>1, <2>2, <2>3, HandlerFrame
<1>10. ASSUME NEW e \in Devices, e # d PROVE DeviceOK(e)'
  <2>1. ASSUME NEW i \in 1 .. Len(sim[e].inbox)
        PROVE  executed'[sim[e].inbox[i]] = executed[sim[e].inbox[i]]
    <3>1. sim[e].inbox[i] \in Commands /\ Request[sim[e].inbox[i]].dev = e
      BY LedgerTypes DEF DeviceOK
    <3> QED
      BY <1>4, <1>8, <1>10, <3>1
  <2>2. sim'[e] = sim[e] /\ DeviceOK(e)
    BY <1>7, <1>10, LedgerTypes
  <2>3. sim'[e].inbox = sim[e].inbox
        /\ (sim'[e].pc \in {"ready", "waiting"} => sim[e].inbox = <<>>)
    BY <2>2 DEF DeviceOK
  <2> QED
    BY <1>1, <2>1, <2>3, DeviceFrame
<1>11. DeviceOK(d)'
  <2>1. /\ Tail(list) \in Seq(Commands) /\ Len(Tail(list)) = Len(list) - 1
        /\ \A i \in 1 .. Len(list) - 1 : Tail(list)[i] = list[i + 1]
    BY <1>2
  <2>2. \A i \in 1 .. Len(list) - 1 : i + 1 \in 1 .. Len(list) /\ i + 1 # 1
    BY <1>2
  <2>3. Distinct(list)
        /\ \A i \in 1 .. Len(list) : /\ Request[list[i]].dev = d
                                     /\ executed[list[i]] = 0
                                     /\ status[list[i]] = "SENT" /\ list[i] \in Commands
    BY <1>2 DEF DeviceOK, list
  <2>4. \A i \in 1 .. Len(list) - 1 : list[i + 1] # c
    BY <1>3, <2>2, <2>3 DEF Distinct
  <2>5. Distinct(Tail(list))
    BY <1>2, <2>1, <2>2, <2>3 DEF Distinct
  <2>6. \A i \in 1 .. Len(list) - 1 : /\ Request[Tail(list)[i]].dev = d
                                      /\ executed'[Tail(list)[i]] = 0
                                      /\ status'[Tail(list)[i]] = "SENT"
    BY <1>1, <1>8, <2>1, <2>2, <2>3, <2>4
  <2> QED
    BY <1>7, <2>1, <2>5, <2>6 DEF DeviceOK
<1>12. ASSUME NEW x \in Commands PROVE CommandOK(x)'
  <2>1. CommandOK(x)
    BY LedgerTypes
  <2>2. CASE x = c
    BY <1>1, <1>2, <1>3, <1>4, <1>6, <2>2 DEF CommandOK
  <2>3. CASE x # c
    BY <1>1, <1>8, <2>1, <2>3 DEF CommandOK
  <2> QED
    BY <2>2, <2>3
<1> QED
  BY <1>1, <1>3, <1>4, <1>6, <1>9, <1>10, <1>11, <1>12, RowsFrame DEF LedgerInv, c

(* The answer reaches the device that waits for it.                        *)
LEMMA DeliverStep ==
  ASSUME LedgerState, NEW h \in Handlers, Deliver(h)
  PROVE  LedgerInv'
<1> DEFINE list == job[h].picked
<1>0. PICK d \in Devices : d = job[h].dev
  BY NobodyServes DEF Deliver, Respond
<1>1. UNCHANGED <<repo, status, order, rows, executed, acks>> /\ job' = [job EXCEPT ![h] = IdleJob]
  BY DEF Deliver, Respond
<1>2. /\ sim \in [Devices -> Sims] /\ job \in [Handlers -> Jobs] /\ HandlerOK(h)
      /\ sim[d].pc = "waiting" /\ sim[d].at = h /\ job[h].pc = "reply"
      /\ list \in Seq(Commands)
  BY <1>0, NobodyServes, LedgerTypes DEF Deliver, Respond
<1>3. /\ sim'[d].inbox = list /\ sim'[d].pc \in {"ota", "exec"}
      /\ \A e \in Devices : e # d => sim'[e] = sim[e]
  BY <1>0, <1>2 DEF Deliver
<1>4. /\ Distinct(list)
      /\ \A i \in 1 .. Len(list) : /\ Request[list[i]].dev = d
                                   /\ executed[list[i]] = 0
                                   /\ status[list[i]] = "SENT"
  BY <1>0, <1>2 DEF HandlerOK, ListedStatus
<1>5. job'[h].pc = "idle"
  BY <1>1, <1>2 DEF IdleJob
<1> HIDE DEF list
<1>6. HandlerOK(h)'
  BY <1>5 DEF HandlerOK
<1>7. ASSUME NEW g \in Handlers, g # h PROVE HandlerOK(g)'
  <2>1. job'[g] = job[g]
    BY <1>1, <1>2, <1>7
  <2>2. job[g].pc # "idle" => job[g].dev # d
    BY <1>0, <1>2, <1>7, NobodyServes
  <2>3. job[g].pc # "idle" => sim'[job[g].dev].pc = "waiting" /\ sim'[job[g].dev].at = g
    BY <1>3, <2>2, NobodyServes
  <2> QED
    BY <1>1, <2>1, <2>3, HandlerFrame
<1>8. DeviceOK(d)'
  BY <1>1, <1>3, <1>4 DEF DeviceOK
<1>9. ASSUME NEW e \in Devices, e # d PROVE DeviceOK(e)'
  <2>1. sim'[e] = sim[e] /\ DeviceOK(e)
    BY <1>3, <1>9, LedgerTypes
  <2>2. sim'[e].inbox = sim[e].inbox
        /\ (sim'[e].pc \in {"ready", "waiting"} => sim[e].inbox = <<>>)
    BY <2>1 DEF DeviceOK
  <2> QED
    BY <1>1, <2>2, DeviceFrame
<1> QED
  BY <1>1, <1>6, <1>7, <1>8, <1>9, CommandFrame, RowsFrame DEF LedgerInv

(* Handlers end without an answer: all of them, or one.                    *)
LEMMA LoseStep ==
  ASSUME LedgerState, ServerRestart \/ \E h \in Handlers : LoseAnswer(h)
  PROVE  LedgerInv'
<1>1. /\ sim \in [Devices -> Sims] /\ job \in [Handlers -> Jobs] /\ repo = "sql"
      /\ status \in [Commands -> Statuses]
  BY LedgerTypes DEF LedgerState
<1>2. /\ UNCHANGED <<repo, order, rows, executed, acks>>
      /\ \A c \in Commands : status[c] \in {"PENDING", "SENT", "ACKED"} => status'[c] = status[c]
      /\ \A c \in Commands : status'[c] = status[c] \/ status'[c] = "dropped"
  BY <1>1 DEF ServerRestart, Restart, LoseAnswer, Respond
<1>3. \A e \in Devices : sim'[e].pc = sim[e].pc /\ sim'[e].inbox = sim[e].inbox
  BY <1>1 DEF ServerRestart, LoseAnswer, Sims
<1>4. ASSUME NEW g \in Handlers PROVE HandlerOK(g)'
  <2>1. job'[g].pc = "idle"
        \/ /\ job'[g] = job[g] /\ status' = status
           /\ job[g].pc # "idle" => sim'[job[g].dev] = sim[job[g].dev]
    <3>1. CASE ServerRestart
      BY <3>1 DEF ServerRestart, Restart, IdleJob
    <3>2. ASSUME NEW h \in Handlers, LoseAnswer(h)
          PROVE  job'[g].pc = "idle"
                 \/ /\ job'[g] = job[g] /\ status' = status
                    /\ job[g].pc # "idle" => sim'[job[g].dev] = sim[job[g].dev]
      <4>1. CASE g = h
        BY <1>1, <3>2, <4>1 DEF LoseAnswer, Respond, IdleJob
      <4>2. CASE g # h
        <5>1. job'[g] = job[g] /\ status' = status
          BY <1>1, <3>2, <4>2 DEF LoseAnswer, Respond
        <5>2. job[g].pc # "idle" => job[g].dev \in Devices /\ sim[job[g].dev].at # h
          BY <4>2, NobodyServes
        <5>3. \A e \in Devices : sim[e].at # h => sim'[e] = sim[e]
          BY <3>2 DEF LoseAnswer
        <5> QED
          BY <5>1, <5>2, <5>3
      <4> QED
        BY <4>1, <4>2
    <3> QED
      BY <3>1, <3>2
  <2>2. CASE job'[g].pc = "idle"
    BY <2>2 DEF HandlerOK
  <2>3. CASE /\ job'[g] = job[g] /\ status' = status
             /\ job[g].pc # "idle" => sim'[job[g].dev] = sim[job[g].dev]
    BY <1>2, <2>3, HandlerFrame, NobodyServes
  <2> QED
    BY <2>1, <2>2, <2>3
<1>5. ASSUME NEW e \in Devices PROVE DeviceOK(e)'
  <2>1. DeviceOK(e) /\ sim[e].inbox \in Seq(Commands)
    BY LedgerTypes
  <2>2. \A i \in 1 .. Len(sim[e].inbox) : status'[sim[e].inbox[i]] = status[sim[e].inbox[i]]
    BY <1>2, <2>1 DEF DeviceOK
  <2>3. sim'[e].pc \in {"ready", "waiting"} => sim[e].inbox = <<>>
    BY <1>3, <2>1 DEF DeviceOK
  <2> QED
    BY <1>2, <1>3, <2>2, <2>3, DeviceFrame
<1>6. ASSUME NEW c \in Commands PROVE CommandOK(c)'
  <2>1. CommandOK(c)
    BY LedgerTypes
  <2> QED
    BY <1>2, <2>1 DEF CommandOK
<1>7. RowsOK'
  <2>1. RowsOK /\ order \in Seq(Commands) /\ rows \in Seq(Commands)
    BY LedgerTypes
  <2> QED
    BY <1>2, <2>1 DEF RowsOK
<1> QED
  BY <1>4, <1>5, <1>6, <1>7 DEF LedgerInv

(* A handler goes on with its own list.                                    *)
LEMMA OwnList ==
  ASSUME LedgerState, NEW h \in Handlers, job[h].pc # "idle",
         UNCHANGED <<repo, order, rows, executed, acks, sim>>,
         \A g \in Handlers : g # h => job'[g] = job[g],
         job'[h].dev = job[h].dev, job'[h].picked = job[h].picked,
         status' = status,
         \A i \in 1 .. Len(job[h].picked) : ListedStatus(h, i)' = ListedStatus(h, i)
  PROVE  LedgerInv'
<1>1. HandlerOK(h)'
  <2>1. /\ sim[job[h].dev].pc = "waiting" /\ sim[job[h].dev].at = h
        /\ Distinct(job[h].picked)
        /\ \A i \in 1 .. Len(job[h].picked) :
             /\ Request[job[h].picked[i]].dev = job[h].dev
             /\ executed[job[h].picked[i]] = 0
             /\ status[job[h].picked[i]] = ListedStatus(h, i)
    BY LedgerTypes DEF HandlerOK
  <2>2. \A i \in 1 .. Len(job'[h].picked) :
          /\ Request[job'[h].picked[i]].dev = job'[h].dev
          /\ executed'[job'[h].picked[i]] = 0
          /\ status'[job'[h].picked[i]] = ListedStatus(h, i)'
    BY <2>1
  <2>3. sim'[job'[h].dev].pc = "waiting" /\ sim'[job'[h].dev].at = h /\ Distinct(job'[h].picked)
    BY <2>1
  <2> QED
    BY ONLY <2>2, <2>3 DEF HandlerOK
<1>2. ASSUME NEW g \in Handlers, g # h PROVE HandlerOK(g)'
  BY <1>2, HandlerFrame, NobodyServes
<1>3. ASSUME NEW d \in Devices PROVE DeviceOK(d)'
  BY DeviceFrame, LedgerTypes DEF DeviceOK
<1> QED
  BY <1>1, <1>2, <1>3, CommandFrame, RowsFrame DEF LedgerInv

LEMMA QuietWorkStep ==
  ASSUME LedgerState, NEW h \in Handlers, UNCHANGED simVars,
         ReadConfig(h) \/ CloseRows(h) \/ EndMark(h) \/ Apply(h) \/ EndApply(h)
  PROVE  LedgerInv'
<1>1. /\ job \in [Handlers -> Jobs] /\ job[h] \in Jobs /\ JobOK(job[h]) /\ job[h].next \in Nat
      /\ job[h].picked \in Seq(Commands)
  BY LedgerTypes DEF JobOK
<1>2. /\ job[h].pc # "idle" /\ UNCHANGED <<repo, status, order, rows, executed, acks, sim>>
      /\ \A g \in Handlers : g # h => job'[g] = job[g]
  BY <1>1 DEF ReadConfig, CloseRows, EndMark, Apply, EndApply, simVars
<1>3. job'[h].dev = job[h].dev /\ job'[h].picked = job[h].picked
  <2>1. CASE ReadConfig(h)
    BY <1>1, <2>1 DEF ReadConfig, Jobs
  <2>2. CASE CloseRows(h) \/ EndMark(h)
    BY <1>1, <2>2 DEF CloseRows, EndMark, Jobs
  <2>3. CASE Apply(h) \/ EndApply(h)
    BY <1>1, <2>3 DEF Apply, EndApply, Jobs
  <2> QED
    BY <2>1, <2>2, <2>3
<1>4. ASSUME NEW i \in 1 .. Len(job[h].picked)
      PROVE  ListedStatus(h, i)' = ListedStatus(h, i)
  <2>1. CASE ReadConfig(h)
    BY <1>1, <2>1 DEF ReadConfig, JobOK
  <2>2. CASE CloseRows(h)
    <3>1. job[h].pc = "rows" /\ job[h].next = 1
      BY <1>1, <2>2 DEF CloseRows, JobOK
    <3>2. job'[h].pc = "mark" /\ job'[h].next = 1
      BY <1>1, <2>2, <3>1 DEF CloseRows, Jobs
    <3> QED
      BY <1>1, <3>1, <3>2 DEF ListedStatus
  <2>3. CASE EndMark(h)
    <3>1. job[h].pc = "mark" /\ ~ i >= job[h].next
      BY <1>1, <2>3 DEF EndMark
    <3>2. job'[h].pc = "apply"
      BY <1>1, <2>3 DEF EndMark, Jobs
    <3> QED
      BY <3>1, <3>2 DEF ListedStatus
  <2>4. CASE Apply(h) \/ EndApply(h)
    <3>1. job[h].pc = "apply"
      BY <2>4 DEF Apply, EndApply
    <3>2. job'[h].pc \in {"apply", "reply"}
      BY <1>1, <2>4, <3>1 DEF Apply, EndApply, Jobs
    <3> QED
      BY <3>1, <3>2 DEF ListedStatus
  <2> QED
    BY <2>1, <2>2, <2>3, <2>4
<1> QED
  BY <1>2, <1>3, <1>4, OwnList

(* What is selected is PENDING, so it was never executed.                  *)
LEMMA SelectStep ==
  ASSUME LedgerState, NEW h \in Handlers, Select(h), UNCHANGED simVars
  PROVE  LedgerInv'
<1>1. /\ job \in [Handlers -> Jobs] /\ job[h] \in Jobs /\ JobOK(job[h]) /\ HandlerOK(h)
      /\ order \in Seq(Commands) /\ RowsOK
  BY LedgerTypes DEF JobOK
<1>2. /\ UNCHANGED <<repo, status, order, rows, executed, acks, sim>> /\ job[h].pc = "select"
      /\ \A g \in Handlers : g # h => job'[g] = job[g]
  BY <1>1 DEF Select, simVars
<1>3. PICK list \in PendingLists(job[h].dev) :
         job' = [job EXCEPT ![h].pc = "rows", ![h].picked = list]
  BY DEF Select
<1>4. job'[h].dev = job[h].dev /\ job'[h].picked = list /\ job'[h].pc = "rows"
  BY <1>1, <1>3 DEF Jobs
<1>5. job[h].dev \in Devices
  BY <1>1, <1>2 DEF JobOK
<1>6. /\ list \in Seq(Commands)
      /\ \A i \in 1 .. Len(list) : Request[list[i]].dev = job[h].dev /\ status[list[i]] = "PENDING"
      /\ \A i \in 1 .. Len(list), k \in 1 .. Len(list) :
           i < k => \E m \in 1 .. Len(order), n \in 1 .. Len(order) :
                      m < n /\ order[m] = list[i] /\ order[n] = list[k]
  BY <1>1, <1>5, PendingListType
<1>7. ASSUME NEW i \in 1 .. Len(list), NEW k \in 1 .. Len(list), i < k PROVE list[i] # list[k]
  <2>1. PICK m \in 1 .. Len(order), n \in 1 .. Len(order) :
           m < n /\ order[m] = list[i] /\ order[n] = list[k]
    BY <1>6, <1>7
  <2> QED
    BY <1>1, <2>1 DEF RowsOK, Distinct
<1>8. Distinct(list)
  BY <1>6, <1>7 DEF Distinct
<1>9. ASSUME NEW i \in 1 .. Len(list) PROVE executed[list[i]] = 0
  <2>1. list[i] \in Commands /\ status[list[i]] = "PENDING"
    BY <1>6, <1>9
  <2>2. CommandOK(list[i])
    BY <2>1, LedgerTypes
  <2> QED
    BY <2>1, <2>2 DEF CommandOK
<1>10. HandlerOK(h)'
  BY <1>1, <1>2, <1>4, <1>6, <1>8, <1>9 DEF HandlerOK, ListedStatus
<1>11. ASSUME NEW g \in Handlers, g # h PROVE HandlerOK(g)'
  BY <1>2, <1>11, HandlerFrame, NobodyServes
<1>12. ASSUME NEW d \in Devices PROVE DeviceOK(d)'
  BY <1>2, DeviceFrame, LedgerTypes DEF DeviceOK
<1> QED
  BY <1>2, <1>10, <1>11, <1>12, CommandFrame, RowsFrame DEF LedgerInv

(* The UPDATE finds its row PENDING, and concerns no other list.           *)
LEMMA MarkStep ==
  ASSUME LedgerState, NEW h \in Handlers, Mark(h), UNCHANGED simVars
  PROVE  /\ LedgerInv'
         /\ LET c == job[h].picked[job[h].next]
            IN  /\ c \in Commands /\ status[c] = "PENDING"
                /\ status' = [status EXCEPT ![c] = "SENT"]
<1> DEFINE list == job[h].picked
           n == job[h].next
           c == list[n]
<1>1. /\ job \in [Handlers -> Jobs] /\ job[h] \in Jobs /\ JobOK(job[h]) /\ HandlerOK(h)
      /\ list \in Seq(Commands) /\ status \in [Commands -> Statuses] /\ n \in Nat
  BY LedgerTypes DEF JobOK
<1>2. /\ UNCHANGED <<repo, order, rows, executed, acks, sim>> /\ job[h].pc = "mark"
      /\ \A g \in Handlers : g # h => job'[g] = job[g]
  BY <1>1 DEF Mark, simVars
<1>3. n \in 1 .. Len(list)
  BY <1>1 DEF Mark, JobOK
<1>4. c \in Commands /\ status' = [status EXCEPT ![c] = "SENT"]
  BY <1>1, <1>3 DEF Mark
<1>5. job'[h].dev = job[h].dev /\ job'[h].picked = list /\ job'[h].pc = "mark"
      /\ job'[h].next = n + 1
  BY <1>1, <1>2 DEF Mark, Jobs
<1>6. /\ Distinct(list)
      /\ \A i \in 1 .. Len(list) : /\ Request[list[i]].dev = job[h].dev
                                   /\ executed[list[i]] = 0
                                   /\ status[list[i]] = IF i >= n THEN "PENDING" ELSE "SENT"
  BY <1>1, <1>2 DEF HandlerOK, ListedStatus
<1>7. status[c] = "PENDING" /\ Request[c].dev = job[h].dev
  BY <1>1, <1>3, <1>6
<1> HIDE DEF c, n, list
<1>8. \A x \in Commands : x # c => status'[x] = status[x]
  BY <1>1, <1>4
<1>9. status'[c] = "SENT"
  BY <1>1, <1>4
<1>10. ASSUME NEW i \in 1 .. Len(list)
       PROVE  status'[list[i]] = IF i >= n + 1 THEN "PENDING" ELSE "SENT"
  <2>1. CASE i = n
    BY <1>1, <1>9, <2>1 DEF c
  <2>2. CASE i # n
    <3>1. list[i] # c /\ list[i] \in Commands
      BY <1>1, <1>3, <1>6, <2>2 DEF Distinct, c
    <3> QED
      BY <1>1, <1>6, <1>8, <2>2, <3>1
  <2> QED
    BY <2>1, <2>2
<1>11. HandlerOK(h)'
  <2>1. sim[job[h].dev].pc = "waiting" /\ sim[job[h].dev].at = h
    BY <1>2, NobodyServes
  <2> QED
    BY <1>2, <1>5, <1>6, <1>10, <2>1 DEF HandlerOK, ListedStatus
<1>12. ASSUME NEW g \in Handlers, g # h PROVE HandlerOK(g)'
  <2>1. job[g].pc # "idle" => job[g].dev # job[h].dev
    BY <1>2, <1>12, NobodyServes
  <2>2. ASSUME NEW i \in 1 .. Len(job[g].picked), job[g].pc # "idle"
        PROVE  status'[job[g].picked[i]] = status[job[g].picked[i]]
    <3>1. job[g].picked[i] \in Commands /\ Request[job[g].picked[i]].dev = job[g].dev
      BY <2>2, LedgerTypes DEF HandlerOK
    <3> QED
      BY <1>7, <1>8, <2>1, <2>2, <3>1
  <2> QED
    BY <1>2, <1>12, <2>2, HandlerFrame, NobodyServes
<1>13. ASSUME NEW d \in Devices PROVE DeviceOK(d)'
  <2>1. DeviceOK(d) /\ sim[d].inbox \in Seq(Commands)
    BY LedgerTypes
  <2>2. \A i \in 1 .. Len(sim[d].inbox) : status'[sim[d].inbox[i]] = status[sim[d].inbox[i]]
    BY <1>7, <1>8, <2>1 DEF DeviceOK
  <2> QED
    BY <1>2, <2>1, <2>2, DeviceFrame DEF DeviceOK
<1>14. ASSUME NEW x \in Commands PROVE CommandOK(x)'
  <2>1. CommandOK(x)
    BY LedgerTypes
  <2>2. CASE x = c
    BY <1>2, <1>7, <1>9, <2>1, <2>2 DEF CommandOK
  <2>3. CASE x # c
    BY <1>2, <1>8, <2>1, <2>3 DEF CommandOK
  <2> QED
    BY <2>2, <2>3
<1>15. RowsOK'
  <2>1. RowsOK /\ order \in Seq(Commands) /\ rows \in Seq(Commands)
    BY LedgerTypes
  <2>2. \A i \in 1 .. Len(order) : status'[order[i]] \notin {"none", "inserting"}
    BY <1>8, <1>9, <2>1 DEF RowsOK
  <2>3. \A i \in 1 .. Len(rows) : status'[rows[i]] \in {"PENDING", "SENT", "ACKED"}
    BY <1>8, <1>9, <2>1 DEF RowsOK
  <2> QED
    BY <1>2, <2>1, <2>2, <2>3 DEF RowsOK
<1> QED
  BY <1>4, <1>7, <1>11, <1>12, <1>13, <1>14, <1>15 DEF LedgerInv, c, n, list

(* A command that is in no list changes.                                   *)
LEMMA ListsFrame ==
  ASSUME LedgerState, NEW c \in Commands, UNCHANGED <<job, sim, executed>>,
         \A x \in Commands : x # c => status'[x] = status[x],
         status[c] \notin {"PENDING", "SENT"} \/ executed[c] = 1
  PROVE  /\ \A h \in Handlers : HandlerOK(h)'
         /\ \A d \in Devices : DeviceOK(d)'
<1>1. ASSUME NEW h \in Handlers PROVE HandlerOK(h)'
  <2>1. HandlerOK(h) /\ job[h].picked \in Seq(Commands)
    BY LedgerTypes
  <2>2. ASSUME NEW i \in 1 .. Len(job[h].picked), job[h].pc # "idle"
        PROVE  status'[job[h].picked[i]] = status[job[h].picked[i]]
    <3>1. /\ job[h].picked[i] \in Commands /\ executed[job[h].picked[i]] = 0
          /\ status[job[h].picked[i]] \in {"PENDING", "SENT"}
      BY <2>1, <2>2 DEF HandlerOK, ListedStatus
    <3> QED
      BY <3>1
  <2> QED
    BY <2>2, HandlerFrame, NobodyServes
<1>2. ASSUME NEW d \in Devices PROVE DeviceOK(d)'
  <2>1. DeviceOK(d) /\ sim[d].inbox \in Seq(Commands)
    BY LedgerTypes
  <2>2. \A i \in 1 .. Len(sim[d].inbox) : status'[sim[d].inbox[i]] = status[sim[d].inbox[i]]
    BY <2>1 DEF DeviceOK
  <2> QED
    BY <2>1, <2>2, DeviceFrame DEF DeviceOK
<1> QED
  BY <1>1, <1>2

(* A sequence of commands grows by one that is not in it.                  *)
LEMMA Growth ==
  ASSUME NEW seq \in Seq(Commands), NEW c \in Commands
  PROVE  /\ Append(seq, c) \in Seq(Commands) /\ Len(seq) \in Nat
         /\ Len(Append(seq, c)) = Len(seq) + 1
         /\ Append(seq, c)[Len(seq) + 1] = c
         /\ \A i \in 1 .. Len(seq) : Append(seq, c)[i] = seq[i]
         /\ \A i \in 1 .. Len(seq) + 1 : i \in 1 .. Len(seq) \/ i = Len(seq) + 1
         /\ Distinct(seq) /\ (\A i \in 1 .. Len(seq) : seq[i] # c)
              => Distinct(Append(seq, c))
<1> DEFINE longer == Append(seq, c)
           n == Len(seq)
<1>1. /\ longer \in Seq(Commands) /\ n \in Nat /\ Len(longer) = n + 1
      /\ longer[n + 1] = c
      /\ \A i \in 1 .. n : longer[i] = seq[i]
  OBVIOUS
<1>2. \A i \in 1 .. n + 1 : i \in 1 .. n \/ i = n + 1
  BY <1>1
<1>3. ASSUME Distinct(seq), \A i \in 1 .. n : seq[i] # c PROVE Distinct(longer)
  <2> HIDE DEF longer
  <2> QED
    BY <1>1, <1>2, <1>3 DEF Distinct
<1> QED
  BY <1>1, <1>2, <1>3

LEMMA OperatorStep ==
  ASSUME LedgerState, NEW c \in Commands, Operator(c)
  PROVE  /\ LedgerInv'
         /\ \/ /\ status[c] \in {"none", "inserting"}
               /\ \E s \in {"inserting", "stamped"} : status' = [status EXCEPT ![c] = s]
            \/ status[c] = "stamped" /\ status' = [status EXCEPT ![c] = "PENDING"]
<1>1. QueueConfig(c) \/ QueueStamp(c) \/ QueueInsert(c)
  BY LedgerTypes DEF Operator, Queue, QueueFails, QueueAppend, LedgerState
<1>2. PICK s \in {"inserting", "stamped", "PENDING"} :
         /\ status' = [status EXCEPT ![c] = s]
         /\ s = "inserting" => status[c] = "none" /\ order' = order /\ rows' = rows
         /\ s = "stamped" => status[c] = "inserting" /\ order' = Append(order, c) /\ rows' = rows
         /\ s = "PENDING" => status[c] = "stamped" /\ order' = order /\ rows' = Append(rows, c)
  BY <1>1 DEF QueueConfig, QueueStamp, QueueInsert
<1>3. UNCHANGED <<repo, job, sim, executed, acks>>
  BY <1>1 DEF Operator, QueueConfig, QueueStamp, QueueInsert, simVars
<1>4. /\ status \in [Commands -> Statuses] /\ order \in Seq(Commands) /\ rows \in Seq(Commands)
      /\ RowsOK /\ CommandOK(c)
      /\ status[c] \in {"none", "inserting", "stamped"}
  BY <1>2, LedgerTypes
<1>5. /\ \A x \in Commands : x # c => status'[x] = status[x]
      /\ status'[c] = s
  BY <1>2, <1>4
<1>6. /\ \A h \in Handlers : HandlerOK(h)'
      /\ \A d \in Devices : DeviceOK(d)'
  BY <1>3, <1>4, <1>5, ListsFrame
<1>7. ASSUME NEW x \in Commands PROVE CommandOK(x)'
  <2>1. CommandOK(x)
    BY LedgerTypes
  <2>2. CASE x = c
    BY <1>3, <1>4, <1>5, <2>2 DEF CommandOK
  <2>3. CASE x # c
    BY <1>3, <1>5, <2>1, <2>3 DEF CommandOK
  <2> QED
    BY <2>2, <2>3
<1>8. /\ \A i \in 1 .. Len(order) : order[i] \in Commands
      /\ \A i \in 1 .. Len(rows) : rows[i] \in Commands /\ rows[i] # c
                                  /\ status'[rows[i]] \in {"PENDING", "SENT", "ACKED"}
  BY <1>4, <1>5 DEF RowsOK
<1>9. Distinct(order') /\ \A i \in 1 .. Len(order') : status'[order'[i]] \notin {"none", "inserting"}
  <2>1. CASE s = "inserting"
    BY <1>2, <1>4, <1>5, <1>8, <2>1 DEF RowsOK
  <2>2. CASE s = "PENDING"
    BY <1>2, <1>4, <1>5, <1>8, <2>2 DEF RowsOK
  <2>3. CASE s = "stamped"
    <3>1. order' = Append(order, c) /\ \A i \in 1 .. Len(order) : order[i] # c
      BY <1>2, <1>4, <2>3 DEF RowsOK
    <3>2. Distinct(order')
      BY <1>4, <3>1, Growth DEF RowsOK
    <3>3. ASSUME NEW i \in 1 .. Len(order') PROVE status'[order'[i]] \notin {"none", "inserting"}
      <4>1. CASE i \in 1 .. Len(order)
        BY <1>4, <1>5, <1>8, <3>1, <4>1, Growth DEF RowsOK
      <4>2. CASE i = Len(order) + 1
        BY <1>4, <1>5, <2>3, <3>1, <4>2, Growth
      <4> QED
        BY <1>4, <3>1, <4>1, <4>2, Growth
    <3> QED
      BY <3>2, <3>3
  <2> QED
    BY <2>1, <2>2, <2>3
<1>10. Distinct(rows') /\ \A i \in 1 .. Len(rows') : status'[rows'[i]] \in {"PENDING", "SENT", "ACKED"}
  <2>1. CASE rows' = rows
    BY <1>4, <1>8, <2>1 DEF RowsOK
  <2>2. CASE s = "PENDING"
    <3>1. rows' = Append(rows, c)
      BY <1>2, <2>2
    <3>2. Distinct(rows')
      BY <1>4, <1>8, <3>1, Growth DEF RowsOK
    <3>3. ASSUME NEW i \in 1 .. Len(rows')
          PROVE  status'[rows'[i]] \in {"PENDING", "SENT", "ACKED"}
      <4>1. CASE i \in 1 .. Len(rows)
        BY <1>4, <1>8, <3>1, <4>1, Growth
      <4>2. CASE i = Len(rows) + 1
        BY <1>4, <1>5, <2>2, <3>1, <4>2, Growth
      <4> QED
        BY <1>4, <3>1, <4>1, <4>2, Growth
    <3> QED
      BY <3>2, <3>3
  <2> QED
    BY <1>2, <2>1, <2>2
<1>11. RowsOK'
  BY <1>9, <1>10 DEF RowsOK
<1> QED
  BY <1>2, <1>3, <1>4, <1>6, <1>7, <1>11 DEF LedgerInv

LEMMA AckStep ==
  ASSUME LedgerState, NEW c \in Commands, ServeAck(c)
  PROVE  /\ LedgerInv'
         /\ executed[c] = 1 /\ status[c] \in {"SENT", "ACKED"}
         /\ status' = [status EXCEPT ![c] = "ACKED"] /\ executed' = executed
<1>1. /\ c \in acks /\ UNCHANGED <<repo, order, rows, job, sim, executed>> /\ acks' \subseteq acks
      /\ status' = [status EXCEPT ![c] = "ACKED"]
  BY DEF ServeAck, Ack
<1>2. /\ status \in [Commands -> Statuses] /\ order \in Seq(Commands) /\ rows \in Seq(Commands)
      /\ RowsOK /\ CommandOK(c)
  BY LedgerTypes
<1>3. executed[c] = 1 /\ status[c] \in {"SENT", "ACKED"}
  BY <1>1, <1>2 DEF CommandOK
<1>4. /\ \A x \in Commands : x # c => status'[x] = status[x]
      /\ status'[c] = "ACKED"
  BY <1>1, <1>2
<1>5. /\ \A h \in Handlers : HandlerOK(h)'
      /\ \A d \in Devices : DeviceOK(d)'
  BY <1>1, <1>3, <1>4, ListsFrame
<1>6. ASSUME NEW x \in Commands PROVE CommandOK(x)'
  <2>1. CommandOK(x)
    BY LedgerTypes
  <2>2. CASE x = c
    BY <1>1, <1>3, <1>4, <2>2 DEF CommandOK
  <2>3. CASE x # c
    BY <1>1, <1>4, <2>1, <2>3 DEF CommandOK
  <2> QED
    BY <2>2, <2>3
<1>7. RowsOK'
  <2>1. \A i \in 1 .. Len(order) : status'[order[i]] \notin {"none", "inserting"}
    BY <1>2, <1>4 DEF RowsOK
  <2>2. \A i \in 1 .. Len(rows) : status'[rows[i]] \in {"PENDING", "SENT", "ACKED"}
    BY <1>2, <1>4 DEF RowsOK
  <2> QED
    BY <1>1, <1>2, <2>1, <2>2 DEF RowsOK
<1> QED
  BY <1>1, <1>3, <1>5, <1>6, <1>7 DEF LedgerInv

-----------------------------------------------------------------------------
(* Every step is one of the ledger or leaves it alone.                     *)

PhaseMap == [c \in Commands |-> Phase(c)]
RunMap == [c \in Commands |-> IF repo = "sql" THEN executed[c] ELSE 0]

LEMMA LedgerStutter ==
  ASSUME repo' = repo,
         repo # "memory" => executed' = executed /\ \A c \in Commands : Phase(c)' = Phase(c),
         repo \in {"sql", "memory"}
  PROVE  UNCHANGED Ledger!ledgerVars
<1>1. PhaseMap' = PhaseMap
  BY DEF PhaseMap, Phase
<1>2. RunMap' = RunMap
  BY DEF RunMap
<1> QED
  BY <1>1, <1>2 DEF Ledger!ledgerVars, PhaseMap, RunMap

(* The commands of S, and they alone, change their phase.                  *)
LEMMA LedgerMove ==
  ASSUME repo = "sql", repo' = repo, NEW c \in Commands, NEW from, NEW to,
         status \in [Commands -> Statuses],
         Phase(c) = from, Phase(c)' = to,
         \A x \in Commands : x # c => status'[x] = status[x]
  PROVE  Ledger!Move({c}, from, to)
<1>1. \A x \in Commands : x # c => Phase(x)' = Phase(x)
  BY DEF Phase
<1>2. PhaseMap' = [x \in Commands |-> IF x \in {c} THEN to ELSE PhaseMap[x]]
  BY <1>1 DEF PhaseMap
<1> QED
  BY <1>2 DEF Ledger!Move, PhaseMap

LEMMA LedgerStep ==
  ASSUME LedgerState, [SystemNext]_vars
  PROVE  LedgerInv' /\ [Ledger!Next]_(Ledger!ledgerVars)
<1> DEFINE Goal == LedgerInv' /\ [Ledger!Next]_(Ledger!ledgerVars)
<1>0. /\ repo = "sql" /\ repo' = repo /\ status \in [Commands -> Statuses]
      /\ executed \in [Commands -> 0 .. MaxRuns]
  BY LedgerTypes, ServerStep, TableStep DEF LedgerState, SimTypeInv
<1>1. ASSUME LedgerInv', UNCHANGED <<status, executed>> PROVE Goal
  <2>1. \A c \in Commands : Phase(c)' = Phase(c)
    BY <1>0, <1>1 DEF Phase
  <2> QED
    BY <1>0, <1>1, <2>1, LedgerStutter
<1>2. CASE UNCHANGED vars
  <2>1. UNCHANGED <<repo, status, order, rows, job, sim, executed, acks>>
    BY <1>2 DEF vars, goVars, simVars
  <2>2. LedgerInv'
    BY <2>1, HandlerFrame, NobodyServes, DeviceFrame, CommandFrame, RowsFrame, LedgerTypes
    DEF LedgerInv, DeviceOK
  <2> QED
    BY <1>1, <2>1, <2>2
<1>3. ASSUME NEW d \in Devices, Poll(d) PROVE Goal
  BY <1>1, <1>3, PollStep DEF Poll, Receive
<1>4. ASSUME NEW d \in Devices,
             PollLost(d) \/ Timeout(d) \/ InstallOta(d) \/ OtaFails(d) \/ EndCycle(d)
      PROVE  Goal
  <2>1. UNCHANGED <<status, executed>>
    BY <1>4 DEF PollLost, Timeout, InstallOta, OtaFails, EndCycle, goVars
  <2> QED
    BY <1>1, <1>4, <2>1, DeviceSteps
<1>5. ASSUME NEW d \in Devices, Execute(d) PROVE Goal
  <2>1. PICK c \in Commands : /\ executed[c] = 0 /\ status[c] = "SENT"
                              /\ executed' = [executed EXCEPT ![c] = 1]
    BY <1>5, ExecuteStep
  <2>2. status' = status
    BY <1>5 DEF Execute, goVars
  <2>3. PhaseMap' = PhaseMap /\ PhaseMap[c] = "handed"
    BY <1>0, <2>1, <2>2 DEF PhaseMap, Phase
  <2>4. RunMap' = [RunMap EXCEPT ![c] = 1] /\ RunMap[c] = 0
    BY <1>0, <2>1 DEF RunMap
  <2>5. Ledger!Execute(c)
    BY <2>3, <2>4 DEF Ledger!Execute, PhaseMap, RunMap
  <2> QED
    BY <1>5, <2>5, ExecuteStep DEF Ledger!Next
<1>6. ASSUME NEW h \in Handlers, ServerWork(h) PROVE Goal
  <2>1. UNCHANGED simVars
    BY <1>6 DEF ServerWork
  <2>2. CASE ReadConfig(h) \/ CloseRows(h) \/ EndMark(h) \/ Apply(h) \/ EndApply(h) \/ Select(h)
    <3>1. UNCHANGED <<status, executed>>
      BY <2>1, <2>2 DEF ReadConfig, CloseRows, EndMark, Apply, EndApply, Select, simVars
    <3> QED
      BY <1>1, <2>1, <2>2, <3>1, QuietWorkStep, SelectStep
  <2>3. CASE Mark(h)
    <3>1. PICK c \in Commands : status[c] = "PENDING" /\ status' = [status EXCEPT ![c] = "SENT"]
      BY <2>1, <2>3, MarkStep
    <3>2. /\ \A x \in Commands : x # c => status'[x] = status[x]
          /\ status'[c] = "SENT"
      BY <1>0, <3>1
    <3>3. Phase(c) = "waiting" /\ Phase(c)' = "handed"
      BY <1>0, <3>1, <3>2 DEF Phase
    <3>4. Ledger!Move({c}, "waiting", "handed")
      BY <1>0, <3>2, <3>3, LedgerMove
    <3>5. RunMap' = RunMap
      BY <1>0, <2>1 DEF RunMap, simVars
    <3>6. Ledger!HandOver({c}) /\ {c} \in SUBSET Commands
      BY <3>4, <3>5 DEF Ledger!HandOver, RunMap
    <3> QED
      BY <2>1, <2>3, <3>6, MarkStep DEF Ledger!Next
  <2>4. CASE SelectFails(h) \/ RowsFail(h) \/ MarkFails(h) \/ CopyPending(h)
    BY <1>0, <2>4, LedgerTypes DEF SelectFails, RowsFail, MarkFails, CopyPending
  <2> QED
    BY <1>6, <2>2, <2>3, <2>4 DEF ServerWork, Work
<1>7. ASSUME NEW h \in Handlers, Deliver(h) PROVE Goal
  BY <1>1, <1>7, DeliverStep DEF Deliver, Respond
<1>8. ASSUME NEW h \in Handlers, LoseAnswer(h) PROVE Goal
  BY <1>1, <1>8, LoseStep DEF LoseAnswer, Respond
<1>9. CASE ServerRestart
  <2>1. /\ executed' = executed
        /\ status' = [c \in Commands |-> IF status[c] \in {"inserting", "stamped"} THEN "dropped"
                                                                      ELSE status[c]]
    BY <1>0, <1>9 DEF ServerRestart, Restart
  <2>2. \A c \in Commands : Phase(c)' = Phase(c)
    BY <1>0, <2>1 DEF Phase
  <2> QED
    BY <1>0, <1>9, <2>1, <2>2, LoseStep, LedgerStutter
<1>10. ASSUME NEW c \in Commands, Operator(c) PROVE Goal
  <2>1. /\ LedgerInv'
        /\ \/ /\ status[c] \in {"none", "inserting"}
              /\ \E s \in {"inserting", "stamped"} : status' = [status EXCEPT ![c] = s]
           \/ status[c] = "stamped" /\ status' = [status EXCEPT ![c] = "PENDING"]
    BY <1>10, OperatorStep
  <2>2. executed' = executed
    BY <1>10 DEF Operator, simVars
  <2>3. \A x \in Commands : x # c => status'[x] = status[x]
    BY <1>0, <2>1
  <2>4. CASE /\ status[c] \in {"none", "inserting"}
             /\ \E s \in {"inserting", "stamped"} : status' = [status EXCEPT ![c] = s]
    <3>1. status'[c] \in {"inserting", "stamped"}
      BY <1>0, <2>4
    <3>2. \A x \in Commands : Phase(x)' = Phase(x)
      BY <1>0, <2>3, <2>4, <3>1 DEF Phase
    <3> QED
      BY <1>0, <2>1, <2>2, <3>2, LedgerStutter
  <2>5. CASE status[c] = "stamped" /\ status' = [status EXCEPT ![c] = "PENDING"]
    <3>1. status'[c] = "PENDING"
      BY <1>0, <2>5
    <3>2. Phase(c) = "none" /\ Phase(c)' = "waiting"
      BY <1>0, <2>5, <3>1 DEF Phase
    <3>3. Ledger!Move({c}, "none", "waiting")
      BY <1>0, <2>3, <3>2, LedgerMove
    <3>4. RunMap' = RunMap
      BY <1>0, <2>2 DEF RunMap
    <3>5. Ledger!Issue(c)
      BY <3>3, <3>4 DEF Ledger!Issue, RunMap
    <3> QED
      BY <2>1, <3>5 DEF Ledger!Next
  <2> QED
    BY <2>1, <2>4, <2>5
<1>11. ASSUME NEW c \in Commands, ServeAck(c) PROVE Goal
  <2>1. /\ LedgerInv' /\ executed[c] = 1 /\ status[c] \in {"SENT", "ACKED"}
        /\ status' = [status EXCEPT ![c] = "ACKED"] /\ executed' = executed
    BY <1>11, AckStep
  <2>2. /\ \A x \in Commands : x # c => status'[x] = status[x]
        /\ status'[c] = "ACKED"
    BY <1>0, <2>1
  <2>3. CASE status[c] = "ACKED"
    <3>1. \A x \in Commands : Phase(x)' = Phase(x)
      BY <1>0, <2>2, <2>3 DEF Phase
    <3> QED
      BY <1>0, <2>1, <3>1, LedgerStutter
  <2>4. CASE status[c] = "SENT"
    <3>1. Phase(c) = "handed" /\ Phase(c)' = "confirmed"
      BY <1>0, <2>2, <2>4 DEF Phase
    <3>2. Ledger!Move({c}, "handed", "confirmed")
      BY <1>0, <2>2, <3>1, LedgerMove
    <3>3. RunMap' = RunMap /\ RunMap[c] = 1
      BY <1>0, <2>1 DEF RunMap
    <3>4. Ledger!Confirm(c)
      BY <3>2, <3>3 DEF Ledger!Confirm, RunMap
    <3> QED
      BY <2>1, <3>4 DEF Ledger!Next
  <2> QED
    BY <2>1, <2>3, <2>4
<1>12. ASSUME NEW c \in Commands, LoseAck(c) PROVE Goal
  <2>1. UNCHANGED <<repo, status, order, rows, job, sim, executed>> /\ acks' \subseteq acks
    BY <1>12 DEF LoseAck, goVars
  <2>2. LedgerInv'
    BY <2>1, HandlerFrame, NobodyServes, DeviceFrame, CommandFrame, RowsFrame, LedgerTypes
    DEF LedgerInv, DeviceOK
  <2> QED
    BY <1>1, <2>1, <2>2
<1> QED
  BY <1>2, <1>3, <1>4, <1>5, <1>6, <1>7, <1>8, <1>9, <1>10, <1>11, <1>12 DEF SystemNext

LEMMA LedgerStart == SystemInit => LedgerInv
<1> SUFFICES ASSUME SystemInit PROVE LedgerInv
  OBVIOUS
<1>1. /\ \A h \in Handlers : job[h].pc = "idle"
      /\ \A d \in Devices : sim[d].inbox = <<>>
      /\ \A c \in Commands : status[c] = "none" /\ executed[c] = 0 /\ c \notin acks
      /\ order = <<>> /\ rows = <<>>
  BY DEF SystemInit, Init, IdleJob, ReadySim
<1> QED
  BY <1>1 DEF LedgerInv, HandlerOK, DeviceOK, CommandOK, RowsOK, Distinct

LEMMA LedgerKept ==
  ASSUME MaxFaults = 0, ~ OverlappingRetries
  PROVE  SimTypeInv /\ LedgerInv /\ [SystemNext]_vars => LedgerInv'
<1> SUFFICES ASSUME SimTypeInv, LedgerInv, [SystemNext]_vars PROVE LedgerInv'
  OBVIOUS
<1>1. repo' = repo
  BY ServerStep, TableStep DEF SimTypeInv
<1>2. CASE repo = "sql"
  BY <1>2, LedgerStep DEF LedgerState
<1>3. CASE repo # "sql"
  BY <1>1, <1>3 DEF LedgerInv
<1> QED
  BY <1>2, <1>3

(* GetPendingCommands, UpdateCommandStatus and the simulator: every        *)
(* command goes PENDING, SENT, ACKED and never back, is executed at most   *)
(* once and ACKED only after that, whatever is lost or restarted - as long *)
(* as no UPDATE fails and no client gives up a request still being served. *)
THEOREM CommandsKeepLedger ==
  ASSUME MaxFaults = 0, ~ OverlappingRetries
  PROVE  SystemSpec => ImplementsLedger
<1>1. SystemInit => LedgerInv /\ Ledger!Init
  <2> SUFFICES ASSUME SystemInit PROVE Ledger!Init
    BY LedgerStart
  <2>1. \A c \in Commands : status[c] = "none" /\ executed[c] = 0
    BY DEF SystemInit, Init
  <2>2. PhaseMap = [c \in Commands |-> "none"]
    BY <2>1 DEF PhaseMap, Phase
  <2>3. RunMap = [c \in Commands |-> 0]
    BY <2>1 DEF RunMap
  <2> QED
    BY <2>2, <2>3 DEF Ledger!Init, PhaseMap, RunMap
<1>2. SimTypeInv /\ LedgerInv /\ [SystemNext]_vars
        => LedgerInv' /\ [Ledger!Next]_(Ledger!ledgerVars)
  <2> SUFFICES ASSUME SimTypeInv, LedgerInv, [SystemNext]_vars
               PROVE  LedgerInv' /\ [Ledger!Next]_(Ledger!ledgerVars)
    OBVIOUS
  <2>1. repo \in {"sql", "memory"} /\ repo' = repo
    BY ServerStep, TableStep, GoAssumption DEF SimTypeInv, TypeInv, TableOK
  <2>2. CASE repo = "sql"
    BY <2>2, LedgerStep DEF LedgerState
  <2>3. CASE repo = "memory"
    BY <2>1, <2>3, LedgerStutter DEF LedgerInv
  <2> QED
    BY <2>1, <2>2, <2>3
<1> QED
  BY <1>1, <1>2, SystemInitType, SystemStepType,
     PTL DEF SystemSpec, Ledger!Spec, ImplementsLedger

-----------------------------------------------------------------------------
(* The newest interval of a device is kept (SettingIsKept).  The invariant *)
(* follows the interval from the row to the answers: the rows of a device  *)
(* are handed over oldest first, so a list that has one of them has all    *)
(* that are still due after it; the newest interval is therefore applied   *)
(* last, and once the device has executed it no list has another one.      *)

In(seq, x) == \E i \in 1 .. Len(seq) : seq[i] = x

Before(seq, x, y) ==
  \E i \in 1 .. Len(seq), k \in 1 .. Len(seq) : i < k /\ seq[i] = x /\ seq[k] = y

(* x is stamped and stored; x is before y in both respects.                *)
InTable(x) == In(order, x) /\ In(rows, x)
Earlier(x, y) == Before(order, x, y) /\ Before(rows, x, y)

Listed(h, x) == \E m \in 1 .. Len(job[h].picked) : job[h].picked[m] = x

RowSteps == {"PENDING", "SENT", "ACKED"}
ListSteps == {"rows", "mark", "apply", "reply"}

RowInTable ==
  \A x \in Commands : /\ status[x] \in RowSteps => InTable(x)
                      /\ status[x] = "stamped" => In(order, x)

(* A device never has a row that is due behind one that was handed over.   *)
TableInOrder ==
  \A x \in Commands, y \in Commands :
    Earlier(x, y) /\ Request[x].dev = Request[y].dev /\ status[x] = "PENDING"
      => status[y] = "PENDING"

(* A list has every row that is due before one of its own, and every row   *)
(* behind one of its own that is handed over already.                      *)
ListIsWhole(h) ==
  job[h].pc \in ListSteps =>
    \A x \in Commands, y \in Commands :
      Earlier(x, y) /\ Request[x].dev = job[h].dev /\ Request[y].dev = job[h].dev =>
        /\ Listed(h, y) /\ status[x] = "PENDING" => Listed(h, x)
        /\ Listed(h, x) /\ status[y] # "PENDING" => Listed(h, y)

(* No interval for the same device was stamped or stored after c, and none *)
(* is being queued.                                                        *)
Newest(c) ==
  /\ HasInterval(c)
  /\ InTable(c)
  /\ \A x \in Commands : HasInterval(x) /\ Request[x].dev = Request[c].dev =>
       /\ ~ Before(order, c, x) /\ ~ Before(rows, c, x)
       /\ status[x] \notin {"inserting", "stamped"}

(* The handler has c in its list and has not applied it yet.               *)
StillToApply(h, c) ==
  \E m \in 1 .. Len(job[h].picked) :
    /\ job[h].picked[m] = c
    /\ \/ job[h].pc = "mark"
       \/ job[h].pc = "apply" /\ m >= job[h].next

(* Once handed over, the newest interval is stored, or about to be.        *)
ConfigOK(c) ==
  Newest(c) /\ status[c] \in {"SENT", "ACKED"} =>
    \/ sleepConfigs[Request[c].dev] = Seconds(c)
    \/ \E h \in Handlers : StillToApply(h, c)

(* Once executed, it is the interval of every answer under way.            *)
ReplyOK(h, c) ==
  Newest(c) /\ Seconds(c) > 0 /\ executed[c] = 1 /\ job[h].dev = Request[c].dev =>
    /\ job[h].pc \in {"select", "rows", "mark", "apply"} => job[h].sleep = Seconds(c)
    /\ job[h].pc = "reply" => job[h].sleep \in {Seconds(c), LowBatterySleep}

SettingParts ==
  /\ RowInTable
  /\ TableInOrder
  /\ \A h \in Handlers : ListIsWhole(h)
  /\ \A c \in Commands : ConfigOK(c)
  /\ \A h \in Handlers, c \in Commands : ReplyOK(h, c)

KeptInv == repo = "sql" /\ restarts = 0 => SettingParts

(* What the lemmas below assume of a state.                                *)
SettingState == LedgerState /\ (\A h \in Handlers : OrderOK(h)) /\ SettingParts

LEMMA SettingTypes ==
  ASSUME SettingState
  PROVE  /\ LedgerState
         /\ order \in Seq(Commands) /\ Len(order) \in Nat
         /\ \A i \in 1 .. Len(order) : order[i] \in Commands
         /\ rows \in Seq(Commands) /\ Len(rows) \in Nat
         /\ RowsOK
         /\ status \in [Commands -> Statuses]
         /\ executed \in [Commands -> 0 .. MaxRuns]
         /\ sleepConfigs \in [Devices -> Nat]
         /\ job \in [Handlers -> Jobs]
         /\ \A h \in Handlers : /\ job[h] \in Jobs /\ JobOK(job[h]) /\ HandlerOK(h) /\ OrderOK(h)
                                /\ job[h].picked \in Seq(Commands)
                                /\ job[h].next \in Nat /\ job[h].sleep \in Nat
                                /\ Len(job[h].picked) \in Nat
                                /\ \A i \in 1 .. Len(job[h].picked) :
                                     job[h].picked[i] \in Commands
         /\ SettingParts
<1>1. LedgerState /\ SettingParts /\ \A h \in Handlers : OrderOK(h)
  BY DEF SettingState
<1>2. /\ order \in Seq(Commands) /\ Len(order) \in Nat
      /\ \A i \in 1 .. Len(order) : order[i] \in Commands
      /\ rows \in Seq(Commands) /\ Len(rows) \in Nat
  BY <1>1, LedgerTypes
<1>3. sleepConfigs \in [Devices -> Nat]
  BY <1>1 DEF LedgerState, SimTypeInv, TypeInv, TableOK
<1>4. ASSUME NEW h \in Handlers
      PROVE  /\ job[h] \in Jobs /\ JobOK(job[h]) /\ HandlerOK(h)
             /\ job[h].picked \in Seq(Commands)
             /\ job[h].next \in Nat /\ job[h].sleep \in Nat
             /\ Len(job[h].picked) \in Nat
             /\ \A i \in 1 .. Len(job[h].picked) : job[h].picked[i] \in Commands
  <2>1. job[h] \in Jobs /\ JobOK(job[h]) /\ HandlerOK(h) /\ job[h].picked \in Seq(Commands)
        /\ job[h].next \in Nat
    BY <1>1, LedgerTypes
  <2>2. job[h].sleep \in Nat
    BY <2>1 DEF Jobs
  <2> QED
    BY <2>1, <2>2
<1> QED
  BY <1>1, <1>2, <1>3, <1>4, LedgerTypes

(* Where every command stands once, one of two is before the other.        *)
LEMMA BeforeOrder ==
  ASSUME NEW seq \in Seq(Commands), Distinct(seq)
  PROVE  /\ \A x, y : Before(seq, x, y) => ~ Before(seq, y, x) /\ x # y
         /\ \A x, y : In(seq, x) /\ In(seq, y) /\ x # y => Before(seq, x, y) \/ Before(seq, y, x)
<1>1. /\ Len(seq) \in Nat
      /\ \A i \in 1 .. Len(seq), k \in 1 .. Len(seq) : seq[i] = seq[k] => i = k
  BY DEF Distinct
<1>2. ASSUME NEW x, NEW y, Before(seq, x, y)
      PROVE  ~ Before(seq, y, x) /\ x # y
  <2>1. PICK i \in 1 .. Len(seq), k \in 1 .. Len(seq) : i < k /\ seq[i] = x /\ seq[k] = y
    BY <1>2 DEF Before
  <2>2. x # y
    BY <1>1, <2>1
  <2>3. ASSUME NEW a \in 1 .. Len(seq), NEW b \in 1 .. Len(seq),
               a < b, seq[a] = y, seq[b] = x
        PROVE  FALSE
    <3>1. a = k /\ b = i
      BY <1>1, <2>1, <2>3
    <3> QED
      BY <1>1, <2>1, <2>3, <3>1
  <2> QED
    BY <2>2, <2>3 DEF Before
<1>3. ASSUME NEW x, NEW y, In(seq, x), In(seq, y), x # y
      PROVE  Before(seq, x, y) \/ Before(seq, y, x)
  <2>1. PICK i \in 1 .. Len(seq), k \in 1 .. Len(seq) : seq[i] = x /\ seq[k] = y
    BY <1>3 DEF In
  <2>2. i < k \/ k < i
    BY <1>1, <1>3, <2>1
  <2> QED
    BY <2>1, <2>2 DEF Before
<1> QED
  BY <1>2, <1>3

(* longer is seq with z, which joins it in the last place.                 *)
JoinedBy(longer, seq, z) ==
  /\ \A x : In(longer, x) <=> In(seq, x) \/ x = z
  /\ \A x, y : Before(longer, x, y) => x # z /\ In(seq, x) /\ (Before(seq, x, y) \/ y = z)
  /\ \A x, y : Before(seq, x, y) => Before(longer, x, y) /\ x # z /\ y # z
  /\ \A x : In(seq, x) => Before(longer, x, z)

(* The last place of a sequence is the place of a command that joins it.   *)
LEMMA BeforeGrows ==
  ASSUME NEW seq \in Seq(Commands), NEW z \in Commands,
         \A i \in 1 .. Len(seq) : seq[i] # z,
         NEW longer, longer = Append(seq, z)
  PROVE  JoinedBy(longer, seq, z)
<1>1. /\ Len(seq) \in Nat /\ Len(longer) = Len(seq) + 1 /\ longer[Len(seq) + 1] = z
      /\ \A i \in 1 .. Len(seq) : longer[i] = seq[i] /\ seq[i] # z
  OBVIOUS
<1>2. ASSUME NEW i \in 1 .. Len(longer), i # Len(seq) + 1 PROVE i \in 1 .. Len(seq)
  BY <1>1, <1>2
<1>3. ASSUME NEW i \in 1 .. Len(seq)
      PROVE  i \in 1 .. Len(longer) /\ Len(seq) + 1 \in 1 .. Len(longer) /\ i < Len(seq) + 1
  BY <1>1, <1>3
<1>4. ASSUME NEW x PROVE In(longer, x) <=> In(seq, x) \/ x = z
  <2>1. ASSUME In(longer, x) PROVE In(seq, x) \/ x = z
    <3>1. PICK i \in 1 .. Len(longer) : longer[i] = x
      BY <2>1 DEF In
    <3> QED
      BY <1>1, <1>2, <3>1 DEF In
  <2>2. ASSUME In(seq, x) PROVE In(longer, x)
    <3>1. PICK i \in 1 .. Len(seq) : seq[i] = x
      BY <2>2 DEF In
    <3> QED
      BY <1>1, <1>3, <3>1 DEF In
  <2>3. In(longer, z)
    <3>1. Len(seq) + 1 \in 1 .. Len(longer)
      BY <1>1
    <3> QED
      BY <1>1, <3>1 DEF In
  <2> QED
    BY <2>1, <2>2, <2>3
<1>5. ASSUME NEW x, NEW y, Before(longer, x, y)
      PROVE  x # z /\ In(seq, x) /\ (Before(seq, x, y) \/ y = z)
  <2>1. PICK i \in 1 .. Len(longer), k \in 1 .. Len(longer) :
          i < k /\ longer[i] = x /\ longer[k] = y
    BY <1>5 DEF Before
  <2>2. i \in 1 .. Len(seq)
    BY <1>1, <2>1
  <2>3. CASE k = Len(seq) + 1
    BY <1>1, <2>1, <2>2, <2>3 DEF In
  <2>4. CASE k # Len(seq) + 1
    BY <1>1, <1>2, <2>1, <2>2, <2>4 DEF Before, In
  <2> QED
    BY <2>3, <2>4
<1>6. ASSUME NEW x, NEW y, Before(seq, x, y) PROVE Before(longer, x, y) /\ x # z /\ y # z
  <2>1. PICK i \in 1 .. Len(seq), k \in 1 .. Len(seq) : i < k /\ seq[i] = x /\ seq[k] = y
    BY <1>6 DEF Before
  <2>2. i \in 1 .. Len(longer) /\ k \in 1 .. Len(longer)
    BY <1>3
  <2> QED
    BY <1>1, <2>1, <2>2 DEF Before
<1>7. ASSUME NEW x, In(seq, x) PROVE Before(longer, x, z)
  <2>1. PICK i \in 1 .. Len(seq) : seq[i] = x
    BY <1>7 DEF In
  <2>2. i \in 1 .. Len(longer) /\ Len(seq) + 1 \in 1 .. Len(longer) /\ i < Len(seq) + 1
    BY <1>3
  <2> QED
    BY <1>1, <2>1, <2>2 DEF Before
<1> QED
  BY <1>4, <1>5, <1>6, <1>7 DEF JoinedBy

(* Every other interval of the device is before the newest one.            *)
LEMMA NewestIsLast ==
  ASSUME SettingState, NEW c \in Commands, NEW x \in Commands, Newest(c), InTable(x),
         HasInterval(x), Request[x].dev = Request[c].dev, x # c
  PROVE  Earlier(x, c)
<1>1. /\ order \in Seq(Commands) /\ Distinct(order)
      /\ rows \in Seq(Commands) /\ Distinct(rows)
  BY SettingTypes DEF RowsOK
<1>2. /\ In(order, x) /\ In(order, c) /\ ~ Before(order, c, x)
      /\ In(rows, x) /\ In(rows, c) /\ ~ Before(rows, c, x)
  BY DEF Newest, InTable
<1>3. Before(order, x, c) /\ Before(rows, x, c)
  BY <1>1, <1>2, BeforeOrder
<1> QED
  BY <1>3 DEF Earlier

(* Of two commands of a list the one with the earlier created_at comes     *)
(* first.                                                                  *)
LEMMA ListOrder ==
  ASSUME SettingState, NEW h \in Handlers,
         NEW m \in 1 .. Len(job[h].picked), NEW n \in 1 .. Len(job[h].picked),
         Earlier(job[h].picked[m], job[h].picked[n])
  PROVE  m < n
<1> DEFINE x == job[h].picked[m]
           y == job[h].picked[n]
<1>1. /\ m \in Nat /\ n \in Nat /\ OrderOK(h)
      /\ order \in Seq(Commands) /\ Distinct(order)
  BY SettingTypes DEF RowsOK
<1>2. n < m => Before(order, y, x)
  BY <1>1 DEF OrderOK, Before
<1>3. Before(order, x, y)
  BY DEF Earlier
<1>4. ~ Before(order, y, x) /\ x # y
  BY <1>1, <1>3, BeforeOrder
<1> QED
  BY <1>1, <1>2, <1>4

(* What is listed is a row of the handler's device, due or handed over,    *)
(* and was not executed.                                                   *)
LEMMA ListedRow ==
  ASSUME SettingState, NEW h \in Handlers, NEW x, Listed(h, x), job[h].pc # "idle"
  PROVE  /\ x \in Commands /\ Request[x].dev = job[h].dev /\ InTable(x)
         /\ executed[x] = 0 /\ status[x] \in {"PENDING", "SENT"}
<1>1. PICK m \in 1 .. Len(job[h].picked) : job[h].picked[m] = x
  BY DEF Listed
<1>2. x \in Commands /\ HandlerOK(h)
  BY <1>1, SettingTypes
<1>3. Request[x].dev = job[h].dev /\ executed[x] = 0 /\ status[x] \in {"PENDING", "SENT"}
  BY <1>1, <1>2 DEF HandlerOK, ListedStatus
<1>4. InTable(x)
  BY <1>2, <1>3, SettingTypes DEF SettingParts, RowInTable, RowSteps
<1> QED
  BY <1>2, <1>3, <1>4

(* Two handlers at work serve two devices.                                 *)
LEMMA OneHandlerEach ==
  ASSUME SettingState, NEW g \in Handlers, NEW h \in Handlers, g # h,
         job[g].pc # "idle", job[h].pc # "idle"
  PROVE  job[g].dev # job[h].dev
<1>1. LedgerState
  BY DEF SettingState
<1>2. sim[job[g].dev].at = g /\ sim[job[h].dev].at = h
  BY <1>1, NobodyServes
<1> QED
  BY <1>2

(* What a SELECT returns has every PENDING row of the device.              *)
LEMMA PendingListWhole ==
  ASSUME order \in Seq(Commands),
         NEW d \in Devices,
         NEW list \in PendingLists(d),
         NEW i \in PendingRows(d)
  PROVE  \E m \in 1 .. Len(list) : list[m] = order[i]
<1> DEFINE found == PendingRows(d)
           n == Cardinality(found)
<1>1. found \subseteq 1 .. Len(order) /\ Len(order) \in Nat
  BY DEF PendingRows
<1>2. IsFiniteSet(found)
  <2>1. 1 \in Int /\ Len(order) \in Int
    BY <1>1
  <2>2. IsFiniteSet(1 .. Len(order))
    BY <2>1, FS_Interval
  <2> QED
    BY <1>1, <2>2, FS_Subset
<1>3. n \in Nat
  BY <1>2, FS_CardinalityType
<1>4. PICK f \in Ascending(found) : list = [k \in DOMAIN f |-> order[f[k]]]
  BY DEF PendingLists
<1>5. f \in [1 .. n -> found] /\ \A a, b \in DOMAIN f : a < b => f[a] < f[b]
  BY <1>4 DEF Ascending
<1>6. DOMAIN f = 1 .. n /\ list = [k \in 1 .. n |-> order[f[k]]]
  BY <1>4, <1>5
<1> HIDE DEF found, n
<1>7. \A k \in 1 .. n : f[k] \in found /\ f[k] \in Nat
  <2>1. \A r \in found : r \in Nat
    BY <1>1
  <2>2. \A k \in 1 .. n : f[k] \in found
    BY <1>5
  <2> QED
    BY <2>1, <2>2
<1>8. ASSUME NEW a \in 1 .. n, NEW b \in 1 .. n, a # b PROVE f[a] # f[b]
  <2>1. a < b \/ b < a
    BY <1>3, <1>8
  <2> QED
    BY <1>5, <1>6, <1>7, <2>1
<1>9. PICK m \in 1 .. n : f[m] = i
  <2> SUFFICES ASSUME \A m \in 1 .. n : f[m] # i PROVE FALSE
    OBVIOUS
  <2>1. f \in [1 .. n -> found \ {i}]
    BY <1>5
  <2>2. IsFiniteSet(found \ {i}) /\ Cardinality(found \ {i}) = n - 1
    BY <1>2, FS_RemoveElement DEF n, found
  <2>3. IsFiniteSet(1 .. n) /\ Cardinality(1 .. n) = n
    <3>1. 1 \in Int /\ n \in Int
      BY <1>3
    <3>2. IsFiniteSet(1 .. n) /\ Cardinality(1 .. n) = IF 1 > n THEN 0 ELSE n - 1 + 1
      BY <3>1, FS_Interval
    <3> QED
      BY <1>3, <3>2
  <2>4. Cardinality(found \ {i}) < Cardinality(1 .. n)
    BY <1>3, <2>2, <2>3
  <2> DEFINE S == 1 .. n
             T == found \ {i}
  <2>5. IsFiniteSet(S) /\ IsFiniteSet(T) /\ Cardinality(T) < Cardinality(S) /\ f \in [S -> T]
    BY <2>1, <2>2, <2>3, <2>4
  <2> HIDE DEF S, T
  <2>6. \E a, b \in S : a # b /\ f[a] = f[b]
    BY <2>5, FS_PigeonHole
  <2>7. \E a \in 1 .. n, b \in 1 .. n : a # b /\ f[a] = f[b]
    BY <2>6 DEF S
  <2> QED
    BY <1>8, <2>7
<1>10. Len(list) = n /\ list[m] = order[i]
  BY <1>3, <1>6, <1>9
<1> QED
  BY <1>10

(* Steps that leave alone a part of the invariant.                         *)
LEMMA NewestFrame ==
  ASSUME order' = order, rows' = rows,
         \A x \in Commands : status[x] \in {"inserting", "stamped"}
                              => status'[x] \in {"inserting", "stamped"},
         NEW c \in Commands, Newest(c)'
  PROVE  Newest(c)
BY DEF Newest, InTable

LEMMA TableFrame ==
  ASSUME SettingState, order' = order, rows' = rows,
         \A x \in Commands : status'[x] = "PENDING" <=> status[x] = "PENDING",
         \A x \in Commands : status'[x] = "stamped" => status[x] = "stamped",
         \A x \in Commands : status'[x] \in RowSteps => status[x] \in RowSteps
  PROVE  RowInTable' /\ TableInOrder'
BY SettingTypes DEF SettingParts, RowInTable, TableInOrder, InTable, Earlier

LEMMA ListFrame ==
  ASSUME SettingState, NEW h \in Handlers, order' = order, rows' = rows,
         \A x \in Commands :
           Request[x].dev = job[h].dev => (status'[x] = "PENDING" <=> status[x] = "PENDING"),
         job'[h].dev = job[h].dev, job'[h].picked = job[h].picked,
         job'[h].pc \in ListSteps => job[h].pc \in ListSteps
  PROVE  ListIsWhole(h)'
<1>1. ListIsWhole(h)
  BY SettingTypes DEF SettingParts
<1>2. \A x : Listed(h, x)' <=> Listed(h, x)
  BY DEF Listed
<1>3. \A x, y : Earlier(x, y)' <=> Earlier(x, y)
  BY DEF Earlier
<1> QED
  BY <1>1, <1>2, <1>3 DEF ListIsWhole

LEMMA ConfigFrame ==
  ASSUME SettingState, NEW c \in Commands,
         Newest(c)' => Newest(c),
         status'[c] \in {"SENT", "ACKED"} => status[c] \in {"SENT", "ACKED"},
         sleepConfigs'[Request[c].dev] = sleepConfigs[Request[c].dev],
         \A h \in Handlers : StillToApply(h, c) => StillToApply(h, c)'
  PROVE  ConfigOK(c)'
<1>1. ConfigOK(c)
  BY SettingTypes DEF SettingParts
<1> QED
  BY <1>1 DEF ConfigOK

LEMMA ReplyFrame ==
  ASSUME SettingState, NEW h \in Handlers, NEW c \in Commands,
         Newest(c)' => Newest(c), executed'[c] = executed[c], job'[h] = job[h]
  PROVE  ReplyOK(h, c)'
<1>1. ReplyOK(h, c)
  BY SettingTypes DEF SettingParts
<1> QED
  BY <1>1 DEF ReplyOK

(* A step of one handler that changes nothing but its own variables.       *)
LEMMA OneHandlerMoves ==
  ASSUME SettingState, NEW h \in Handlers,
         UNCHANGED <<status, order, rows, sleepConfigs, executed>>,
         \A g \in Handlers : g # h => job'[g] = job[g],
         ListIsWhole(h)',
         \A c \in Commands : StillToApply(h, c) => StillToApply(h, c)',
         \A c \in Commands : ReplyOK(h, c)'
  PROVE  SettingParts'
<1>1. \A c \in Commands : Newest(c)' => Newest(c)
  BY NewestFrame
<1>2. RowInTable' /\ TableInOrder'
  BY TableFrame
<1>3. ASSUME NEW g \in Handlers PROVE ListIsWhole(g)'
  <2>1. CASE g = h
    BY <2>1
  <2>2. CASE g # h
    BY <2>2, ListFrame
  <2> QED
    BY <2>1, <2>2
<1>4. ASSUME NEW c \in Commands PROVE ConfigOK(c)'
  <2>1. ASSUME NEW g \in Handlers, StillToApply(g, c) PROVE StillToApply(g, c)'
    <3>1. CASE g = h
      BY <2>1, <3>1
    <3>2. CASE g # h
      BY <2>1, <3>2 DEF StillToApply
    <3> QED
      BY <3>1, <3>2
  <2> QED
    BY <1>1, <2>1, ConfigFrame
<1>5. ASSUME NEW g \in Handlers, NEW c \in Commands PROVE ReplyOK(g, c)'
  <2>1. CASE g = h
    BY <2>1
  <2>2. CASE g # h
    BY <1>1, <2>2, ReplyFrame
  <2> QED
    BY <2>1, <2>2
<1> QED
  BY <1>2, <1>3, <1>4, <1>5 DEF SettingParts

(* A request arrives, or its handler ends.                                 *)
LEMMA StartOrEndKeeps ==
  ASSUME SettingState, NEW h \in Handlers,
         UNCHANGED <<status, order, rows, sleepConfigs, executed>>,
         \A g \in Handlers : g # h => job'[g] = job[g],
         job[h].pc \in {"idle", "reply"}, job'[h].pc \in {"config", "idle"}
  PROVE  SettingParts'
<1>1. ListIsWhole(h)'
  BY DEF ListIsWhole, ListSteps
<1>2. \A c \in Commands : ~ StillToApply(h, c)
  BY DEF StillToApply
<1>3. \A c \in Commands : ReplyOK(h, c)'
  BY DEF ReplyOK
<1> QED
  BY <1>1, <1>2, <1>3, OneHandlerMoves

(* A device that has executed the newest interval reads it from            *)
(* deviceSleepConfigs: no handler has it still to apply.                   *)
LEMMA ReadConfigKeeps ==
  ASSUME SettingState, NEW h \in Handlers, ReadConfig(h), UNCHANGED simVars
  PROVE  SettingParts'
<1> DEFINE stored == sleepConfigs[job[h].dev]
<1>1. job \in [Handlers -> Jobs] /\ job[h] \in Jobs /\ job[h].pc = "config"
  BY SettingTypes DEF ReadConfig
<1>2. /\ UNCHANGED <<status, order, rows, sleepConfigs, executed>>
      /\ \A g \in Handlers : g # h => job'[g] = job[g]
      /\ job'[h].pc = "select" /\ job'[h].dev = job[h].dev
      /\ job'[h].sleep = IF stored = 0 THEN DefaultSleep ELSE stored
  BY <1>1 DEF ReadConfig, Jobs, simVars
<1> HIDE DEF stored
<1>3. ListIsWhole(h)'
  BY <1>2 DEF ListIsWhole, ListSteps
<1>4. \A c \in Commands : ~ StillToApply(h, c)
  BY <1>1 DEF StillToApply
<1>5. ASSUME NEW c \in Commands, Newest(c), Seconds(c) > 0, executed[c] = 1,
             job[h].dev = Request[c].dev
      PROVE  job'[h].sleep = Seconds(c)
  <2>1. status[c] \in {"SENT", "ACKED"}
    BY <1>5, SettingTypes, LedgerTypes DEF CommandOK
  <2>2. ASSUME NEW g \in Handlers, StillToApply(g, c) PROVE FALSE
    <3>1. Listed(g, c) /\ job[g].pc # "idle"
      BY <2>2 DEF StillToApply, Listed
    <3> QED
      BY <1>5, <3>1, ListedRow
  <2>3. stored = Seconds(c)
    BY <1>5, <2>1, <2>2, SettingTypes DEF SettingParts, ConfigOK, stored
  <2>4. Seconds(c) \in Nat
    BY RequestType
  <2> QED
    BY <1>2, <1>5, <2>3, <2>4
<1>6. ASSUME NEW c \in Commands PROVE ReplyOK(h, c)'
  <2>1. Newest(c)' => Newest(c)
    BY <1>2, NewestFrame
  <2> QED
    BY <1>2, <1>5, <2>1 DEF ReplyOK
<1> QED
  BY <1>2, <1>3, <1>4, <1>6, OneHandlerMoves

(* The list of a SELECT has every PENDING row of the device, and no row    *)
(* behind a PENDING one was handed over.                                   *)
LEMMA SelectKeeps ==
  ASSUME SettingState, NEW h \in Handlers, Select(h), UNCHANGED simVars
  PROVE  SettingParts'
<1>1. /\ job \in [Handlers -> Jobs] /\ job[h] \in Jobs /\ job[h].pc = "select"
      /\ JobOK(job[h]) /\ order \in Seq(Commands)
      /\ \A i \in 1 .. Len(order) : order[i] \in Commands
  BY SettingTypes DEF Select
<1>2. /\ UNCHANGED <<status, order, rows, sleepConfigs, executed>>
      /\ \A g \in Handlers : g # h => job'[g] = job[g]
  BY <1>1 DEF Select, simVars
<1>3. PICK list \in PendingLists(job[h].dev) :
         job' = [job EXCEPT ![h].pc = "rows", ![h].picked = list]
  BY DEF Select
<1>4. /\ job'[h].pc = "rows" /\ job'[h].dev = job[h].dev /\ job'[h].picked = list
      /\ job'[h].sleep = job[h].sleep
  BY <1>1, <1>3 DEF Jobs
<1>5. job[h].dev \in Devices
  BY <1>1 DEF JobOK
<1>6. \A m \in 1 .. Len(list) : status[list[m]] = "PENDING"
  BY <1>1, <1>5, PendingListType
<1>7. ASSUME NEW x \in Commands, NEW y \in Commands, Earlier(x, y),
             Request[x].dev = job[h].dev, Request[y].dev = job[h].dev
      PROVE  /\ status[x] = "PENDING" => Listed(h, x)'
             /\ Listed(h, x)' => status[y] = "PENDING"
  <2>1. ASSUME status[x] = "PENDING" PROVE Listed(h, x)'
    <3>1. PICK i \in 1 .. Len(order) : order[i] = x
      BY <1>7 DEF Earlier, Before
    <3>2. i \in PendingRows(job[h].dev)
      BY <1>7, <2>1, <3>1 DEF PendingRows
    <3>3. \E m \in 1 .. Len(list) : list[m] = order[i]
      BY <1>1, <1>5, <3>2, PendingListWhole
    <3> QED
      BY <1>4, <3>1, <3>3 DEF Listed
  <2>2. ASSUME Listed(h, x)' PROVE status[y] = "PENDING"
    <3>1. status[x] = "PENDING"
      BY <1>4, <1>6, <2>2 DEF Listed
    <3> QED
      BY <1>7, <3>1, SettingTypes DEF SettingParts, TableInOrder
  <2> QED
    BY <2>1, <2>2
<1>8. ListIsWhole(h)'
  <2>1. \A x, y : Earlier(x, y)' <=> Earlier(x, y)
    BY <1>2 DEF Earlier
  <2> QED
    BY <1>2, <1>4, <1>7, <2>1 DEF ListIsWhole
<1>9. \A c \in Commands : ~ StillToApply(h, c)
  BY <1>1 DEF StillToApply
<1>10. ASSUME NEW c \in Commands PROVE ReplyOK(h, c)'
  <2>1. (Newest(c)' => Newest(c)) /\ ReplyOK(h, c)
    BY <1>2, NewestFrame, SettingTypes DEF SettingParts
  <2> QED
    BY <1>1, <1>2, <1>4, <2>1 DEF ReplyOK
<1> QED
  BY <1>2, <1>8, <1>9, <1>10, OneHandlerMoves

(* The handler goes to the next loop with its list; the low battery is     *)
(* the one other interval it may answer.                                   *)
LEMMA NextLoopKeeps ==
  ASSUME SettingState, NEW h \in Handlers, UNCHANGED simVars,
         CloseRows(h) \/ EndMark(h) \/ EndApply(h)
  PROVE  SettingParts'
<1>1. job \in [Handlers -> Jobs] /\ job[h] \in Jobs /\ job[h].next \in Nat
  BY SettingTypes
<1>2. /\ UNCHANGED <<status, order, rows, sleepConfigs, executed>>
      /\ \A g \in Handlers : g # h => job'[g] = job[g]
  BY <1>1 DEF CloseRows, EndMark, EndApply, simVars
<1>3. /\ job'[h].dev = job[h].dev /\ job'[h].picked = job[h].picked
      /\ \/ /\ job[h].pc = "rows" /\ job'[h].pc = "mark"
            /\ job'[h].sleep = job[h].sleep
         \/ /\ job[h].pc = "mark" /\ job'[h].pc = "apply" /\ job'[h].next = 1
            /\ job'[h].sleep = job[h].sleep
         \/ /\ job[h].pc = "apply" /\ job'[h].pc = "reply"
            /\ job[h].next > Len(job[h].picked)
            /\ job'[h].sleep \in {job[h].sleep, LowBatterySleep}
  <2>1. CASE CloseRows(h)
    BY <1>1, <2>1 DEF CloseRows, Jobs
  <2>2. CASE EndMark(h)
    BY <1>1, <2>2 DEF EndMark, Jobs
  <2>3. CASE EndApply(h)
    BY <1>1, <2>3 DEF EndApply, Jobs
  <2> QED
    BY <2>1, <2>2, <2>3
<1>4. ListIsWhole(h)'
  <2>1. job[h].pc \in ListSteps
    BY <1>3 DEF ListSteps
  <2> QED
    BY <1>2, <1>3, <2>1, ListFrame
<1>5. ASSUME NEW c \in Commands, StillToApply(h, c) PROVE StillToApply(h, c)'
  <2>1. PICK m \in 1 .. Len(job[h].picked) :
          /\ job[h].picked[m] = c
          /\ job[h].pc = "mark" \/ (job[h].pc = "apply" /\ m >= job[h].next)
    BY <1>5 DEF StillToApply
  <2>2. Len(job[h].picked) \in Nat
    BY SettingTypes
  <2>3. job'[h].pc = "apply" /\ m >= job'[h].next
    BY <1>1, <1>3, <2>1, <2>2
  <2> QED
    BY <1>3, <2>1, <2>3 DEF StillToApply
<1>6. ASSUME NEW c \in Commands PROVE ReplyOK(h, c)'
  <2>1. (Newest(c)' => Newest(c)) /\ ReplyOK(h, c)
    BY <1>2, NewestFrame, SettingTypes DEF SettingParts
  <2> QED
    BY <1>2, <1>3, <2>1 DEF ReplyOK
<1> QED
  BY <1>2, <1>4, <1>5, <1>6, OneHandlerMoves

(* The UPDATEs run through the list in its order, so the rows of a device  *)
(* are handed over oldest first.                                           *)
LEMMA MarkKeeps ==
  ASSUME SettingState, NEW h \in Handlers, Mark(h), UNCHANGED simVars
  PROVE  SettingParts'
<1> DEFINE list == job[h].picked
           n == job[h].next
           c == list[n]
<1>1. /\ job \in [Handlers -> Jobs] /\ job[h] \in Jobs /\ n \in Nat /\ Len(list) \in Nat
      /\ job[h].pc = "mark" /\ n \in 1 .. Len(list) /\ HandlerOK(h)
      /\ status \in [Commands -> Statuses]
  BY SettingTypes DEF Mark, JobOK
<1>2. /\ UNCHANGED <<order, rows, sleepConfigs, executed>>
      /\ \A g \in Handlers : g # h => job'[g] = job[g]
      /\ job'[h].pc = "mark" /\ job'[h].dev = job[h].dev /\ job'[h].picked = list
      /\ job'[h].sleep = job[h].sleep
  BY <1>1 DEF Mark, Jobs, simVars
<1>3. /\ c \in Commands /\ status[c] = "PENDING" /\ status' = [status EXCEPT ![c] = "SENT"]
      /\ LedgerState
  BY SettingTypes, MarkStep
<1>4. Listed(h, c) /\ Request[c].dev = job[h].dev
  <2>1. Listed(h, c)
    BY <1>1 DEF Listed
  <2> QED
    BY <1>1, <2>1, ListedRow
<1>5. /\ status'[c] = "SENT"
      /\ \A x \in Commands : x # c => status'[x] = status[x]
  BY <1>1, <1>3
<1>6. \A i \in 1 .. Len(list) : i < n => status[list[i]] = "SENT"
  BY <1>1 DEF HandlerOK, ListedStatus
<1>7. ASSUME NEW x \in Commands, Earlier(x, c), Request[x].dev = job[h].dev,
             status[x] = "PENDING"
      PROVE  FALSE
  <2>1. Listed(h, x)
    BY <1>1, <1>3, <1>4, <1>7, SettingTypes DEF SettingParts, ListIsWhole, ListSteps
  <2>2. PICK m \in 1 .. Len(list) : list[m] = x
    BY <2>1 DEF Listed
  <2>3. m < n
    BY <1>1, <1>7, <2>2, ListOrder
  <2> QED
    BY <1>6, <1>7, <2>2, <2>3
<1> HIDE DEF c, n, list
<1>8. \A x \in Commands : Newest(x)' => Newest(x)
  BY <1>2, <1>3, <1>5, NewestFrame
<1>9. RowInTable'
  <2>1. \A x \in Commands : /\ status'[x] \in RowSteps => status[x] \in RowSteps
                            /\ status'[x] = "stamped" => status[x] = "stamped"
    BY <1>3, <1>5 DEF RowSteps
  <2> QED
    BY <1>2, <2>1, SettingTypes DEF SettingParts, RowInTable, InTable
<1>10. TableInOrder'
  <2> SUFFICES ASSUME NEW x \in Commands, NEW y \in Commands, Earlier(x, y)',
                      Request[x].dev = Request[y].dev, status'[x] = "PENDING"
               PROVE  status'[y] = "PENDING"
    BY DEF TableInOrder
  <2>1. Earlier(x, y) /\ status[x] = "PENDING"
    BY <1>2, <1>5 DEF Earlier
  <2>2. status[y] = "PENDING"
    BY <2>1, SettingTypes DEF SettingParts, TableInOrder
  <2>3. y # c
    BY <1>4, <1>7, <2>1
  <2> QED
    BY <1>5, <2>2, <2>3
<1>11. ASSUME NEW g \in Handlers PROVE ListIsWhole(g)'
  <2>1. CASE g # h
    <3>1. CASE job[g].pc = "idle"
      BY <1>2, <2>1, <3>1 DEF ListIsWhole, ListSteps
    <3>2. CASE job[g].pc # "idle"
      <4>1. Request[c].dev # job[g].dev
        BY <1>1, <1>4, <2>1, <3>2, OneHandlerEach
      <4>2. \A x \in Commands :
              Request[x].dev = job[g].dev => (status'[x] = "PENDING" <=> status[x] = "PENDING")
        BY <1>5, <4>1
      <4> QED
        BY <1>2, <2>1, <4>2, ListFrame
    <3> QED
      BY <3>1, <3>2
  <2>2. CASE g = h
    <3>1. ListIsWhole(h)
      BY SettingTypes DEF SettingParts
    <3>2. /\ \A x, y : Earlier(x, y)' <=> Earlier(x, y)
          /\ \A x : Listed(h, x)' <=> Listed(h, x)
      BY <1>2 DEF Earlier, Listed, list
    <3>3. \A x \in Commands : status'[x] = "PENDING" => status[x] = "PENDING"
      BY <1>3, <1>5
    <3>4. \A x \in Commands : status'[x] # "PENDING" => status[x] # "PENDING" \/ x = c
      BY <1>5
    <3> QED
      BY <1>1, <1>2, <1>4, <2>2, <3>1, <3>2, <3>3, <3>4 DEF ListIsWhole, ListSteps
  <2> QED
    BY <2>1, <2>2
<1>12. ASSUME NEW x \in Commands PROVE ConfigOK(x)'
  <2>1. ASSUME NEW g \in Handlers, StillToApply(g, x) PROVE StillToApply(g, x)'
    <3>1. CASE g # h
      BY <1>2, <2>1, <3>1 DEF StillToApply
    <3>2. CASE g = h
      BY <1>2, <2>1, <3>2 DEF StillToApply, list
    <3> QED
      BY <3>1, <3>2
  <2>2. CASE x # c
    BY <1>2, <1>5, <1>8, <2>1, <2>2, ConfigFrame
  <2>3. CASE x = c
    <3>1. StillToApply(h, x)'
      BY <1>1, <1>2, <2>3 DEF StillToApply, c
    <3> QED
      BY <2>3, <3>1 DEF ConfigOK
  <2> QED
    BY <2>2, <2>3
<1>13. ASSUME NEW g \in Handlers, NEW x \in Commands PROVE ReplyOK(g, x)'
  <2>1. CASE g # h
    BY <1>2, <1>8, <2>1, ReplyFrame
  <2>2. CASE g = h
    <3>1. ReplyOK(h, x)
      BY SettingTypes DEF SettingParts
    <3> QED
      BY <1>1, <1>2, <1>8, <2>2, <3>1 DEF ReplyOK
  <2> QED
    BY <2>1, <2>2
<1> QED
  BY <1>9, <1>10, <1>11, <1>12, <1>13 DEF SettingParts

(* The newest interval is the last one of every list that has it, and no   *)
(* list has an older one once it was executed.                             *)
LEMMA ApplyKeeps ==
  ASSUME SettingState, NEW h \in Handlers, Apply(h), UNCHANGED simVars
  PROVE  SettingParts'
<1> DEFINE list == job[h].picked
           n == job[h].next
           x == list[n]
<1>1. /\ job \in [Handlers -> Jobs] /\ job[h] \in Jobs /\ n \in Nat /\ Len(list) \in Nat
      /\ job[h].pc = "apply" /\ n \in 1 .. Len(list)
      /\ sleepConfigs \in [Devices -> Nat]
  BY SettingTypes DEF Apply, JobOK
<1>2. /\ UNCHANGED <<status, order, rows, executed>>
      /\ \A g \in Handlers : g # h => job'[g] = job[g]
      /\ job'[h].pc = "apply" /\ job'[h].dev = job[h].dev /\ job'[h].picked = list
      /\ job'[h].next = n + 1
      /\ job'[h].sleep = IF HasInterval(x) THEN Seconds(x) ELSE job[h].sleep
      /\ sleepConfigs' = IF HasInterval(x) THEN [sleepConfigs EXCEPT ![job[h].dev] = Seconds(x)]
                                           ELSE sleepConfigs
  BY <1>1 DEF Apply, Jobs, simVars
<1>3. Listed(h, x)
  BY <1>1 DEF Listed
<1>4. /\ x \in Commands /\ Request[x].dev = job[h].dev /\ InTable(x) /\ executed[x] = 0
      /\ job[h].dev \in Devices
  BY <1>1, <1>3, ListedRow, RequestType
<1>5. ASSUME NEW c \in Commands, Newest(c), status[c] # "PENDING", c # x, HasInterval(x),
             Request[c].dev = job[h].dev
      PROVE  \E m \in 1 .. Len(list) : list[m] = c /\ n < m
  <2>0. x \in Commands /\ InTable(x) /\ Request[x].dev = Request[c].dev
    BY <1>4, <1>5
  <2>1. Earlier(x, c)
    BY <1>4, <1>5, <2>0, NewestIsLast
  <2>2. Listed(h, c)
    BY <1>1, <1>3, <1>4, <1>5, <2>1, SettingTypes DEF SettingParts, ListIsWhole, ListSteps
  <2>3. PICK m \in 1 .. Len(list) : list[m] = c
    BY <2>2 DEF Listed
  <2>4. n < m
    BY <1>1, <2>1, <2>3, ListOrder
  <2> QED
    BY <2>3, <2>4
<1> HIDE DEF x, n, list
<1>6. RowInTable' /\ TableInOrder'
  BY <1>2, TableFrame
<1>7. \A c \in Commands : Newest(c)' => Newest(c)
  BY <1>2, NewestFrame
<1>8. ASSUME NEW g \in Handlers PROVE ListIsWhole(g)'
  <2>1. CASE g # h
    BY <1>2, <2>1, ListFrame
  <2>2. CASE g = h
    BY <1>1, <1>2, <2>2, ListFrame DEF ListSteps, list
  <2> QED
    BY <2>1, <2>2
<1>9. ASSUME NEW c \in Commands PROVE ConfigOK(c)'
  <2>1. CASE ~ HasInterval(x)
    <3>1. ASSUME NEW g \in Handlers, StillToApply(g, c), Newest(c)
          PROVE  StillToApply(g, c)'
      <4>1. CASE g # h
        BY <1>2, <3>1, <4>1 DEF StillToApply
      <4>2. CASE g = h
        <5>1. PICK m \in 1 .. Len(list) : list[m] = c /\ m >= n
          BY <1>1, <3>1, <4>2 DEF StillToApply, list, n
        <5>2. m # n
          BY <2>1, <3>1, <5>1 DEF Newest, x
        <5>3. m >= n + 1
          BY <1>1, <5>1, <5>2
        <5> QED
          BY <1>2, <4>2, <5>1, <5>3 DEF StillToApply
      <4> QED
        BY <4>1, <4>2
    <3>2. ConfigOK(c)
      BY SettingTypes DEF SettingParts
    <3> QED
      BY <1>2, <1>7, <2>1, <3>1, <3>2 DEF ConfigOK
  <2>2. CASE HasInterval(x) /\ Request[c].dev # job[h].dev
    <3>1. ASSUME NEW g \in Handlers, StillToApply(g, c)
          PROVE  StillToApply(g, c)'
      <4>1. g # h
        <5>1. Listed(g, c) /\ job[g].pc # "idle"
          BY <3>1 DEF StillToApply, Listed
        <5> QED
          BY <2>2, <5>1, ListedRow
      <4> QED
        BY <1>2, <3>1, <4>1 DEF StillToApply
    <3>2. sleepConfigs'[Request[c].dev] = sleepConfigs[Request[c].dev]
      BY <1>1, <1>2, <1>4, <2>2, RequestType
    <3> QED
      BY <1>2, <1>7, <3>1, <3>2, ConfigFrame
  <2>3. CASE HasInterval(x) /\ Request[c].dev = job[h].dev
    <3> SUFFICES ASSUME Newest(c)', status'[c] \in {"SENT", "ACKED"}
                 PROVE  \/ sleepConfigs'[Request[c].dev] = Seconds(c)
                        \/ \E g \in Handlers : StillToApply(g, c)'
      BY DEF ConfigOK
    <3>1. Newest(c) /\ status[c] # "PENDING"
      BY <1>2, <1>7
    <3>2. CASE c = x
      BY <1>1, <1>2, <1>4, <2>3, <3>2
    <3>3. CASE c # x
      <4>1. PICK m \in 1 .. Len(list) : list[m] = c /\ n < m
        BY <1>5, <2>3, <3>1, <3>3
      <4>2. m >= n + 1
        BY <1>1, <4>1
      <4>3. StillToApply(h, c)'
        BY <1>2, <4>1, <4>2 DEF StillToApply
      <4> QED
        BY <4>3
    <3> QED
      BY <3>2, <3>3
  <2> QED
    BY <2>1, <2>2, <2>3
<1>10. ASSUME NEW g \in Handlers, NEW c \in Commands PROVE ReplyOK(g, c)'
  <2>1. CASE g # h
    BY <1>2, <1>7, <2>1, ReplyFrame
  <2>2. CASE g = h
    <3> SUFFICES ASSUME Newest(c)', Seconds(c) > 0, executed'[c] = 1,
                        job'[h].dev = Request[c].dev
                 PROVE  job'[h].sleep = Seconds(c)
      BY <1>2, <2>2 DEF ReplyOK
    <3>1. Newest(c) /\ executed[c] = 1 /\ Request[c].dev = job[h].dev
      BY <1>2, <1>7
    <3>2. job[h].sleep = Seconds(c)
      BY <1>1, <3>1, SettingTypes DEF SettingParts, ReplyOK
    <3>3. status[c] # "PENDING"
      BY <3>1, SettingTypes, LedgerTypes DEF CommandOK
    <3>4. ~ HasInterval(x)
      <4> SUFFICES ASSUME HasInterval(x) PROVE FALSE
        OBVIOUS
      <4>1. c # x
        <5>1. executed[x] # 1
          BY <1>4
        <5> QED
          BY <3>1, <5>1
      <4>2. \E m \in 1 .. Len(list) : list[m] = c /\ n < m
        BY <1>5, <3>1, <3>3, <4>1
      <4>3. Listed(h, c)
        BY <4>2 DEF Listed, list
      <4>4. executed[c] = 0
        BY <1>1, <4>3, ListedRow
      <4> QED
        BY <3>1, <4>4
    <3> QED
      BY <1>2, <3>2, <3>4
  <2> QED
    BY <2>1, <2>2
<1> QED
  BY <1>6, <1>8, <1>9, <1>10 DEF SettingParts

(* A setting under way ends the rule of the one before it.                 *)
LEMMA QueueConfigKeeps ==
  ASSUME SettingState, NEW z \in Commands, QueueConfig(z), UNCHANGED simVars
  PROVE  SettingParts'
<1>1. /\ status \in [Commands -> Statuses] /\ sleepConfigs \in [Devices -> Nat]
      /\ status[z] = "none" /\ UNCHANGED <<order, rows, job, executed>>
      /\ status' = [status EXCEPT ![z] = "inserting"]
      /\ sleepConfigs' = IF HasInterval(z)
                           THEN [sleepConfigs EXCEPT ![Request[z].dev] = Seconds(z)]
                           ELSE sleepConfigs
  BY SettingTypes DEF QueueConfig, simVars
<1>2. /\ status'[z] = "inserting"
      /\ \A x \in Commands : x # z => status'[x] = status[x]
  BY <1>1
<1>3. \A x \in Commands : Newest(x)' => Newest(x)
  BY <1>1, <1>2, NewestFrame
<1>4. /\ \A x \in Commands : status'[x] = "PENDING" <=> status[x] = "PENDING"
      /\ \A x \in Commands : status'[x] \in RowSteps => status[x] \in RowSteps
  BY <1>1, <1>2 DEF RowSteps
<1>5. RowInTable' /\ TableInOrder'
  BY <1>1, <1>4, TableFrame
<1>6. \A g \in Handlers : ListIsWhole(g)'
  BY <1>1, <1>4, ListFrame
<1>7. ASSUME NEW c \in Commands PROVE ConfigOK(c)'
  <2> SUFFICES ASSUME Newest(c)' PROVE ConfigOK(c)'
    BY DEF ConfigOK
  <2>1. ~ (HasInterval(z) /\ Request[z].dev = Request[c].dev)
    BY <1>2 DEF Newest
  <2>2. sleepConfigs'[Request[c].dev] = sleepConfigs[Request[c].dev]
    BY <1>1, <2>1, RequestType
  <2>3. status'[c] \in {"SENT", "ACKED"} => status[c] \in {"SENT", "ACKED"}
    BY <1>2
  <2>4. \A g \in Handlers : StillToApply(g, c) => StillToApply(g, c)'
    BY <1>1 DEF StillToApply
  <2> QED
    BY <1>3, <2>2, <2>3, <2>4, ConfigFrame
<1>8. \A g \in Handlers, c \in Commands : ReplyOK(g, c)'
  BY <1>1, <1>3, ReplyFrame
<1> QED
  BY <1>5, <1>6, <1>7, <1>8 DEF SettingParts

(* A command that is stamped joins the order, not the table yet.           *)
LEMMA QueueStampKeeps ==
  ASSUME SettingState, NEW z \in Commands, QueueStamp(z), UNCHANGED simVars
  PROVE  SettingParts'
<1>1. /\ status \in [Commands -> Statuses] /\ order \in Seq(Commands)
      /\ status[z] = "inserting" /\ UNCHANGED <<rows, sleepConfigs, job, executed>>
      /\ status' = [status EXCEPT ![z] = "stamped"]
      /\ order' = Append(order, z) /\ RowsOK
  BY SettingTypes DEF QueueStamp, simVars
<1>2. /\ status'[z] = "stamped"
      /\ \A x \in Commands : x # z => status'[x] = status[x]
  BY <1>1
<1>3. /\ \A i \in 1 .. Len(order) : order[i] # z
      /\ ~ In(rows, z)
  BY <1>1 DEF RowsOK, In
<1>4. /\ \A x : In(order', x) <=> In(order, x) \/ x = z
      /\ \A x, y : Before(order', x, y) => x # z /\ In(order, x) /\ (Before(order, x, y) \/ y = z)
      /\ \A x, y : Before(order, x, y) => Before(order', x, y) /\ x # z /\ y # z
  <2>1. JoinedBy(order', order, z)
    BY <1>1, <1>3, BeforeGrows
  <2> QED
    BY ONLY <2>1 DEF JoinedBy
<1>5. /\ \A x : In(rows, x)' <=> In(rows, x)
      /\ \A x, y : Before(rows, x, y)' <=> Before(rows, x, y)
      /\ \A x, y : Before(rows, x, y) => In(rows, x) /\ In(rows, y)
  BY <1>1 DEF In, Before
<1>6. /\ \A x : InTable(x)' <=> InTable(x)
      /\ \A x, y : Earlier(x, y)' <=> Earlier(x, y)
  BY <1>3, <1>4, <1>5 DEF InTable, Earlier
<1>7. ASSUME NEW c \in Commands, Newest(c)' PROVE Newest(c)
  <2>1. HasInterval(c) /\ InTable(c)
    BY <1>6, <1>7 DEF Newest
  <2>2. ASSUME NEW x \in Commands, HasInterval(x), Request[x].dev = Request[c].dev
        PROVE  /\ ~ Before(order, c, x) /\ ~ Before(rows, c, x)
               /\ status[x] \notin {"inserting", "stamped"}
    <3>1. /\ ~ Before(order', c, x) /\ ~ Before(rows', c, x)
          /\ status'[x] \notin {"inserting", "stamped"}
      BY <1>7, <2>2 DEF Newest
    <3>2. x # z
      BY <1>2, <3>1
    <3> QED
      BY <1>1, <1>2, <1>4, <3>1, <3>2
  <2> QED
    BY <2>1, <2>2 DEF Newest
<1>8. /\ \A x \in Commands : status'[x] = "PENDING" <=> status[x] = "PENDING"
      /\ \A x \in Commands : status'[x] \in RowSteps => status[x] \in RowSteps
      /\ \A x \in Commands : status'[x] \in {"SENT", "ACKED"} => status[x] \in {"SENT", "ACKED"}
  BY <1>1, <1>2 DEF RowSteps
<1>9. RowInTable'
  <2>1. ASSUME NEW x \in Commands, status'[x] = "stamped" PROVE In(order', x)
    <3>1. CASE x = z
      BY <1>4, <3>1
    <3>2. CASE x # z
      BY <1>2, <1>4, <2>1, <3>2, SettingTypes DEF SettingParts, RowInTable
    <3> QED
      BY <3>1, <3>2
  <2>2. ASSUME NEW x \in Commands, status'[x] \in RowSteps PROVE InTable(x)'
    BY <1>6, <1>8, <2>2, SettingTypes DEF SettingParts, RowInTable
  <2> QED
    BY <2>1, <2>2 DEF RowInTable
<1>10. TableInOrder'
  BY <1>6, <1>8, SettingTypes DEF SettingParts, TableInOrder
<1>11. ASSUME NEW g \in Handlers PROVE ListIsWhole(g)'
  <2>1. ListIsWhole(g) /\ \A x : Listed(g, x)' <=> Listed(g, x)
    BY <1>1, SettingTypes DEF SettingParts, Listed
  <2> QED
    BY <1>1, <1>6, <1>8, <2>1 DEF ListIsWhole
<1>12. ASSUME NEW c \in Commands PROVE ConfigOK(c)'
  <2>1. \A g \in Handlers : StillToApply(g, c) => StillToApply(g, c)'
    BY <1>1 DEF StillToApply
  <2> QED
    BY <1>1, <1>7, <1>8, <2>1, ConfigFrame
<1>13. \A g \in Handlers, c \in Commands : ReplyOK(g, c)'
  BY <1>1, <1>7, ReplyFrame
<1> QED
  BY <1>9, <1>10, <1>11, <1>12, <1>13 DEF SettingParts

(* The new row is the last one, due, in no list and not executed.          *)
LEMMA QueueInsertKeeps ==
  ASSUME SettingState, NEW z \in Commands, QueueInsert(z), UNCHANGED simVars
  PROVE  SettingParts'
<1>1. /\ status \in [Commands -> Statuses] /\ rows \in Seq(Commands)
      /\ status[z] = "stamped" /\ UNCHANGED <<order, sleepConfigs, job, executed>>
      /\ status' = [status EXCEPT ![z] = "PENDING"]
      /\ rows' = Append(rows, z) /\ RowsOK
  BY SettingTypes DEF QueueInsert, simVars
<1>2. /\ status'[z] = "PENDING"
      /\ \A x \in Commands : x # z => status'[x] = status[x]
  BY <1>1
<1>3. \A i \in 1 .. Len(rows) : rows[i] # z
  BY <1>1 DEF RowsOK
<1>4. /\ \A x : In(rows', x) <=> In(rows, x) \/ x = z
      /\ \A x, y : Before(rows', x, y) => x # z /\ In(rows, x) /\ (Before(rows, x, y) \/ y = z)
      /\ \A x, y : Before(rows, x, y) => Before(rows', x, y) /\ x # z /\ y # z
      /\ \A x : In(rows, x) => Before(rows', x, z)
  <2>1. JoinedBy(rows', rows, z)
    BY <1>1, <1>3, BeforeGrows
  <2> QED
    BY ONLY <2>1 DEF JoinedBy
<1>5. /\ \A x : In(order, x)' <=> In(order, x)
      /\ \A x, y : Before(order, x, y)' <=> Before(order, x, y)
  BY <1>1 DEF In, Before
<1>6. /\ \A x : InTable(x) => InTable(x)'
      /\ \A x : InTable(x)' => InTable(x) \/ x = z
      /\ \A x, y : Earlier(x, y)' => x # z /\ (Earlier(x, y) \/ y = z)
  BY <1>4, <1>5 DEF InTable, Earlier
<1>7. InTable(z)'
  BY <1>1, <1>4, <1>5, SettingTypes DEF SettingParts, RowInTable, InTable
<1>8. ASSUME NEW c \in Commands, c # z, Newest(c)' PROVE Newest(c)
  <2>1. HasInterval(c) /\ InTable(c)
    BY <1>6, <1>8 DEF Newest
  <2>2. ASSUME NEW x \in Commands, HasInterval(x), Request[x].dev = Request[c].dev
        PROVE  /\ ~ Before(order, c, x) /\ ~ Before(rows, c, x)
               /\ status[x] \notin {"inserting", "stamped"}
    <3>1. /\ ~ Before(order', c, x) /\ ~ Before(rows', c, x)
          /\ status'[x] \notin {"inserting", "stamped"}
      BY <1>8, <2>2 DEF Newest
    <3>2. x # z
      BY <1>4, <2>1, <3>1 DEF InTable
    <3> QED
      BY <1>1, <1>2, <1>4, <3>1, <3>2
  <2> QED
    BY <2>1, <2>2 DEF Newest
<1>9. RowInTable'
  <2>1. ASSUME NEW x \in Commands, status'[x] = "stamped" PROVE In(order, x)'
    BY <1>2, <1>5, <2>1, SettingTypes DEF SettingParts, RowInTable
  <2>2. ASSUME NEW x \in Commands, status'[x] \in RowSteps PROVE InTable(x)'
    BY <1>2, <1>6, <1>7, <2>2, SettingTypes DEF SettingParts, RowInTable
  <2> QED
    BY <2>1, <2>2 DEF RowInTable
<1>10. TableInOrder'
  <2> SUFFICES ASSUME NEW x \in Commands, NEW y \in Commands, Earlier(x, y)',
                      Request[x].dev = Request[y].dev, status'[x] = "PENDING", y # z
               PROVE  status'[y] = "PENDING"
    BY <1>2 DEF TableInOrder
  <2>1. Earlier(x, y) /\ status[x] = "PENDING" /\ status'[y] = status[y]
    BY <1>2, <1>6
  <2> QED
    BY <2>1, SettingTypes DEF SettingParts, TableInOrder
<1>11. ASSUME NEW g \in Handlers PROVE ListIsWhole(g)'
  <2>1. ListIsWhole(g) /\ \A x : Listed(g, x)' <=> Listed(g, x)
    BY <1>1, SettingTypes DEF SettingParts, Listed
  <2>2. job[g].pc # "idle" => ~ Listed(g, z)
    BY <1>1, ListedRow
  <2>3. "idle" \notin ListSteps
    BY DEF ListSteps
  <2> QED
    BY <1>1, <1>2, <1>6, <2>1, <2>2, <2>3 DEF ListIsWhole
<1>12. ASSUME NEW c \in Commands PROVE ConfigOK(c)'
  <2>1. CASE c = z
    BY <1>2, <2>1 DEF ConfigOK
  <2>2. CASE c # z
    <3>1. \A g \in Handlers : StillToApply(g, c) => StillToApply(g, c)'
      BY <1>1 DEF StillToApply
    <3> QED
      BY <1>1, <1>2, <1>8, <2>2, <3>1, ConfigFrame
  <2> QED
    BY <2>1, <2>2
<1>13. ASSUME NEW g \in Handlers, NEW c \in Commands PROVE ReplyOK(g, c)'
  <2>1. CASE c = z
    <3>1. executed'[z] # 1
      BY <1>1, SettingTypes, LedgerTypes DEF CommandOK
    <3> QED
      BY <2>1, <3>1 DEF ReplyOK
  <2>2. CASE c # z
    BY <1>1, <1>8, <2>2, ReplyFrame
  <2> QED
    BY <2>1, <2>2
<1> QED
  BY <1>9, <1>10, <1>11, <1>12, <1>13 DEF SettingParts

(* What is acknowledged was not due any more.                              *)
LEMMA AckKeeps ==
  ASSUME SettingState, NEW z \in Commands, ServeAck(z)
  PROVE  SettingParts'
<1>1. /\ status \in [Commands -> Statuses] /\ status[z] \in {"SENT", "ACKED"}
      /\ UNCHANGED <<order, rows, job, sleepConfigs, executed>>
      /\ status' = [status EXCEPT ![z] = "ACKED"]
  BY SettingTypes, AckStep DEF ServeAck, Ack
<1>2. /\ status'[z] = "ACKED"
      /\ \A x \in Commands : x # z => status'[x] = status[x]
  BY <1>1
<1>3. \A x \in Commands : Newest(x)' => Newest(x)
  BY <1>1, <1>2, NewestFrame
<1>4. /\ \A x \in Commands : status'[x] = "PENDING" <=> status[x] = "PENDING"
      /\ \A x \in Commands : status'[x] \in RowSteps => status[x] \in RowSteps
      /\ \A x \in Commands : status'[x] \in {"SENT", "ACKED"} => status[x] \in {"SENT", "ACKED"}
  BY <1>1, <1>2 DEF RowSteps
<1>5. RowInTable' /\ TableInOrder'
  BY <1>1, <1>4, TableFrame
<1>6. \A g \in Handlers : ListIsWhole(g)'
  BY <1>1, <1>4, ListFrame
<1>7. ASSUME NEW c \in Commands PROVE ConfigOK(c)'
  <2>1. \A g \in Handlers : StillToApply(g, c) => StillToApply(g, c)'
    BY <1>1 DEF StillToApply
  <2> QED
    BY <1>1, <1>3, <1>4, <2>1, ConfigFrame
<1>8. \A g \in Handlers, c \in Commands : ReplyOK(g, c)'
  BY <1>1, <1>3, ReplyFrame
<1> QED
  BY <1>5, <1>6, <1>7, <1>8 DEF SettingParts

(* No handler is at work for a device that executes a command.             *)
LEMMA ExecuteKeeps ==
  ASSUME SettingState, NEW d \in Devices, Execute(d)
  PROVE  SettingParts'
<1>1. UNCHANGED <<status, order, rows, job, sleepConfigs>> /\ sim[d].pc = "exec"
  BY DEF Execute, goVars
<1>2. PICK z \in Commands : /\ z = Head(sim[d].inbox) /\ status[z] = "SENT"
                            /\ executed' = [executed EXCEPT ![z] = 1]
  BY SettingTypes, ExecuteStep
<1>3. Request[z].dev = d
  <2>1. /\ DeviceOK(d) /\ sim[d].inbox \in Seq(Commands) /\ sim[d].inbox # <<>>
    BY SettingTypes, LedgerTypes DEF Execute
  <2>2. z = sim[d].inbox[1] /\ 1 \in 1 .. Len(sim[d].inbox)
    BY <1>2, <2>1
  <2> QED
    BY <2>1, <2>2 DEF DeviceOK
<1>4. \A x \in Commands : x # z => executed'[x] = executed[x]
  BY <1>2, SettingTypes
<1>5. \A x \in Commands : Newest(x)' => Newest(x)
  BY <1>1, NewestFrame
<1>6. RowInTable' /\ TableInOrder'
  BY <1>1, TableFrame
<1>7. \A g \in Handlers : ListIsWhole(g)'
  BY <1>1, ListFrame
<1>8. ASSUME NEW c \in Commands PROVE ConfigOK(c)'
  <2>1. \A g \in Handlers : StillToApply(g, c) => StillToApply(g, c)'
    BY <1>1 DEF StillToApply
  <2> QED
    BY <1>1, <1>5, <2>1, ConfigFrame
<1>9. ASSUME NEW g \in Handlers, NEW c \in Commands PROVE ReplyOK(g, c)'
  <2>1. CASE c # z
    BY <1>1, <1>4, <1>5, <2>1, ReplyFrame
  <2>2. CASE c = z
    <3>1. job[g].pc # "idle" => job[g].dev # d
      BY <1>1, SettingTypes, NobodyServes
    <3> QED
      BY <1>1, <1>3, <2>2, <3>1 DEF ReplyOK
  <2> QED
    BY <2>1, <2>2
<1> QED
  BY <1>6, <1>7, <1>8, <1>9 DEF SettingParts

LEMMA QuietKeeps ==
  ASSUME SettingState, UNCHANGED <<status, order, rows, job, sleepConfigs, executed>>
  PROVE  SettingParts'
<1>1. \A x \in Commands : Newest(x)' => Newest(x)
  BY NewestFrame
<1>2. RowInTable' /\ TableInOrder'
  BY TableFrame
<1>3. \A g \in Handlers : ListIsWhole(g)'
  BY ListFrame
<1>4. ASSUME NEW c \in Commands PROVE ConfigOK(c)'
  <2>1. \A g \in Handlers : StillToApply(g, c) => StillToApply(g, c)'
    BY DEF StillToApply
  <2> QED
    BY <1>1, <2>1, ConfigFrame
<1>5. \A g \in Handlers, c \in Commands : ReplyOK(g, c)'
  BY <1>1, ReplyFrame
<1> QED
  BY <1>2, <1>3, <1>4, <1>5 DEF SettingParts

LEMMA RestartsGrow ==
  ASSUME [SystemNext]_vars, restarts \in Nat
  PROVE  restarts' = 0 => restarts = 0
<1>1. CASE Restart
  BY <1>1 DEF Restart
<1>2. CASE ~ Restart
  <2>1. ASSUME Next, ~ Restart PROVE restarts' = restarts
    BY <2>1 DEF Next, Receive, Work, ReadConfig, Select, SelectFails, CloseRows, RowsFail, Mark,
                MarkFails, EndMark, CopyPending, Apply, EndApply, Respond, Queue, QueueConfig,
                QueueStamp, QueueInsert, QueueFails, QueueAppend, Ack
  <2> QED
    BY <1>2, <2>1, ServerStep DEF goVars
<1> QED
  BY <1>1, <1>2

LEMMA KeptStep ==
  ASSUME SettingState, [SystemNext]_vars, restarts = 0, restarts' = 0
  PROVE  SettingParts'
<1>0. LedgerState /\ job \in [Handlers -> Jobs] /\ repo = "sql" /\ ~ Fault
  BY SettingTypes, LedgerTypes DEF LedgerState
<1>1. CASE UNCHANGED vars
  BY <1>1, QuietKeeps DEF vars, goVars, simVars
<1>2. ASSUME NEW d \in Devices,
             PollLost(d) \/ Timeout(d) \/ InstallOta(d) \/ OtaFails(d) \/ EndCycle(d)
      PROVE  SettingParts'
  BY <1>2, QuietKeeps DEF PollLost, Timeout, InstallOta, OtaFails, EndCycle, goVars
<1>3. ASSUME NEW d \in Devices, Poll(d) PROVE SettingParts'
  <2>1. PICK h \in Handlers, b \in Batteries : Receive(h, d, b)
    BY <1>3 DEF Poll
  <2>2. UNCHANGED <<status, order, rows, sleepConfigs, executed>>
    BY <1>3 DEF Poll, Receive
  <2>3. /\ job[h].pc = "idle" /\ job'[h].pc = "config"
        /\ \A g \in Handlers : g # h => job'[g] = job[g]
    BY <1>0, <2>1 DEF Receive, IdleJob
  <2> QED
    BY <2>2, <2>3, StartOrEndKeeps
<1>4. ASSUME NEW d \in Devices, Execute(d) PROVE SettingParts'
  BY <1>4, ExecuteKeeps
<1>5. ASSUME NEW h \in Handlers, ServerWork(h) PROVE SettingParts'
  <2>1. Work(h) /\ UNCHANGED simVars
    BY <1>5 DEF ServerWork
  <2>2. ~ (SelectFails(h) \/ RowsFail(h) \/ MarkFails(h) \/ CopyPending(h))
    BY <1>0 DEF SelectFails, RowsFail, MarkFails, CopyPending
  <2> QED
    BY <2>1, <2>2, ReadConfigKeeps, SelectKeeps, NextLoopKeeps, MarkKeeps, ApplyKeeps DEF Work
<1>6. ASSUME NEW h \in Handlers, Deliver(h) \/ LoseAnswer(h) PROVE SettingParts'
  <2>1. Respond(h) /\ executed' = executed
    BY <1>6 DEF Deliver, LoseAnswer
  <2>2. UNCHANGED <<status, order, rows, sleepConfigs, executed>>
    BY <2>1 DEF Respond
  <2>3. /\ job[h].pc = "reply" /\ job'[h].pc = "idle"
        /\ \A g \in Handlers : g # h => job'[g] = job[g]
    BY <1>0, <2>1 DEF Respond, IdleJob
  <2> QED
    BY <2>2, <2>3, StartOrEndKeeps
<1>7. ASSUME NEW c \in Commands, Operator(c) PROVE SettingParts'
  <2>1. UNCHANGED simVars /\ (QueueConfig(c) \/ QueueStamp(c) \/ QueueInsert(c))
    BY <1>0, <1>7 DEF Operator, Queue, QueueFails, QueueAppend
  <2> QED
    BY <2>1, QueueConfigKeeps, QueueStampKeeps, QueueInsertKeeps
<1>8. ASSUME NEW c \in Commands, ServeAck(c) PROVE SettingParts'
  BY <1>8, AckKeeps
<1>9. ASSUME NEW c \in Commands, LoseAck(c) PROVE SettingParts'
  BY <1>9, QuietKeeps DEF LoseAck, goVars
<1>10. ~ ServerRestart
  BY DEF ServerRestart, Restart
<1> QED
  BY <1>1, <1>2, <1>3, <1>4, <1>5, <1>6, <1>7, <1>8, <1>9, <1>10 DEF SystemNext

(* The newest interval is stored before it is acknowledged, and answered   *)
(* from then on.                                                           *)
LEMMA KeptGivesSetting ==
  ASSUME SettingState PROVE SettingSurvives
<1> SUFFICES ASSUME NEW h \in Handlers, NEW c \in Commands,
                    job[h].pc = "reply", job[h].dev = Request[c].dev,
                    Settled(c), Seconds(c) > 0
             PROVE  job[h].sleep \in {Seconds(c), LowBatterySleep}
  BY DEF SettingSurvives
<1>1. executed[c] = 1
  BY SettingTypes, LedgerTypes DEF Settled, CommandOK
<1>2. LastSettingIn(order, c, Request[c].dev) /\ LastSettingIn(rows, c, Request[c].dev)
  BY DEF Settled, IsLatestSetting
<1>3. ASSUME NEW seq \in Seq(Commands), Distinct(seq), LastSettingIn(seq, c, Request[c].dev)
      PROVE  /\ HasInterval(c) /\ In(seq, c)
             /\ \A x \in Commands : HasInterval(x) /\ Request[x].dev = Request[c].dev
                                    => ~ Before(seq, c, x)
  <2>1. PICK i \in 1 .. Len(seq) :
          /\ seq[i] = c /\ HasInterval(c)
          /\ \A k \in 1 .. Len(seq) :
               Request[seq[k]].dev = Request[c].dev /\ HasInterval(seq[k]) => k <= i
    BY <1>3 DEF LastSettingIn
  <2>2. ASSUME NEW x \in Commands, HasInterval(x), Request[x].dev = Request[c].dev,
               NEW a \in 1 .. Len(seq), NEW b \in 1 .. Len(seq),
               a < b, seq[a] = c, seq[b] = x
        PROVE  FALSE
    <3>1. a = i
      BY <1>3, <2>1, <2>2 DEF Distinct
    <3>2. b <= i
      BY <2>1, <2>2
    <3>3. Len(seq) \in Nat
      OBVIOUS
    <3> QED
      BY <2>2, <3>1, <3>2, <3>3
  <2> QED
    BY <2>1, <2>2 DEF In, Before
<1>4. Newest(c)
  <2>1. /\ order \in Seq(Commands) /\ Distinct(order)
        /\ rows \in Seq(Commands) /\ Distinct(rows)
    BY SettingTypes DEF RowsOK
  <2> QED
    BY <1>2, <1>3, <2>1 DEF Newest, InTable, Settled
<1> QED
  BY <1>1, <1>4, SettingTypes DEF SettingParts, ReplyOK

(* HandleTelemetry, "persistent device setting": once the device has       *)
(* acknowledged the newest interval, every answer to it repeats that       *)
(* interval (or the low-battery one), although the command is gone - as    *)
(* long as the process lives, no UPDATE fails and no client gives up a     *)
(* request still being served.                                             *)
THEOREM NewestIntervalIsKept ==
  ASSUME MaxFaults = 0, ~ OverlappingRetries
  PROVE  SystemSpec => []SettingIsKept
<1> DEFINE OrderInv == \A g \in Handlers : OrderOK(g)
           All == SimTypeInv /\ LedgerInv /\ OrderInv /\ KeptInv
<1>1. SystemInit => All
  <2> SUFFICES ASSUME SystemInit PROVE All
    OBVIOUS
  <2>1. /\ \A h \in Handlers : job[h].pc = "idle" /\ job[h].picked = <<>>
        /\ \A c \in Commands : status[c] = "none"
        /\ order = <<>> /\ rows = <<>>
    BY DEF SystemInit, Init, IdleJob
  <2>2. OrderInv
    BY <2>1 DEF OrderOK
  <2>3. SettingParts
    BY <2>1 DEF SettingParts, RowInTable, RowSteps, TableInOrder, ListIsWhole, ListSteps,
                ConfigOK, ReplyOK, Earlier, Before
  <2> QED
    BY <2>2, <2>3, SystemInitType, LedgerStart DEF KeptInv
<1>2. All /\ [SystemNext]_vars => All'
  <2> SUFFICES ASSUME All, [SystemNext]_vars PROVE All'
    OBVIOUS
  <2>1. /\ repo' = repo /\ OrderInv' /\ SimTypeInv'
        /\ repo \in {"sql", "memory"}
        /\ restarts \in Nat /\ restarts' \in Nat
    BY ServerStep, TableStep, OrderStep, SystemStepType, GoAssumption
    DEF SimTypeInv, TypeInv, TableOK
  <2>2. restarts' = 0 => restarts = 0
    BY <2>1, RestartsGrow
  <2>3. CASE repo = "sql"
    <3>1. LedgerState
      BY <2>3 DEF LedgerState
    <3>2. LedgerInv'
      BY LedgerKept
    <3>3. ASSUME restarts' = 0 PROVE SettingParts'
      BY <2>2, <2>3, <3>1, <3>3, KeptStep DEF SettingState, KeptInv
    <3> QED
      BY <2>1, <3>2, <3>3 DEF KeptInv
  <2>4. CASE repo = "memory"
    BY <2>1, <2>4 DEF LedgerInv, KeptInv
  <2> QED
    BY <2>1, <2>3, <2>4
<1>3. All => SettingIsKept
  BY KeptGivesSetting DEF SettingIsKept, KeptInv, SettingState, LedgerState
<1> HIDE DEF All
<1> QED
  BY <1>1, <1>2, <1>3, PTL DEF SystemSpec

-----------------------------------------------------------------------------
(* ACKED is the end of a command.  The in-memory store has no UPDATE of    *)
(* the rows it lists, and with SQLRepository the UPDATE finds every row    *)
(* PENDING.                                                                *)

NoRows(g) == repo = "memory" => job[g].pc \notin {"rows", "mark"}

LEMMA NoRowsStep ==
  ASSUME TypeInv, [Next]_goVars, NEW g \in Handlers, NoRows(g)
  PROVE  NoRows(g)'
<1>0. job \in [Handlers -> Jobs] /\ repo' = repo
  BY TableStep DEF TypeInv, JobsOK
<1>1. CASE job'[g] = job[g]
  BY <1>0, <1>1 DEF NoRows
<1>2. CASE job'[g] = IdleJob
  BY <1>2 DEF NoRows, IdleJob
<1>3. CASE \E d \in Devices, b \in Batteries : Receive(g, d, b)
  BY <1>0, <1>3 DEF Receive, NoRows, IdleJob
<1>4. CASE Work(g)
  <2>1. CASE ReadConfig(g) \/ SelectFails(g) \/ CopyPending(g)
    BY <1>0, <2>1 DEF ReadConfig, SelectFails, CopyPending, NoRows, Jobs
  <2>2. CASE Select(g)
    BY <1>0, <2>2 DEF Select, NoRows
  <2>3. CASE CloseRows(g) \/ RowsFail(g) \/ Mark(g) \/ MarkFails(g)
    BY <1>0, <2>3 DEF CloseRows, RowsFail, Mark, MarkFails, NoRows
  <2>4. CASE EndMark(g) \/ Apply(g) \/ EndApply(g)
    BY <1>0, <2>4 DEF EndMark, Apply, EndApply, NoRows, Jobs
  <2> QED
    BY <1>4, <2>1, <2>2, <2>3, <2>4 DEF Work
<1> QED
  BY <1>1, <1>2, <1>3, <1>4, JobStep

LEMMA AckedStep ==
  ASSUME SimTypeInv, LedgerInv, MaxFaults = 0, ~ OverlappingRetries,
         \A g \in Handlers : NoRows(g), [Next]_goVars,
         NEW c \in Commands, status[c] = "ACKED"
  PROVE  status'[c] = "ACKED"
<1>1. TypeInv /\ status \in [Commands -> Statuses] /\ repo \in {"sql", "memory"}
  BY GoAssumption DEF SimTypeInv, TypeInv, TableOK
<1>2. ASSUME NEW h \in Handlers, Mark(h) PROVE status'[c] = "ACKED"
  <2>1. job[h].pc = "mark" /\ job[h].next <= Len(job[h].picked)
        /\ status' = [status EXCEPT ![job[h].picked[job[h].next]] = "SENT"]
    BY <1>2 DEF Mark
  <2>2. LedgerState
    BY <1>1, <2>1 DEF NoRows, LedgerState
  <2>3. /\ HandlerOK(h) /\ JobOK(job[h]) /\ job[h].next \in Nat
        /\ job[h].picked \in Seq(Commands)
    BY <2>2, LedgerTypes
  <2>4. job[h].next \in 1 .. Len(job[h].picked)
    BY <2>1, <2>3 DEF JobOK
  <2>5. status[job[h].picked[job[h].next]] = "PENDING"
    BY <2>1, <2>3, <2>4 DEF HandlerOK, ListedStatus
  <2> QED
    BY <1>1, <2>1, <2>5
<1>3. ASSUME NEW h \in Handlers, Work(h), ~ Mark(h) PROVE status' = status
  BY <1>3 DEF Work, ReadConfig, Select, SelectFails, CloseRows, RowsFail, MarkFails,
              EndMark, CopyPending, Apply, EndApply
<1>4. ASSUME NEW h \in Handlers, Respond(h) \/ \E d \in Devices, b \in Batteries : Receive(h, d, b)
      PROVE  status' = status
  BY <1>4 DEF Respond, Receive
<1>5. ASSUME NEW x \in Commands, Queue(x) \/ Ack(x) PROVE status'[c] = "ACKED"
  BY <1>1, <1>5 DEF Queue, QueueConfig, QueueStamp, QueueInsert, QueueFails, QueueAppend, Ack
<1>6. ASSUME Restart PROVE status'[c] = "ACKED"
  BY <1>6 DEF Restart
<1>7. ASSUME UNCHANGED goVars PROVE status' = status
  BY <1>7 DEF goVars
<1> QED
  BY <1>2, <1>3, <1>4, <1>5, <1>6, <1>7 DEF Next

(* docs/protocol_specification: no answer, no late UPDATE and no restart   *)
(* takes back an acknowledgement - as long as no statement fails and no    *)
(* client gives up a request still being served.                           *)
THEOREM AcknowledgedIsFinal ==
  ASSUME MaxFaults = 0, ~ OverlappingRetries
  PROVE  SystemSpec => AckedIsFinal
<1> DEFINE MemoryInv == \A g \in Handlers : NoRows(g)
           Final == \A c \in Commands : status[c] = "ACKED" => status'[c] = "ACKED"
<1>1. SystemInit => LedgerInv /\ MemoryInv
  BY LedgerStart DEF SystemInit, Init, IdleJob, NoRows
<1>2. SimTypeInv /\ LedgerInv /\ [SystemNext]_vars => LedgerInv'
  BY LedgerKept
<1>3. SimTypeInv /\ MemoryInv /\ [SystemNext]_vars => MemoryInv'
  BY ServerStep, NoRowsStep DEF SimTypeInv
<1>4. SimTypeInv /\ LedgerInv /\ MemoryInv /\ [SystemNext]_vars => Final
  BY ServerStep, AckedStep
<1> HIDE DEF MemoryInv
<1>5. SystemSpec => [](SimTypeInv /\ LedgerInv /\ MemoryInv)
  BY <1>1, <1>2, <1>3, SystemInitType, SystemStepType, PTL DEF SystemSpec
<1>6. SimTypeInv /\ LedgerInv /\ MemoryInv /\ [SystemNext]_vars => [Final]_vars
  BY <1>4
<1> HIDE DEF Final
<1>7. SystemSpec => [][Final]_vars
  BY <1>5, <1>6, PTL DEF SystemSpec
<1> QED
  BY <1>7 DEF AckedIsFinal, Final
=============================================================================
