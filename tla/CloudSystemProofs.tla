------------------------- MODULE CloudSystemProofs -------------------------
(***************************************************************************)
(* The PHP server with its ESP32 devices, for any number of devices,       *)
(* commands and requests and with every bound: types, the telemetry        *)
(* counter, and the promise of CommandLedger.                              *)
(***************************************************************************)
EXTENDS CloudSystem, FiniteSetTheorems, TLAPS

(* What the SELECT of the pending commands returns: commands of the        *)
(* device, PENDING at that moment.                                         *)
LEMMA PendingListType ==
  ASSUME order \in Seq(Commands), NEW d \in Devices, NEW list \in PendingLists(d)
  PROVE  /\ list \in Seq(Commands)
         /\ \A i \in 1 .. Len(list) : Target[list[i]] = d /\ status[list[i]] = "PENDING"
<1> DEFINE rows == PendingRows(d)
<1>1. rows \subseteq 1 .. Len(order) /\ Len(order) \in Nat
      /\ \A i \in 1 .. Len(order) : order[i] \in Commands
  BY DEF PendingRows
<1>2. Cardinality(rows) \in Nat
  <2>1. 1 \in Int /\ Len(order) \in Int
    BY <1>1
  <2>2. IsFiniteSet(1 .. Len(order))
    BY <2>1, FS_Interval
  <2> QED
    BY <1>1, <2>2, FS_Subset, FS_CardinalityType
<1>3. PICK f \in Ascending(rows) : list = [k \in DOMAIN f |-> order[f[k]]]
  BY DEF PendingLists
<1>4. f \in [1 .. Cardinality(rows) -> rows]
  BY <1>3 DEF Ascending
<1>5. list = [k \in 1 .. Cardinality(rows) |-> order[f[k]]]
      /\ \A k \in 1 .. Cardinality(rows) : f[k] \in rows
  BY <1>3, <1>4
<1>6. list \in Seq(Commands) /\ Len(list) = Cardinality(rows)
  BY <1>1, <1>2, <1>5
<1> QED
  BY <1>5, <1>6 DEF PendingRows

-----------------------------------------------------------------------------
(* Types.  A request that is served has a device and stands within its     *)
(* list; a device that acknowledges has a command to acknowledge.          *)

RequestOK(r) ==
  /\ r \in Requests
  /\ r.pc # "idle" => r.dev \in Devices
  /\ r.next \in Nat \ {0}

Esps == [pc: EspSteps, at: Workers \cup {NoWorker}, interval: 1 .. MaxInterval,
         boots: 0 .. MaxSeq, ack: Commands \cup {NoCommand}, buffered: BOOLEAN]

EspOK(e) == e \in Esps /\ (e.pc = "acking" => e.ack \in Commands)

TablesOK ==
  /\ status \in [Commands -> Statuses]
  /\ order \in Seq(Commands)
  /\ row \in [Devices -> [known: BOOLEAN, total: 0 .. MaxCount, interval: Int]]
  /\ telemetry \in [Devices -> SUBSET (0 .. MaxSeq)]
  /\ inserted \in [Devices -> 0 .. MaxCount]
  /\ faults \in 0 .. MaxFaults

ApiInv ==
  /\ TablesOK
  /\ req \in [Workers -> Requests]
  /\ \A w \in Workers : RequestOK(req[w])

SystemInv ==
  /\ ApiInv
  /\ esp \in [Devices -> Esps]
  /\ \A d \in Devices : EspOK(esp[d])
  /\ taken \in [Commands -> 0 .. 2]
  /\ acks \subseteq Commands
  /\ overlaps \in 0 .. MaxOverlaps
  /\ cycles \in 0 .. MaxPowerCycles

LEMMA IdleRequestOK == RequestOK(IdleRequest)
<1>1. <<>> \in Seq(Commands) /\ 0 \in 0 .. MaxSeq /\ 0 \in 0 .. MaxCount
  BY CloudAssumption
<1> QED
  BY <1>1 DEF RequestOK, IdleRequest, Requests, Steps

LEMMA OneRequest ==
  ASSUME ApiInv, NEW w \in Workers, NEW r, RequestOK(r), req' = [req EXCEPT ![w] = r]
  PROVE  req' \in [Workers -> Requests] /\ \A u \in Workers : RequestOK(req'[u])
<1>1. r \in Requests
  BY DEF RequestOK
<1>2. req' \in [Workers -> Requests]
  BY <1>1 DEF ApiInv
<1>3. ASSUME NEW u \in Workers PROVE RequestOK(req'[u])
  BY DEF ApiInv
<1> QED
  BY <1>2, <1>3

LEMMA IncType ==
  ASSUME NEW n \in 0 .. MaxCount
  PROVE  Inc(n) \in 0 .. MaxCount
BY CloudAssumption DEF Inc

(* The request a statement leaves, and what it does to the tables.         *)
LEMMA WorkTypes ==
  ASSUME ApiInv, NEW w \in Workers, Work(w)
  PROVE  ApiInv'
<1> DEFINE r == req[w]
<1>0. /\ r \in Requests /\ RequestOK(r) /\ TablesOK
      /\ req \in [Workers -> Requests]
  BY DEF ApiInv
<1>1. r.pc # "idle" /\ r.dev \in Devices /\ r.next \in Nat \ {0}
  BY <1>0 DEF Work, RequestOK, InsertTelemetry, SelectDevice, UpdateDevice, InsertDevice,
              SelectCommands, ApplyConfig, MarkDelivered
<1>2. /\ r.total \in 0 .. MaxCount /\ r.sleep \in Int /\ r.seq \in 0 .. MaxSeq
      /\ r.known \in BOOLEAN /\ r.picked \in Seq(Commands)
  BY <1>0 DEF Requests
<1>3. CASE InsertTelemetry(w)
  <2> DEFINE new == [r EXCEPT !.pc = "device"]
  <2>1. req' = [req EXCEPT ![w] = new]
    BY <1>3 DEF InsertTelemetry
  <2>2. RequestOK(new)
    BY <1>0, <1>1 DEF RequestOK, Requests, Steps
  <2>3. inserted' \in [Devices -> 0 .. MaxCount]
    BY <1>0, <1>3, IncType DEF InsertTelemetry, TablesOK
  <2>4. telemetry' \in [Devices -> SUBSET (0 .. MaxSeq)]
    BY <1>0, <1>2, <1>3 DEF InsertTelemetry, TablesOK
  <2> HIDE DEF new
  <2>5. req' \in [Workers -> Requests] /\ \A u \in Workers : RequestOK(req'[u])
    BY <2>1, <2>2, OneRequest
  <2> QED
    BY <1>0, <1>3, <2>3, <2>4, <2>5 DEF InsertTelemetry, ApiInv, TablesOK
<1>4. CASE SelectDevice(w)
  <2> DEFINE d == row[r.dev]
             slp == IF d.known /\ d.interval > 0 THEN d.interval ELSE r.sleep
             new == [r EXCEPT !.pc = "upsert", !.known = d.known, !.total = d.total, !.sleep = slp]
  <2>1. req' = [req EXCEPT ![w] = new]
    BY <1>4 DEF SelectDevice
  <2>2. d.known \in BOOLEAN /\ d.total \in 0 .. MaxCount /\ d.interval \in Int
    BY <1>0, <1>1 DEF TablesOK
  <2>3. slp \in Int
    BY <1>2, <2>2
  <2> HIDE DEF d, slp
  <2>4. RequestOK(new)
    BY <1>0, <1>1, <2>2, <2>3 DEF RequestOK, Requests, Steps
  <2> HIDE DEF new
  <2>5. req' \in [Workers -> Requests] /\ \A u \in Workers : RequestOK(req'[u])
    BY <2>1, <2>4, OneRequest
  <2> QED
    BY <1>0, <1>4, <2>5 DEF SelectDevice, ApiInv, TablesOK
<1>5. CASE UpdateDevice(w)
  <2> DEFINE new == [r EXCEPT !.pc = "commands"]
  <2>1. req' = [req EXCEPT ![w] = new]
    BY <1>5 DEF UpdateDevice
  <2>2. RequestOK(new)
    BY <1>0, <1>1 DEF RequestOK, Requests, Steps
  <2>3. row' \in [Devices -> [known: BOOLEAN, total: 0 .. MaxCount, interval: Int]]
    BY <1>0, <1>1, <1>2, <1>5, IncType DEF UpdateDevice, TablesOK
  <2> HIDE DEF new
  <2>4. req' \in [Workers -> Requests] /\ \A u \in Workers : RequestOK(req'[u])
    BY <2>1, <2>2, OneRequest
  <2> QED
    BY <1>0, <1>5, <2>3, <2>4 DEF UpdateDevice, ApiInv, TablesOK
<1>6. CASE InsertDevice(w)
  <2>1. PICK step \in {"error", "commands"} : req' = [req EXCEPT ![w].pc = step]
    BY <1>6 DEF InsertDevice
  <2> DEFINE new == [r EXCEPT !.pc = step]
  <2>2. req' = [req EXCEPT ![w] = new]
    BY <2>1
  <2>3. RequestOK(new)
    BY <1>0, <1>1 DEF RequestOK, Requests, Steps
  <2>4. 1 \in 0 .. MaxCount
    BY CloudAssumption
  <2>5. row' \in [Devices -> [known: BOOLEAN, total: 0 .. MaxCount, interval: Int]]
    <3>1. CASE row' = row
      BY <1>0, <3>1 DEF TablesOK
    <3>2. CASE row' = [row EXCEPT ![r.dev] = [known |-> TRUE, total |-> 1, interval |-> r.sleep]]
      <4>1. [known |-> TRUE, total |-> 1, interval |-> r.sleep]
              \in [known: BOOLEAN, total: 0 .. MaxCount, interval: Int]
        BY <1>2, <2>4
      <4> QED
        BY <1>0, <1>1, <3>2, <4>1 DEF TablesOK
    <3> QED
      BY <1>6, <3>1, <3>2 DEF InsertDevice
  <2> HIDE DEF new
  <2>6. req' \in [Workers -> Requests] /\ \A u \in Workers : RequestOK(req'[u])
    BY <2>2, <2>3, OneRequest
  <2> QED
    BY <1>0, <1>6, <2>5, <2>6 DEF InsertDevice, ApiInv, TablesOK
<1>7. CASE SelectCommands(w)
  <2>1. PICK list \in PendingLists(r.dev) :
           req' = [req EXCEPT ![w].pc = "config", ![w].picked = list]
    BY <1>7 DEF SelectCommands
  <2>2. list \in Seq(Commands)
    BY <1>0, <1>1, PendingListType DEF TablesOK
  <2> DEFINE new == [r EXCEPT !.pc = "config", !.picked = list]
  <2>3. req' = [req EXCEPT ![w] = new]
    BY <2>1
  <2>4. RequestOK(new)
    BY <1>0, <1>1, <2>2 DEF RequestOK, Requests, Steps
  <2> HIDE DEF new
  <2>5. req' \in [Workers -> Requests] /\ \A u \in Workers : RequestOK(req'[u])
    BY <2>3, <2>4, OneRequest
  <2> QED
    BY <1>0, <1>7, <2>5 DEF SelectCommands, ApiInv, TablesOK
<1>8. CASE ApplyConfig(w)
  <2> DEFINE set == Setting[r.picked[r.next]]
             after == r.next + 1
  <2>1. r.picked[r.next] \in Commands
    BY <1>1, <1>2, <1>8 DEF ApplyConfig
  <2>2. set \in Int \/ set = NoSetting
    BY <2>1, CloudAssumption
  <2>3. after \in Nat \ {0}
    BY <1>1
  <2>4. CASE set = NoSetting
    <3> DEFINE one == [r EXCEPT !.next = after]
    <3>1. req' = [req EXCEPT ![w] = one] /\ row' = row
      BY <1>8, <2>4 DEF ApplyConfig
    <3> HIDE DEF after
    <3>2. RequestOK(one)
      BY <1>0, <1>1, <2>3 DEF RequestOK, Requests
    <3> HIDE DEF one
    <3>3. req' \in [Workers -> Requests] /\ \A u \in Workers : RequestOK(req'[u])
      BY <3>1, <3>2, OneRequest
    <3> QED
      BY <1>0, <1>8, <3>1, <3>3 DEF ApplyConfig, ApiInv, TablesOK
  <2>5. CASE set # NoSetting
    <3> DEFINE two == [r EXCEPT !.next = after, !.sleep = set]
    <3>1. req' = [req EXCEPT ![w] = two] /\ row' = [row EXCEPT ![r.dev].interval = set]
      BY <1>8, <2>5 DEF ApplyConfig
    <3> HIDE DEF set, after
    <3>2. RequestOK(two)
      BY <1>0, <1>1, <2>2, <2>3, <2>5 DEF RequestOK, Requests
    <3>3. row' \in [Devices -> [known: BOOLEAN, total: 0 .. MaxCount, interval: Int]]
      BY <1>0, <1>1, <2>2, <2>5, <3>1 DEF TablesOK
    <3> HIDE DEF two
    <3>4. req' \in [Workers -> Requests] /\ \A u \in Workers : RequestOK(req'[u])
      BY <3>1, <3>2, OneRequest
    <3> QED
      BY <1>0, <1>8, <3>3, <3>4 DEF ApplyConfig, ApiInv, TablesOK
  <2> QED
    BY <2>4, <2>5
<1>9. CASE MarkDelivered(w)
  <2> DEFINE new == [r EXCEPT !.pc = "reply"]
  <2>1. req' = [req EXCEPT ![w] = new]
    BY <1>9 DEF MarkDelivered
  <2>2. RequestOK(new)
    BY <1>0, <1>1 DEF RequestOK, Requests, Steps
  <2>3. status' \in [Commands -> Statuses]
    BY <1>0, <1>9 DEF MarkDelivered, TablesOK, Statuses
  <2> HIDE DEF new
  <2>4. req' \in [Workers -> Requests] /\ \A u \in Workers : RequestOK(req'[u])
    BY <2>1, <2>2, OneRequest
  <2> QED
    BY <1>0, <1>9, <2>3, <2>4 DEF MarkDelivered, ApiInv, TablesOK
<1> QED
  BY <1>3, <1>4, <1>5, <1>6, <1>7, <1>8, <1>9 DEF Work

LEMMA EndTypes ==
  ASSUME ApiInv, NEW w \in Workers, Respond(w) \/ Killed(w) \/ Throw(w)
  PROVE  ApiInv'
<1>0. req[w] \in Requests /\ RequestOK(req[w]) /\ TablesOK /\ req \in [Workers -> Requests]
  BY DEF ApiInv
<1>1. faults' \in 0 .. MaxFaults
  BY <1>0, CloudAssumption DEF Respond, Killed, Throw, Fault, TablesOK
<1>2. UNCHANGED <<status, order, row, telemetry, inserted>>
  BY DEF Respond, Killed, Throw
<1>3. PICK new : req' = [req EXCEPT ![w] = new] /\ RequestOK(new)
  <2>1. CASE Respond(w) \/ Killed(w)
    BY <2>1, IdleRequestOK DEF Respond, Killed
  <2>2. CASE Throw(w)
    <3>1. req' = [req EXCEPT ![w] = [req[w] EXCEPT !.pc = "error"]]
      BY <2>2 DEF Throw
    <3>2. RequestOK([req[w] EXCEPT !.pc = "error"])
      BY <1>0, <2>2 DEF Throw, RequestOK, Requests, Steps
    <3> QED
      BY <3>1, <3>2
  <2> QED
    BY <2>1, <2>2
<1>4. req' \in [Workers -> Requests] /\ \A u \in Workers : RequestOK(req'[u])
  BY <1>3, OneRequest
<1> QED
  BY <1>0, <1>1, <1>2, <1>4 DEF ApiInv, TablesOK

LEMMA ReceiveTypes ==
  ASSUME ApiInv, NEW w \in Workers, NEW d \in Devices, NEW seq \in 0 .. MaxSeq,
         NEW interval \in Int, Receive(w, d, seq, interval)
  PROVE  ApiInv'
<1> DEFINE new == [IdleRequest EXCEPT !.pc = "insert", !.dev = d, !.seq = seq, !.sleep = interval]
<1>1. req' = [req EXCEPT ![w] = new]
  BY DEF Receive
<1>2. RequestOK(new)
  BY IdleRequestOK DEF RequestOK, Requests, Steps
<1> HIDE DEF new
<1>3. req' \in [Workers -> Requests] /\ \A u \in Workers : RequestOK(req'[u])
  BY <1>1, <1>2, OneRequest
<1> QED
  BY <1>3 DEF Receive, ApiInv, TablesOK

LEMMA OperatorTypes ==
  ASSUME ApiInv
  PROVE  /\ \A c \in Commands : QueueCommand(c) \/ QueueThrows(c) \/ Ack(c) => ApiInv'
         /\ \A D : ClearTelemetry(D) => ApiInv'
<1>1. ASSUME NEW c \in Commands, QueueCommand(c) \/ QueueThrows(c) \/ Ack(c) PROVE ApiInv'
  <2>1. status' \in [Commands -> Statuses]
    BY <1>1 DEF QueueCommand, QueueThrows, Ack, ApiInv, TablesOK, Statuses
  <2>2. order' \in Seq(Commands) /\ faults' \in 0 .. MaxFaults
    <3>1. CASE QueueCommand(c)
      BY <3>1 DEF QueueCommand, ApiInv, TablesOK
    <3>2. CASE QueueThrows(c)
      BY <3>2, CloudAssumption DEF QueueThrows, Fault, ApiInv, TablesOK
    <3>3. CASE Ack(c)
      BY <3>3 DEF Ack, ApiInv, TablesOK
    <3> QED
      BY <1>1, <3>1, <3>2, <3>3
  <2> QED
    BY <1>1, <2>1, <2>2 DEF QueueCommand, QueueThrows, Ack, ApiInv, TablesOK
<1>2. ASSUME NEW D, ClearTelemetry(D) PROVE ApiInv'
  <2>1. telemetry' \in [Devices -> SUBSET (0 .. MaxSeq)]
    BY <1>2 DEF ClearTelemetry, ApiInv, TablesOK
  <2> QED
    BY <1>2, <2>1 DEF ClearTelemetry, ApiInv, TablesOK
<1> QED
  BY <1>1, <1>2

LEMMA SystemInitType == SystemInit => SystemInv
<1> SUFFICES ASSUME SystemInit PROVE SystemInv
  OBVIOUS
<1>1. ApiInv
  <2>1. NoRow \in [known: BOOLEAN, total: 0 .. MaxCount, interval: Int]
    BY CloudAssumption DEF NoRow
  <2>2. TablesOK
    BY <2>1, CloudAssumption DEF SystemInit, Init, TablesOK, Statuses
  <2>3. IdleRequest \in Requests
    BY IdleRequestOK DEF RequestOK
  <2> QED
    BY <2>2, <2>3, IdleRequestOK DEF SystemInit, Init, ApiInv
<1>2. EspOK(OffEsp) /\ OffEsp \in Esps
  BY CloudAssumption, SystemAssumption DEF EspOK, OffEsp, Esps, EspSteps
<1>3. 0 \in 0 .. MaxOverlaps /\ 0 \in 0 .. MaxPowerCycles
  BY SystemAssumption
<1> QED
  BY <1>1, <1>2, <1>3 DEF SystemInit, SystemInv

LEMMA OneEsp ==
  ASSUME SystemInv, NEW d \in Devices, NEW e, EspOK(e), esp' = [esp EXCEPT ![d] = e]
  PROVE  esp' \in [Devices -> Esps] /\ \A x \in Devices : EspOK(esp'[x])
<1>1. e \in Esps
  BY DEF EspOK
<1>2. esp' \in [Devices -> Esps]
  BY <1>1 DEF SystemInv
<1>3. ASSUME NEW x \in Devices PROVE EspOK(esp'[x])
  BY DEF SystemInv
<1> QED
  BY <1>2, <1>3

(* Every step of a device leaves it in a state it may be in.               *)
LEMMA DeviceTypes ==
  ASSUME SystemInv, NEW d \in Devices, Device(d)
  PROVE  SystemInv'
<1>0. /\ esp[d] \in Esps /\ EspOK(esp[d]) /\ ApiInv
      /\ esp[d].boots \in 0 .. MaxSeq /\ esp[d].interval \in 1 .. MaxInterval
      /\ MaxSeq \in Nat /\ MaxInterval \in Nat
  <2>1. esp[d] \in Esps /\ EspOK(esp[d]) /\ ApiInv
    BY DEF SystemInv
  <2>2. MaxSeq \in Nat /\ MaxInterval \in Nat
    BY CloudAssumption, SystemAssumption
  <2> QED
    BY <2>1, <2>2 DEF Esps
<1>1. ASSUME NEW e, EspOK(e), esp' = [esp EXCEPT ![d] = e], ApiInv', taken' = taken,
             acks' \subseteq Commands, overlaps' \in 0 .. MaxOverlaps,
             cycles' \in 0 .. MaxPowerCycles
      PROVE  SystemInv'
  <2>1. esp' \in [Devices -> Esps] /\ \A x \in Devices : EspOK(esp'[x])
    BY <1>1, OneEsp
  <2> QED
    BY <1>1, <2>1 DEF SystemInv
<1>2. UNCHANGED apiVars => ApiInv'
  BY <1>0 DEF apiVars, ApiInv, TablesOK
<1>3. acks \subseteq Commands /\ overlaps \in 0 .. MaxOverlaps /\ cycles \in 0 .. MaxPowerCycles
  BY DEF SystemInv
<1>4. CASE Wake(d)
  <2> DEFINE up == IF esp[d].boots < MaxSeq THEN esp[d].boots + 1 ELSE esp[d].boots
             e == [esp[d] EXCEPT !.pc = "awake", !.buffered = FALSE, !.boots = up]
  <2>1. esp' = [esp EXCEPT ![d] = e] /\ UNCHANGED <<apiVars, taken, acks, overlaps, cycles>>
    BY <1>4 DEF Wake
  <2>2. up \in 0 .. MaxSeq
    BY <1>0
  <2> HIDE DEF up
  <2>3. EspOK(e)
    BY <1>0, <2>2 DEF EspOK, Esps, EspSteps
  <2> HIDE DEF e
  <2> QED
    BY <1>1, <1>2, <1>3, <2>1, <2>3
<1>5. ASSUME NEW step \in {"done", "waiting", "asleep"}, NEW b \in BOOLEAN,
             esp' = [esp EXCEPT ![d] = [esp[d] EXCEPT !.pc = step, !.buffered = b]],
             UNCHANGED <<apiVars, taken, acks, overlaps, cycles>>
      PROVE  SystemInv'
  <2> DEFINE e == [esp[d] EXCEPT !.pc = step, !.buffered = b]
  <2>1. EspOK(e)
    BY <1>0 DEF EspOK, Esps, EspSteps
  <2>2. esp' = [esp EXCEPT ![d] = e]
    BY <1>5
  <2> HIDE DEF e
  <2> QED
    BY <1>1, <1>2, <1>3, <1>5, <2>1, <2>2
<1>6. CASE Offline(d) \/ BeginFails(d) \/ PostLost(d) \/ DeepSleep(d)
  <2>1. esp[d] = [esp[d] EXCEPT !.buffered = esp[d].buffered] /\ esp[d].buffered \in BOOLEAN
    BY <1>0 DEF Esps
  <2>2. \/ esp' = [esp EXCEPT ![d] = [esp[d] EXCEPT !.pc = "done", !.buffered = TRUE]]
        \/ esp' = [esp EXCEPT ![d] = [esp[d] EXCEPT !.pc = "done"]]
        \/ esp' = [esp EXCEPT ![d] = [esp[d] EXCEPT !.pc = "waiting"]]
        \/ esp' = [esp EXCEPT ![d] = [esp[d] EXCEPT !.pc = "asleep", !.buffered = FALSE]]
    BY <1>6 DEF Offline, BeginFails, PostLost, DeepSleep
  <2>3. \A step \in {"done", "waiting"} :
          [esp[d] EXCEPT !.pc = step] = [esp[d] EXCEPT !.pc = step, !.buffered = esp[d].buffered]
    BY <1>0 DEF Esps
  <2>4. UNCHANGED <<apiVars, taken, acks, overlaps, cycles>>
    BY <1>6 DEF Offline, BeginFails, PostLost, DeepSleep
  <2> QED
    BY <1>5, <2>1, <2>2, <2>3, <2>4
<1>7. CASE Post(d)
  <2>1. PICK w \in Workers : /\ Receive(w, d, esp[d].boots, esp[d].interval)
                             /\ esp' = [esp EXCEPT ![d].pc = "waiting", ![d].at = w]
    BY <1>7 DEF Post
  <2> DEFINE e == [esp[d] EXCEPT !.pc = "waiting", !.at = w]
  <2>2. EspOK(e)
    BY <1>0 DEF EspOK, Esps, EspSteps
  <2>3. esp' = [esp EXCEPT ![d] = e]
    BY <2>1
  <2>4. ApiInv'
    BY <1>0, <2>1, ReceiveTypes
  <2> HIDE DEF e
  <2> QED
    BY <1>1, <1>3, <1>7, <2>2, <2>3, <2>4 DEF Post
<1>8. CASE Timeout(d)
  <2> DEFINE e == [esp[d] EXCEPT !.pc = "done", !.at = NoWorker, !.buffered = TRUE]
  <2>1. EspOK(e)
    BY <1>0 DEF EspOK, Esps, EspSteps
  <2>2. esp' = [esp EXCEPT ![d] = e] /\ UNCHANGED <<apiVars, taken, acks, cycles>>
    BY <1>8 DEF Timeout
  <2>3. overlaps' \in 0 .. MaxOverlaps
    BY <1>3, <1>8, SystemAssumption DEF Timeout
  <2> HIDE DEF e
  <2> QED
    BY <1>1, <1>2, <1>3, <2>1, <2>2, <2>3
<1>9. CASE SendAck(d)
  <2> DEFINE e == [esp[d] EXCEPT !.pc = "done", !.ack = NoCommand]
  <2>1. EspOK(e)
    BY <1>0 DEF EspOK, Esps, EspSteps
  <2>2. esp' = [esp EXCEPT ![d] = e] /\ UNCHANGED <<apiVars, taken, overlaps, cycles>>
    BY <1>9 DEF SendAck
  <2>3. acks' \subseteq Commands
    BY <1>0, <1>3, <1>9 DEF SendAck, EspOK
  <2> HIDE DEF e
  <2> QED
    BY <1>1, <1>2, <1>3, <2>1, <2>2, <2>3
<1>10. CASE PowerCycle(d)
  <2>1. EspOK(OffEsp)
    BY CloudAssumption, SystemAssumption DEF EspOK, OffEsp, Esps, EspSteps
  <2>2. cycles' \in 0 .. MaxPowerCycles
    BY <1>3, <1>10, SystemAssumption DEF PowerCycle
  <2> QED
    BY <1>1, <1>2, <1>3, <1>10, <2>1, <2>2 DEF PowerCycle
<1> QED
  BY <1>4, <1>6, <1>7, <1>8, <1>9, <1>10 DEF Device

(* The answer: only an interval in range is obeyed.                        *)
LEMMA DeliverTypes ==
  ASSUME SystemInv, NEW w \in Workers, Deliver(w)
  PROVE  /\ SystemInv'
         /\ req[w].dev \in Devices /\ esp[req[w].dev].at = w
         /\ \/ req[w].picked = <<>> /\ taken' = taken
               /\ esp'[req[w].dev].pc = "done"
            \/ /\ Head(req[w].picked) \in Commands /\ req[w].picked # <<>>
               /\ esp'[req[w].dev].pc = "acking"
               /\ esp'[req[w].dev].ack = Head(req[w].picked)
               /\ taken' = [taken EXCEPT ![Head(req[w].picked)] = IF @ < 2 THEN @ + 1 ELSE @]
         /\ esp'[req[w].dev].at = NoWorker
         /\ \A d \in Devices : d # req[w].dev => esp'[d] = esp[d]
<1> DEFINE d == req[w].dev
           told == IF req[w].sleep \in 1 .. MaxInterval THEN req[w].sleep ELSE esp[d].interval
           heard == [esp[d] EXCEPT !.at = NoWorker, !.interval = told]
           done == [heard EXCEPT !.pc = "done"]
           acking == [heard EXCEPT !.pc = "acking", !.ack = Head(req[w].picked)]
<1>1. d \in Devices /\ req[w].picked \in Seq(Commands)
  <2>1. RequestOK(req[w])
    BY DEF SystemInv, ApiInv
  <2> QED
    BY <2>1 DEF RequestOK, Requests, Deliver
<1>2. esp[d] \in Esps /\ esp[d].at = w
  BY <1>1 DEF SystemInv, Deliver
<1>3. told \in 1 .. MaxInterval
  BY <1>2 DEF Esps
<1>4. ApiInv'
  BY EndTypes DEF Deliver, SystemInv
<1>5. UNCHANGED <<acks, overlaps, cycles>>
  BY DEF Deliver
<1>6. \/ /\ req[w].picked = <<>>
         /\ esp' = [esp EXCEPT ![d] = done]
         /\ taken' = taken
      \/ /\ req[w].picked # <<>>
         /\ esp' = [esp EXCEPT ![d] = acking]
         /\ taken' = [taken EXCEPT ![Head(req[w].picked)] = IF @ < 2 THEN @ + 1 ELSE @]
  BY DEF Deliver
<1> HIDE DEF told
<1>7. heard \in Esps /\ heard.at = NoWorker
  BY <1>2, <1>3 DEF Esps
<1> HIDE DEF heard
<1>8. EspOK(done) /\ done.at = NoWorker /\ done.pc = "done"
  BY <1>7 DEF Esps, EspOK, EspSteps
<1>9. req[w].picked # <<>> => Head(req[w].picked) \in Commands
  BY <1>1
<1>10. req[w].picked # <<>> =>
         /\ EspOK(acking) /\ acking.at = NoWorker
         /\ acking.pc = "acking" /\ acking.ack = Head(req[w].picked)
  BY <1>7, <1>9 DEF Esps, EspOK, EspSteps
<1> HIDE DEF done, acking, d
<1>11. CASE req[w].picked = <<>>
  <2>1. esp' = [esp EXCEPT ![d] = done] /\ taken' = taken
    BY <1>6, <1>11
  <2>2. esp' \in [Devices -> Esps] /\ \A x \in Devices : EspOK(esp'[x])
    BY <1>1, <1>8, <2>1, OneEsp
  <2>3. SystemInv'
    BY <1>4, <1>5, <2>1, <2>2 DEF SystemInv
  <2>4. esp'[d] = done /\ \A x \in Devices : x # d => esp'[x] = esp[x]
    BY <1>1, <2>1 DEF SystemInv
  <2> QED
    BY <1>1, <1>2, <1>8, <1>11, <2>1, <2>3, <2>4 DEF d
<1>12. CASE req[w].picked # <<>>
  <2> DEFINE c == Head(req[w].picked)
  <2>1. /\ esp' = [esp EXCEPT ![d] = acking]
        /\ taken' = [taken EXCEPT ![c] = IF @ < 2 THEN @ + 1 ELSE @]
    BY <1>6, <1>12
  <2>2. esp' \in [Devices -> Esps] /\ \A x \in Devices : EspOK(esp'[x])
    BY <1>1, <1>10, <1>12, <2>1, OneEsp
  <2>3. taken' \in [Commands -> 0 .. 2]
    BY <1>9, <1>12, <2>1 DEF SystemInv
  <2>4. SystemInv'
    BY <1>4, <1>5, <2>2, <2>3 DEF SystemInv
  <2>5. esp'[d] = acking /\ \A x \in Devices : x # d => esp'[x] = esp[x]
    BY <1>1, <2>1 DEF SystemInv
  <2> QED
    BY <1>1, <1>2, <1>9, <1>10, <1>12, <2>1, <2>4, <2>5 DEF d
<1> QED
  BY <1>11, <1>12

(* A device loses the request it waits for: it waits for nobody.           *)
LEMMA LoseTypes ==
  ASSUME SystemInv, NEW w \in Workers,
         esp' = [d \in Devices |-> IF esp[d].at = w THEN [esp[d] EXCEPT !.at = NoWorker]
                                                   ELSE esp[d]],
         ApiInv', UNCHANGED <<taken, acks, overlaps, cycles>>
  PROVE  SystemInv'
<1>1. ASSUME NEW d \in Devices PROVE EspOK(esp'[d])
  <2>1. EspOK(esp[d]) /\ esp[d] \in Esps
    BY DEF SystemInv
  <2>2. EspOK([esp[d] EXCEPT !.at = NoWorker])
    BY <2>1 DEF EspOK, Esps
  <2> QED
    BY <2>1, <2>2
<1>2. esp' \in [Devices -> Esps]
  BY <1>1 DEF EspOK
<1> QED
  BY <1>1, <1>2 DEF SystemInv

LEMMA SystemStepType == SystemInv /\ [SystemNext]_vars => SystemInv'
<1> SUFFICES ASSUME SystemInv, [SystemNext]_vars PROVE SystemInv'
  OBVIOUS
<1>0. ApiInv
  BY DEF SystemInv
<1>1. CASE UNCHANGED vars
  <2>1. ApiInv'
    BY <1>0, <1>1 DEF vars, apiVars, ApiInv, TablesOK
  <2> QED
    BY <1>1, <2>1 DEF vars, SystemInv
<1>2. ASSUME NEW w \in Workers, DeliverError(w) PROVE SystemInv'
  <2> DEFINE d == req[w].dev
             e == [esp[d] EXCEPT !.pc = "done", !.at = NoWorker]
  <2>1. d \in Devices
    <3>1. RequestOK(req[w])
      BY <1>0 DEF ApiInv
    <3> QED
      BY <1>2, <3>1 DEF RequestOK, DeliverError
  <2>2. esp[d] \in Esps /\ EspOK(esp[d])
    BY <2>1 DEF SystemInv
  <2>3. EspOK(e) /\ esp' = [esp EXCEPT ![d] = e]
    BY <1>2, <2>2 DEF DeliverError, EspOK, Esps, EspSteps
  <2> HIDE DEF e
  <2>4. esp' \in [Devices -> Esps] /\ \A x \in Devices : EspOK(esp'[x])
    BY <2>1, <2>3, OneEsp
  <2>5. ApiInv'
    BY <1>0, <1>2, EndTypes DEF DeliverError
  <2> QED
    BY <1>2, <2>4, <2>5 DEF DeliverError, SystemInv
<1>3. ASSUME NEW w \in Workers, LoseAnswer(w) \/ WorkerKilled(w) PROVE SystemInv'
  <2>1. ApiInv'
    BY <1>0, <1>3, EndTypes DEF LoseAnswer, WorkerKilled
  <2> QED
    BY <1>3, <2>1, LoseTypes DEF LoseAnswer, WorkerKilled
<1>4. ASSUME ApiInv', UNCHANGED <<esp, taken, overlaps, cycles>>, acks' \subseteq acks
      PROVE  SystemInv'
  BY <1>4 DEF SystemInv
<1>5. ASSUME NEW w \in Workers, ServerStep(Work(w)) \/ ServerStep(Throw(w)) PROVE SystemInv'
  BY <1>0, <1>4, <1>5, WorkTypes, EndTypes DEF ServerStep
<1>6. ASSUME NEW c \in Commands,
             ServeAck(c) \/ ServerStep(QueueCommand(c)) \/ ServerStep(QueueThrows(c))
      PROVE  SystemInv'
  BY <1>0, <1>4, <1>6, OperatorTypes DEF ServerStep, ServeAck
<1>7. ASSUME NEW c \in Commands, LoseAck(c) PROVE SystemInv'
  <2>1. ApiInv'
    BY <1>0, <1>7 DEF LoseAck, apiVars, ApiInv, TablesOK
  <2> QED
    BY <1>4, <1>7, <2>1 DEF LoseAck
<1>8. ASSUME NEW D, ServerStep(ClearTelemetry(D)) PROVE SystemInv'
  BY <1>0, <1>4, <1>8, OperatorTypes DEF ServerStep
<1> QED
  BY <1>1, <1>2, <1>3, <1>5, <1>6, <1>7, <1>8, DeliverTypes, DeviceTypes DEF SystemNext

(* Every variable keeps its type; a device never sleeps for zero seconds   *)
(* or for longer than MaxInterval, whatever it is answered.                *)
THEOREM SystemTypeCorrect == SystemSpec => []SystemTypeOK
<1>1. SystemInv => SystemTypeOK
  BY DEF SystemInv, ApiInv, TablesOK, SystemTypeOK, TypeOK, Esps
<1> QED
  BY <1>1, SystemInitType, SystemStepType, PTL DEF SystemSpec

-----------------------------------------------------------------------------
(* The telemetry counter.  TotalNeverAhead is not inductive: a request may *)
(* carry a total it read long ago.  The requests between their INSERT and  *)
(* their UPDATE are inserted telemetries the row does not count yet, and   *)
(* neither the row nor any total that was read is ahead of the others.     *)

Uncounted(d) == {w \in Workers : req[w].pc \in {"device", "upsert"} /\ req[w].dev = d}

CounterOK(d) ==
  \/ inserted[d] = MaxCount
  \/ /\ row[d].total + Cardinality(Uncounted(d)) <= inserted[d]
     /\ \A w \in Uncounted(d) :
          req[w].pc = "upsert" => req[w].total + Cardinality(Uncounted(d)) <= inserted[d]

CounterInv == \A d \in Devices : CounterOK(d)

LEMMA CounterTypes ==
  ASSUME ApiInv, NEW d \in Devices
  PROVE  /\ row[d].total \in 0 .. MaxCount /\ inserted[d] \in 0 .. MaxCount
         /\ \A w \in Workers : req[w].total \in 0 .. MaxCount
         /\ IsFiniteSet(Uncounted(d)) /\ Cardinality(Uncounted(d)) \in Nat
         /\ MaxCount \in Nat \ {0}
<1>1. row[d].total \in 0 .. MaxCount /\ inserted[d] \in 0 .. MaxCount
  BY DEF ApiInv, TablesOK
<1>2. \A w \in Workers : req[w].total \in 0 .. MaxCount
  BY DEF ApiInv, Requests
<1>3. IsFiniteSet(Uncounted(d))
  BY CloudAssumption, FS_Subset DEF Uncounted
<1> QED
  BY <1>1, <1>2, <1>3, CloudAssumption, FS_CardinalityType

(* A step that counts nothing: requests may only stop being uncounted.     *)
LEMMA CounterFrame ==
  ASSUME ApiInv, NEW d \in Devices, CounterOK(d),
         row'[d].total = row[d].total, inserted'[d] = inserted[d],
         \A w \in Workers : req'[w].pc \in {"device", "upsert"} =>
           req'[w].pc = req[w].pc /\ req'[w].dev = req[w].dev /\ req'[w].total = req[w].total
  PROVE  CounterOK(d)'
<1>1. Uncounted(d)' \subseteq Uncounted(d)
  BY DEF Uncounted
<1>2. Cardinality(Uncounted(d)') <= Cardinality(Uncounted(d)) /\ Cardinality(Uncounted(d)') \in Nat
  BY <1>1, CounterTypes, FS_Subset, FS_CardinalityType
<1>3. ASSUME NEW w \in Uncounted(d)', req'[w].pc = "upsert"
      PROVE  w \in Uncounted(d) /\ req[w].pc = "upsert" /\ req'[w].total = req[w].total
             /\ req[w].total \in 0 .. MaxCount
  BY <1>3, CounterTypes DEF Uncounted
<1>4. row[d].total \in 0 .. MaxCount /\ inserted[d] \in 0 .. MaxCount
      /\ Cardinality(Uncounted(d)) \in Nat /\ MaxCount \in Nat
  BY CounterTypes
<1>5. CASE inserted[d] = MaxCount
  BY <1>5 DEF CounterOK
<1>6. CASE inserted[d] # MaxCount
  <2>1. row'[d].total + Cardinality(Uncounted(d)') <= inserted'[d]
    BY <1>2, <1>4, <1>6 DEF CounterOK
  <2>2. \A w \in Uncounted(d)' :
          req'[w].pc = "upsert" => req'[w].total + Cardinality(Uncounted(d)') <= inserted'[d]
    BY <1>2, <1>3, <1>4, <1>6 DEF CounterOK
  <2> QED
    BY <2>1, <2>2 DEF CounterOK
<1> QED
  BY <1>5, <1>6

LEMMA CounterInsert ==
  ASSUME ApiInv, CounterInv, NEW w \in Workers, InsertTelemetry(w)
  PROVE  CounterInv'
<1>0. req \in [Workers -> Requests] /\ req[w] \in Requests /\ RequestOK(req[w])
  BY DEF ApiInv
<1>1. PICK d \in Devices : d = req[w].dev
  BY <1>0 DEF InsertTelemetry, RequestOK
<1>2. /\ req[w].pc = "insert" /\ row' = row
      /\ req'[w].pc = "device" /\ req'[w].dev = d
      /\ \A u \in Workers : u # w => req'[u] = req[u]
  BY <1>0, <1>1 DEF InsertTelemetry, Requests
<1>3. /\ inserted'[d] = Inc(inserted[d])
      /\ \A e \in Devices : e # d => inserted'[e] = inserted[e]
  BY <1>1 DEF InsertTelemetry, ApiInv, TablesOK
<1>4. ASSUME NEW e \in Devices, e # d PROVE CounterOK(e)'
  <2>1. Uncounted(e)' = Uncounted(e)
    BY <1>1, <1>2, <1>4 DEF Uncounted
  <2>2. \A u \in Uncounted(e) : req'[u] = req[u]
    BY <1>2 DEF Uncounted
  <2> QED
    BY <1>2, <1>3, <1>4, <2>1, <2>2 DEF CounterInv, CounterOK
<1>5. CounterOK(d)'
  <2>1. Uncounted(d)' = Uncounted(d) \cup {w} /\ w \notin Uncounted(d)
    BY <1>2 DEF Uncounted
  <2>2. Cardinality(Uncounted(d)') = Cardinality(Uncounted(d)) + 1
    BY <2>1, CounterTypes, FS_AddElement
  <2>3. row[d].total \in 0 .. MaxCount /\ inserted[d] \in 0 .. MaxCount
        /\ Cardinality(Uncounted(d)) \in Nat /\ MaxCount \in Nat
        /\ \A u \in Workers : req[u].total \in 0 .. MaxCount
    BY CounterTypes
  <2>4. CASE ~ inserted[d] < MaxCount
    BY <1>3, <2>3, <2>4 DEF CounterOK, Inc
  <2>5. CASE inserted[d] < MaxCount
    <3>1. inserted'[d] = inserted[d] + 1
      BY <1>3, <2>5 DEF Inc
    <3>2. inserted[d] # MaxCount
      BY <2>3, <2>5
    <3>3. row'[d].total + Cardinality(Uncounted(d)') <= inserted'[d]
      BY <1>2, <2>2, <2>3, <3>1, <3>2 DEF CounterInv, CounterOK
    <3>4. ASSUME NEW u \in Uncounted(d)', req'[u].pc = "upsert"
          PROVE  req'[u].total + Cardinality(Uncounted(d)') <= inserted'[d]
      <4>1. u \in Uncounted(d) /\ u \in Workers /\ req'[u] = req[u]
        BY <1>2, <2>1, <3>4 DEF Uncounted
      <4> QED
        BY <2>2, <2>3, <3>1, <3>2, <3>4, <4>1 DEF CounterInv, CounterOK
    <3> QED
      BY <3>3, <3>4 DEF CounterOK
  <2> QED
    BY <2>4, <2>5
<1> QED
  BY <1>4, <1>5 DEF CounterInv

LEMMA CounterRead ==
  ASSUME ApiInv, CounterInv, NEW w \in Workers, SelectDevice(w)
  PROVE  CounterInv'
<1>0. req \in [Workers -> Requests] /\ req[w] \in Requests /\ RequestOK(req[w])
  BY DEF ApiInv
<1>1. PICK d \in Devices : d = req[w].dev
  BY <1>0 DEF SelectDevice, RequestOK
<1>2. /\ req[w].pc = "device" /\ row' = row /\ inserted' = inserted
      /\ req'[w].pc = "upsert" /\ req'[w].dev = d /\ req'[w].total = row[d].total
      /\ \A u \in Workers : u # w => req'[u] = req[u]
  BY <1>0, <1>1 DEF SelectDevice, Requests
<1>3. ASSUME NEW e \in Devices PROVE CounterOK(e)'
  <2>1. Uncounted(e)' = Uncounted(e)
    BY <1>1, <1>2 DEF Uncounted
  <2>2. CASE e = d
    <3>1. CASE inserted[d] = MaxCount
      BY <1>2, <2>2, <3>1 DEF CounterOK
    <3>2. CASE inserted[d] # MaxCount
      <4>1. row[d].total + Cardinality(Uncounted(d)) <= inserted[d]
            /\ \A u \in Uncounted(d) :
                 req[u].pc = "upsert" => req[u].total + Cardinality(Uncounted(d)) <= inserted[d]
        BY <3>2 DEF CounterInv, CounterOK
      <4>2. \A u \in Uncounted(d) : u \in Workers
        BY DEF Uncounted
      <4>3. \A u \in Uncounted(d) :
              req'[u].pc = "upsert" => req'[u].total + Cardinality(Uncounted(d)) <= inserted[d]
        BY <1>2, <4>1, <4>2
      <4> QED
        BY <1>2, <2>1, <2>2, <4>1, <4>3 DEF CounterOK
    <3> QED
      BY <3>1, <3>2
  <2>3. CASE e # d
    <3>1. \A u \in Uncounted(e) : req'[u] = req[u]
      BY <1>1, <1>2, <2>3 DEF Uncounted
    <3> QED
      BY <1>2, <2>1, <3>1 DEF CounterInv, CounterOK
  <2> QED
    BY <2>2, <2>3
<1> QED
  BY <1>3 DEF CounterInv

LEMMA CounterWrite ==
  ASSUME ApiInv, CounterInv, NEW w \in Workers, UpdateDevice(w) \/ InsertDevice(w)
  PROVE  CounterInv'
<1>0. req \in [Workers -> Requests] /\ req[w] \in Requests /\ RequestOK(req[w])
      /\ req[w].pc = "upsert"
  BY DEF ApiInv, UpdateDevice, InsertDevice
<1>1. PICK d \in Devices : d = req[w].dev
  BY <1>0 DEF RequestOK
<1>2. /\ inserted' = inserted /\ req'[w].pc \in {"commands", "error"}
      /\ \A u \in Workers : u # w => req'[u] = req[u]
  BY <1>0 DEF UpdateDevice, InsertDevice, Requests
<1>3. /\ \A e \in Devices : e # d => row'[e] = row[e]
      /\ row'[d].total \in {row[d].total, Inc(req[w].total), 1}
  BY <1>1 DEF UpdateDevice, InsertDevice, ApiInv, TablesOK
<1>4. ASSUME NEW e \in Devices, e # d PROVE CounterOK(e)'
  <2>1. \A u \in Workers : req'[u].pc \in {"device", "upsert"} => req'[u] = req[u]
    BY <1>2
  <2> QED
    BY <1>2, <1>3, <1>4, <2>1, CounterFrame DEF CounterInv
<1>5. CounterOK(d)'
  <2>1. w \in Uncounted(d) /\ Uncounted(d)' = Uncounted(d) \ {w}
    BY <1>0, <1>1, <1>2 DEF Uncounted
  <2>2. Cardinality(Uncounted(d)') = Cardinality(Uncounted(d)) - 1
    BY <2>1, CounterTypes, FS_RemoveElement
  <2>3. row[d].total \in 0 .. MaxCount /\ inserted[d] \in 0 .. MaxCount
        /\ Cardinality(Uncounted(d)) \in Nat /\ MaxCount \in Nat
        /\ \A u \in Workers : req[u].total \in 0 .. MaxCount
    BY CounterTypes
  <2>4. CASE inserted[d] = MaxCount
    BY <1>2, <2>4 DEF CounterOK
  <2>5. CASE inserted[d] # MaxCount
    <3>1. /\ row[d].total + Cardinality(Uncounted(d)) <= inserted[d]
          /\ req[w].total + Cardinality(Uncounted(d)) <= inserted[d]
      BY <1>0, <2>1, <2>5 DEF CounterInv, CounterOK
    <3>2. Inc(req[w].total) <= req[w].total + 1 /\ Inc(req[w].total) \in Nat
      BY <2>3 DEF Inc
    <3>3. row'[d].total + Cardinality(Uncounted(d)') <= inserted'[d]
      <4>1. CASE row'[d].total = row[d].total
        BY <1>2, <2>2, <2>3, <3>1, <4>1
      <4>2. CASE row'[d].total = Inc(req[w].total)
        BY <1>2, <2>2, <2>3, <3>1, <3>2, <4>2
      <4>3. CASE row'[d].total = 1
        BY <1>2, <2>2, <2>3, <3>1, <4>3
      <4> QED
        BY <1>3, <4>1, <4>2, <4>3
    <3>4. ASSUME NEW u \in Uncounted(d)', req'[u].pc = "upsert"
          PROVE  req'[u].total + Cardinality(Uncounted(d)') <= inserted'[d]
      <4>1. u \in Uncounted(d) /\ u \in Workers /\ req'[u] = req[u]
        BY <1>2, <2>1 DEF Uncounted
      <4>2. req[u].total + Cardinality(Uncounted(d)) <= inserted[d]
        BY <2>5, <3>4, <4>1 DEF CounterInv, CounterOK
      <4> QED
        BY <1>2, <2>2, <2>3, <4>1, <4>2
    <3> QED
      BY <3>3, <3>4 DEF CounterOK
  <2> QED
    BY <2>4, <2>5
<1> QED
  BY <1>4, <1>5 DEF CounterInv

LEMMA CounterStep == SystemInv /\ CounterInv /\ [SystemNext]_vars => CounterInv'
<1> SUFFICES ASSUME SystemInv, CounterInv, [SystemNext]_vars PROVE CounterInv'
  OBVIOUS
<1>0. /\ ApiInv /\ req \in [Workers -> Requests]
      /\ row \in [Devices -> [known: BOOLEAN, total: 0 .. MaxCount, interval: Int]]
  BY DEF SystemInv, ApiInv, TablesOK
<1>1. ASSUME \A d \in Devices : row'[d].total = row[d].total, inserted' = inserted,
             \A w \in Workers : req'[w].pc \in {"device", "upsert"} =>
               req'[w].pc = req[w].pc /\ req'[w].dev = req[w].dev
                 /\ req'[w].total = req[w].total
      PROVE  CounterInv'
  BY <1>0, <1>1, CounterFrame DEF CounterInv
<1>2. ASSUME row' = row, inserted' = inserted, req' = req PROVE CounterInv'
  BY <1>1, <1>2
<1>3. ASSUME NEW w \in Workers, Respond(w) \/ Killed(w) \/ Throw(w) PROVE CounterInv'
  <2>1. /\ \A u \in Workers : u # w => req'[u] = req[u]
        /\ req'[w].pc \in {"idle", "error"}
    BY <1>0, <1>3 DEF Respond, Killed, Throw, IdleRequest, Requests
  <2>2. row' = row /\ inserted' = inserted
    BY <1>3 DEF Respond, Killed, Throw
  <2>3. \A u \in Workers : req'[u].pc \in {"device", "upsert"} => req'[u] = req[u]
    BY <2>1
  <2> QED
    BY <1>1, <2>2, <2>3
<1>4. ASSUME NEW d \in Devices, Device(d) PROVE CounterInv'
  <2>1. CASE UNCHANGED apiVars
    BY <1>2, <2>1 DEF apiVars
  <2>2. CASE Post(d)
    <3>1. PICK w \in Workers : Receive(w, d, esp[d].boots, esp[d].interval)
      BY <2>2 DEF Post
    <3>2. /\ \A u \in Workers : u # w => req'[u] = req[u]
          /\ req'[w].pc = "insert"
      BY <1>0, <3>1 DEF Receive, IdleRequest
    <3>3. row' = row /\ inserted' = inserted
      BY <3>1 DEF Receive
    <3>4. \A u \in Workers : req'[u].pc \in {"device", "upsert"} => req'[u] = req[u]
      BY <3>2
    <3> QED
      BY <1>1, <3>3, <3>4
  <2> QED
    BY <1>4, <2>1, <2>2
    DEF Device, Wake, Offline, BeginFails, PostLost, Timeout, SendAck, DeepSleep, PowerCycle
<1>5. ASSUME NEW w \in Workers, Work(w) PROVE CounterInv'
  <2>1. CASE InsertTelemetry(w) \/ SelectDevice(w) \/ UpdateDevice(w) \/ InsertDevice(w)
    BY <1>0, <2>1, CounterInsert, CounterRead, CounterWrite
  <2>2. CASE SelectCommands(w) \/ ApplyConfig(w) \/ MarkDelivered(w)
    <3>1. \A u \in Workers : u # w => req'[u] = req[u]
      BY <1>0, <2>2 DEF SelectCommands, ApplyConfig, MarkDelivered
    <3>2. req'[w].pc \in {"config", "reply"}
      BY <1>0, <2>2 DEF SelectCommands, ApplyConfig, MarkDelivered, Requests
    <3>3. inserted' = inserted /\ \A d \in Devices : row'[d].total = row[d].total
      <4>1. CASE row' = row
        BY <2>2, <4>1 DEF SelectCommands, ApplyConfig, MarkDelivered
      <4>2. ASSUME NEW new, row' = [row EXCEPT ![req[w].dev].interval = new]
            PROVE  \A d \in Devices : row'[d].total = row[d].total
        BY <1>0, <4>2
      <4> QED
        BY <2>2, <4>1, <4>2 DEF SelectCommands, ApplyConfig, MarkDelivered
    <3>4. \A u \in Workers : req'[u].pc \in {"device", "upsert"} => req'[u] = req[u]
      BY <3>1, <3>2
    <3> QED
      BY <1>1, <3>3, <3>4
  <2> QED
    BY <1>5, <2>1, <2>2 DEF Work
<1>6. ASSUME NEW w \in Workers,
             Deliver(w) \/ DeliverError(w) \/ LoseAnswer(w) \/ WorkerKilled(w)
               \/ ServerStep(Work(w)) \/ ServerStep(Throw(w))
      PROVE  CounterInv'
  BY <1>3, <1>5, <1>6 DEF Deliver, DeliverError, LoseAnswer, WorkerKilled, ServerStep
<1>7. ASSUME NEW c \in Commands,
             ServeAck(c) \/ LoseAck(c) \/ ServerStep(QueueCommand(c))
               \/ ServerStep(QueueThrows(c))
      PROVE  CounterInv'
  BY <1>2, <1>7 DEF ServeAck, LoseAck, ServerStep, QueueCommand, QueueThrows, Ack, apiVars
<1>8. ASSUME NEW D, ServerStep(ClearTelemetry(D)) PROVE CounterInv'
  BY <1>2, <1>8 DEF ServerStep, ClearTelemetry
<1>9. CASE UNCHANGED vars
  BY <1>2, <1>9 DEF vars, apiVars
<1> QED
  BY <1>4, <1>6, <1>7, <1>8, <1>9 DEF SystemNext

(* The SELECT and the UPDATE of total_telemetries: whichever requests      *)
(* overlap, throw or die between the two, the row never counts a telemetry *)
(* that was not inserted.                                                  *)
THEOREM TotalIsNeverAhead == SystemSpec => []TotalNeverAhead
<1>1. SystemInit => CounterInv
  <2> SUFFICES ASSUME SystemInit, NEW d \in Devices PROVE CounterOK(d)
    BY DEF CounterInv
  <2>1. Uncounted(d) = {} /\ row[d].total = 0 /\ inserted[d] = 0
    BY DEF SystemInit, Init, Uncounted, IdleRequest, NoRow
  <2>2. Cardinality(Uncounted(d)) = 0
    BY <2>1, FS_EmptySet
  <2> QED
    BY <2>1, <2>2 DEF CounterOK
<1>2. SystemInv /\ CounterInv => TotalNeverAhead
  <2> SUFFICES ASSUME SystemInv, CounterInv, NEW d \in Devices PROVE row[d].total <= inserted[d]
    BY DEF TotalNeverAhead
  <2>1. /\ row[d].total \in 0 .. MaxCount /\ inserted[d] \in 0 .. MaxCount
        /\ Cardinality(Uncounted(d)) \in Nat /\ MaxCount \in Nat
    BY CounterTypes DEF SystemInv
  <2> QED
    BY <2>1 DEF CounterInv, CounterOK
<1> QED
  BY <1>1, <1>2, SystemInitType, SystemStepType, CounterStep, PTL DEF SystemSpec

-----------------------------------------------------------------------------
(* The promise of CommandLedger.  Requests of one device may overlap, and  *)
(* several may have the same command in their lists; but a device takes a  *)
(* command from the answer it waits for only, and what that answer lists   *)
(* was not taken before.                                                   *)

(* The request the device waits for is served for it, and none of the      *)
(* commands it lists was taken; in a finished answer all are DELIVERED.    *)
ListOK(w, d) ==
  /\ req[w].pc # "idle"
  /\ req[w].dev = d
  /\ \A i \in 1 .. Len(req[w].picked) :
       /\ Target[req[w].picked[i]] = d
       /\ taken[req[w].picked[i]] = 0
       /\ status[req[w].picked[i]] \in {"PENDING", "DELIVERED"}
       /\ req[w].pc = "reply" => status[req[w].picked[i]] = "DELIVERED"

WaitOK(d) ==
  /\ \A w \in Workers : esp[d].at = w => esp[d].pc = "waiting" /\ ListOK(w, d)
  /\ esp[d].pc = "acking" => taken[esp[d].ack] = 1

(* What was taken was handed over before; what is acknowledged was taken   *)
(* before.                                                                 *)
TakenOK(c) ==
  /\ taken[c] \in {0, 1}
  /\ taken[c] = 1 => status[c] \in {"DELIVERED", "ACKED"}
  /\ status[c] = "ACKED" => taken[c] = 1
  /\ c \in acks => taken[c] = 1

LedgerInv ==
  /\ \A d \in Devices : WaitOK(d)
  /\ \A c \in Commands : TakenOK(c)

LEMMA LedgerTypes ==
  ASSUME SystemInv, LedgerInv
  PROVE  /\ req \in [Workers -> Requests] /\ esp \in [Devices -> Esps]
         /\ status \in [Commands -> Statuses] /\ taken \in [Commands -> 0 .. 2]
         /\ acks \subseteq Commands /\ order \in Seq(Commands)
         /\ \A w \in Workers : /\ RequestOK(req[w]) /\ req[w].picked \in Seq(Commands)
                               /\ w # NoWorker
         /\ \A d \in Devices : WaitOK(d) /\ EspOK(esp[d])
         /\ \A c \in Commands : TakenOK(c)
<1>1. \A w \in Workers : RequestOK(req[w]) /\ req[w].picked \in Seq(Commands) /\ w # NoWorker
  BY SystemAssumption DEF SystemInv, ApiInv, Requests
<1> QED
  BY <1>1 DEF SystemInv, ApiInv, TablesOK, LedgerInv

(* What a step may do to a list a device waits for: nothing, or mark       *)
(* commands DELIVERED.                                                     *)
LEMMA ListFrame ==
  ASSUME SystemInv, LedgerInv, NEW w \in Workers, NEW d \in Devices, ListOK(w, d),
         req'[w].pc # "idle", req'[w].dev = req[w].dev, req'[w].picked = req[w].picked,
         req'[w].pc = "reply" => req[w].pc = "reply",
         \A i \in 1 .. Len(req[w].picked) :
           /\ taken'[req[w].picked[i]] = taken[req[w].picked[i]]
           /\ status'[req[w].picked[i]] = status[req[w].picked[i]]
                \/ status'[req[w].picked[i]] = "DELIVERED"
  PROVE  ListOK(w, d)'
BY DEF ListOK

LEMMA TakenFrame ==
  ASSUME SystemInv, LedgerInv, taken' = taken,
         \A c \in Commands : \/ status'[c] = status[c]
                             \/ status[c] # "ACKED" /\ taken[c] = 0 /\ status'[c] # "ACKED",
         \A c \in Commands : c \in acks' => taken[c] = 1
  PROVE  \A c \in Commands : TakenOK(c)'
<1> SUFFICES ASSUME NEW c \in Commands PROVE TakenOK(c)'
  OBVIOUS
<1>1. TakenOK(c)
  BY LedgerTypes
<1> QED
  BY <1>1 DEF TakenOK

(* A device that goes on waits for the request it waited for or for none.  *)
LEMMA DeviceLedger ==
  ASSUME SystemInv, LedgerInv, NEW d \in Devices, Device(d)
  PROVE  LedgerInv' /\ UNCHANGED <<status, taken>>
<1>0. /\ esp \in [Devices -> Esps] /\ esp[d] \in Esps /\ WaitOK(d) /\ EspOK(esp[d])
      /\ req \in [Workers -> Requests]
  BY LedgerTypes DEF EspOK
<1>1. UNCHANGED <<status, taken>>
  BY DEF Device, Wake, Offline, BeginFails, Post, PostLost, Timeout, SendAck, DeepSleep,
         PowerCycle, apiVars, Receive
<1>2. \A e \in Devices : e # d => esp'[e] = esp[e]
  BY <1>0 DEF Device, Wake, Offline, BeginFails, Post, PostLost, Timeout, SendAck, DeepSleep,
              PowerCycle
<1>3. \A c \in Commands : c \in acks' => taken[c] = 1
  <2>1. acks' = acks \/ (SendAck(d) /\ acks' = acks \cup {esp[d].ack})
    BY DEF Device, Wake, Offline, BeginFails, Post, PostLost, Timeout, SendAck, DeepSleep,
           PowerCycle
  <2>2. \A c \in Commands : c \in acks => taken[c] = 1
    BY LedgerTypes DEF TakenOK
  <2>3. SendAck(d) => taken[esp[d].ack] = 1
    BY <1>0 DEF SendAck, WaitOK
  <2> QED
    BY <2>1, <2>2, <2>3
<1>4. \A c \in Commands : TakenOK(c)'
  BY <1>1, <1>3, TakenFrame
<1>5. \A w \in Workers : req[w].pc # "idle" => req'[w] = req[w]
  BY <1>0 DEF Device, Wake, Offline, BeginFails, Post, PostLost, Timeout, SendAck, DeepSleep,
              PowerCycle, apiVars, Receive
<1>6. ASSUME NEW w \in Workers, NEW e \in Devices, ListOK(w, e) PROVE ListOK(w, e)'
  BY <1>1, <1>5, <1>6 DEF ListOK
<1>7. ASSUME NEW e \in Devices, e # d PROVE WaitOK(e)'
  <2>1. WaitOK(e) /\ esp'[e] = esp[e]
    BY <1>2, <1>7, LedgerTypes
  <2> QED
    BY <1>1, <1>6, <2>1 DEF WaitOK
<1>8. WaitOK(d)'
  <2>1. CASE Post(d)
    <3>1. PICK w \in Workers : /\ Receive(w, d, esp[d].boots, esp[d].interval)
                               /\ esp' = [esp EXCEPT ![d].pc = "waiting", ![d].at = w]
      BY <2>1 DEF Post
    <3>2. esp'[d].pc = "waiting" /\ esp'[d].at = w
      BY <1>0, <3>1 DEF Esps
    <3>3. req'[w].pc = "insert" /\ req'[w].dev = d /\ req'[w].picked = <<>>
      BY <1>0, <3>1 DEF Receive, IdleRequest
    <3>4. ListOK(w, d)'
      BY <3>3 DEF ListOK
    <3> QED
      BY <3>2, <3>4 DEF WaitOK
  <2>2. CASE Timeout(d) \/ PowerCycle(d)
    <3>1. esp'[d].at = NoWorker /\ esp'[d].pc # "acking"
      BY <1>0, <2>2 DEF Timeout, PowerCycle, OffEsp, Esps
    <3> QED
      BY <3>1, LedgerTypes DEF WaitOK
  <2>3. CASE Wake(d) \/ Offline(d) \/ BeginFails(d) \/ PostLost(d) \/ SendAck(d) \/ DeepSleep(d)
    <3>1. esp[d].pc # "waiting"
      BY <2>3 DEF Wake, Offline, BeginFails, PostLost, SendAck, DeepSleep
    <3>2. esp'[d].at = esp[d].at
      BY <1>0, <2>3 DEF Wake, Offline, BeginFails, PostLost, SendAck, DeepSleep, Esps
    <3>3. esp'[d].pc # "acking"
      <4>1. CASE Wake(d) \/ Offline(d) \/ BeginFails(d)
        BY <1>0, <4>1 DEF Wake, Offline, BeginFails, Esps
      <4>2. CASE PostLost(d) \/ SendAck(d) \/ DeepSleep(d)
        BY <1>0, <4>2 DEF PostLost, SendAck, DeepSleep, Esps
      <4> QED
        BY <2>3, <4>1, <4>2
    <3> QED
      BY <1>0, <3>1, <3>2, <3>3 DEF WaitOK
  <2> QED
    BY <2>1, <2>2, <2>3 DEF Device
<1> QED
  BY <1>1, <1>4, <1>7, <1>8 DEF LedgerInv

(* A request ends without being heard.                                     *)
LEMMA EndLedger ==
  ASSUME SystemInv, LedgerInv, NEW w \in Workers,
         LoseAnswer(w) \/ WorkerKilled(w) \/ DeliverError(w)
  PROVE  LedgerInv' /\ UNCHANGED <<status, taken>>
<1>0. /\ esp \in [Devices -> Esps] /\ req \in [Workers -> Requests]
      /\ UNCHANGED <<status, taken, acks>>
  BY LedgerTypes DEF LoseAnswer, WorkerKilled, DeliverError, Respond, Killed
<1>1. \A u \in Workers : u # w => req'[u] = req[u]
  BY <1>0 DEF LoseAnswer, WorkerKilled, DeliverError, Respond, Killed
<1>2. ASSUME NEW d \in Devices
      PROVE  \/ esp'[d] = esp[d] /\ esp[d].at # w
             \/ esp'[d].at = NoWorker /\ (esp'[d].pc = "acking" => esp'[d].ack = esp[d].ack
                                                                     /\ esp[d].pc = "acking")
  <2>1. esp[d] \in Esps
    BY <1>0
  <2>2. CASE LoseAnswer(w) \/ WorkerKilled(w)
    BY <2>1, <2>2 DEF LoseAnswer, WorkerKilled, Esps
  <2>3. CASE DeliverError(w)
    <3>1. CASE d = req[w].dev
      BY <1>0, <2>1, <2>3, <3>1 DEF DeliverError, Esps
    <3>2. CASE d # req[w].dev
      <4>1. esp'[d] = esp[d]
        BY <1>0, <2>3, <3>2 DEF DeliverError
      <4>2. esp[d].at # w
        BY <3>2, LedgerTypes DEF WaitOK, ListOK
      <4> QED
        BY <4>1, <4>2
    <3> QED
      BY <3>1, <3>2
  <2> QED
    BY <2>2, <2>3
<1>3. \A c \in Commands : TakenOK(c)'
  BY <1>0, TakenFrame, LedgerTypes DEF TakenOK
<1>4. ASSUME NEW d \in Devices PROVE WaitOK(d)'
  <2>1. WaitOK(d)
    BY LedgerTypes
  <2>2. CASE esp'[d] = esp[d] /\ esp[d].at # w
    <3>1. ASSUME NEW u \in Workers, u # w, ListOK(u, d) PROVE ListOK(u, d)'
      BY <1>0, <1>1, <3>1 DEF ListOK
    <3> QED
      BY <1>0, <2>1, <2>2, <3>1 DEF WaitOK
  <2>3. CASE esp'[d].at = NoWorker /\ (esp'[d].pc = "acking" => esp'[d].ack = esp[d].ack
                                                                 /\ esp[d].pc = "acking")
    BY <1>0, <2>1, <2>3, LedgerTypes DEF WaitOK
  <2> QED
    BY <1>2, <2>2, <2>3
<1> QED
  BY <1>0, <1>3, <1>4 DEF LedgerInv

(* The statements of a request.                                            *)
LEMMA WorkLedger ==
  ASSUME SystemInv, LedgerInv, NEW w \in Workers, ServerStep(Work(w)) \/ ServerStep(Throw(w))
  PROVE  /\ LedgerInv' /\ taken' = taken
         /\ \/ status' = status
            \/ \E S \in SUBSET Commands :
                 /\ \A c \in S : status[c] = "PENDING"
                 /\ status' = [c \in Commands |-> IF c \in S THEN "DELIVERED" ELSE status[c]]
<1> DEFINE d == req[w].dev
<1>0. /\ esp \in [Devices -> Esps] /\ req \in [Workers -> Requests] /\ req[w] \in Requests
      /\ RequestOK(req[w]) /\ UNCHANGED <<esp, taken, acks>>
      /\ status \in [Commands -> Statuses] /\ order \in Seq(Commands)
  BY LedgerTypes DEF ServerStep
<1>1. \A u \in Workers : u # w => req'[u] = req[u]
  BY <1>0 DEF ServerStep, Work, InsertTelemetry, SelectDevice, UpdateDevice, InsertDevice,
              SelectCommands, ApplyConfig, MarkDelivered, Throw
<1>2. req[w].pc # "idle"
  BY DEF ServerStep, Work, InsertTelemetry, SelectDevice, UpdateDevice, InsertDevice,
         SelectCommands, ApplyConfig, MarkDelivered, Throw
<1>3. \/ status' = status
      \/ \E S \in SUBSET Commands :
           /\ \A c \in S : status[c] = "PENDING"
           /\ status' = [c \in Commands |-> IF c \in S THEN "DELIVERED" ELSE status[c]]
  <2>1. CASE MarkDelivered(w)
    <3> DEFINE S == {c \in Commands : Target[c] = req[w].dev /\ status[c] = "PENDING"}
    <3>1. S \in SUBSET Commands /\ \A c \in S : status[c] = "PENDING"
      OBVIOUS
    <3>2. CASE req[w].picked = <<>>
      BY <2>1, <3>2 DEF MarkDelivered
    <3>3. CASE req[w].picked # <<>>
      <4>1. status' = [c \in Commands |-> IF c \in S THEN "DELIVERED" ELSE status[c]]
        BY <2>1, <3>3 DEF MarkDelivered
      <4> QED
        BY <3>1, <4>1
    <3> QED
      BY <3>2, <3>3
  <2>2. CASE ~ MarkDelivered(w)
    BY <2>2 DEF ServerStep, Work, InsertTelemetry, SelectDevice, UpdateDevice, InsertDevice,
                SelectCommands, ApplyConfig, Throw
  <2> QED
    BY <2>1, <2>2
<1>4. \A c \in Commands : status'[c] = status[c] \/ (status[c] = "PENDING" /\ status'[c] = "DELIVERED")
  BY <1>3
<1>5. \A c \in Commands : TakenOK(c)'
  <2>1. \A c \in Commands : TakenOK(c)
    BY LedgerTypes
  <2>2. \A c \in Commands : status[c] = "PENDING" => taken[c] = 0
    BY <2>1 DEF TakenOK
  <2> QED
    BY <1>0, <1>4, <2>1, <2>2, TakenFrame DEF TakenOK
<1>6. ASSUME NEW u \in Workers, NEW e \in Devices, u # w, ListOK(u, e) PROVE ListOK(u, e)'
  <2>1. \A i \in 1 .. Len(req[u].picked) : req[u].picked[i] \in Commands
    BY LedgerTypes
  <2>2. req[u].pc # "idle"
    BY <1>6 DEF ListOK
  <2> QED
    BY <1>0, <1>1, <1>4, <1>6, <2>1, <2>2, ListFrame
<1>7. ASSUME NEW e \in Devices, ListOK(w, e) PROVE ListOK(w, e)'
  <2>0. /\ req[w].dev = e /\ req[w].picked \in Seq(Commands)
        /\ \A i \in 1 .. Len(req[w].picked) : req[w].picked[i] \in Commands
    BY <1>7, LedgerTypes DEF ListOK
  <2>1. CASE Throw(w) \/ InsertTelemetry(w) \/ SelectDevice(w) \/ UpdateDevice(w)
               \/ InsertDevice(w)
    <3>1. req'[w].pc \notin {"idle", "reply"}
      BY <1>0, <2>1 DEF Throw, InsertTelemetry, SelectDevice, UpdateDevice, InsertDevice, Requests
    <3>2. req'[w].dev = req[w].dev /\ req'[w].picked = req[w].picked
      BY <1>0, <2>1 DEF Throw, InsertTelemetry, SelectDevice, UpdateDevice, InsertDevice, Requests
    <3> QED
      BY <1>0, <1>4, <1>7, <2>0, <3>1, <3>2, ListFrame
  <2>2. CASE ApplyConfig(w)
    <3>1. req'[w].pc = "config" /\ req'[w].dev = req[w].dev /\ req'[w].picked = req[w].picked
      BY <1>0, <2>2 DEF ApplyConfig, Requests
    <3> QED
      BY <1>0, <1>4, <1>7, <2>0, <3>1, ListFrame
  <2>3. CASE SelectCommands(w)
    <3>1. PICK list \in PendingLists(req[w].dev) :
             req' = [req EXCEPT ![w].pc = "config", ![w].picked = list]
      BY <2>3 DEF SelectCommands
    <3>2. req'[w].pc = "config" /\ req'[w].dev = e /\ req'[w].picked = list
      BY <1>0, <2>0, <3>1 DEF Requests
    <3>3. list \in Seq(Commands)
          /\ \A i \in 1 .. Len(list) : Target[list[i]] = e /\ status[list[i]] = "PENDING"
      BY <1>0, <2>0, <3>1, PendingListType
    <3>4. status' = status
      BY <2>3 DEF SelectCommands
    <3>5. ASSUME NEW i \in 1 .. Len(list) PROVE taken[list[i]] = 0
      <4>1. list[i] \in Commands /\ status[list[i]] = "PENDING"
        BY <3>3, <3>5
      <4>2. TakenOK(list[i])
        BY <4>1, LedgerTypes
      <4> QED
        BY <4>1, <4>2 DEF TakenOK
    <3> QED
      BY <1>0, <3>2, <3>3, <3>4, <3>5 DEF ListOK
  <2>4. CASE MarkDelivered(w)
    <3>1. req'[w].pc = "reply" /\ req'[w].dev = e /\ req'[w].picked = req[w].picked
      BY <1>0, <2>0, <2>4 DEF MarkDelivered, Requests
    <3>2. ASSUME NEW i \in 1 .. Len(req[w].picked)
          PROVE  status'[req[w].picked[i]] = "DELIVERED" /\ Target[req[w].picked[i]] = e
                   /\ taken'[req[w].picked[i]] = 0
      <4>1. /\ Target[req[w].picked[i]] = e /\ taken[req[w].picked[i]] = 0
            /\ status[req[w].picked[i]] \in {"PENDING", "DELIVERED"}
            /\ req[w].picked[i] \in Commands /\ req[w].picked # <<>>
        BY <1>7, <2>0, <3>2 DEF ListOK
      <4>2. status' = [c \in Commands |->
                         IF Target[c] = req[w].dev /\ status[c] = "PENDING"
                           THEN "DELIVERED" ELSE status[c]]
        BY <2>4, <4>1 DEF MarkDelivered
      <4> QED
        BY <1>0, <2>0, <4>1, <4>2
    <3> QED
      BY <3>1, <3>2 DEF ListOK
  <2> QED
    BY <2>1, <2>2, <2>3, <2>4 DEF ServerStep, Work
<1>8. ASSUME NEW e \in Devices PROVE WaitOK(e)'
  <2>1. WaitOK(e)
    BY LedgerTypes
  <2>2. ASSUME NEW u \in Workers, ListOK(u, e) PROVE ListOK(u, e)'
    BY <1>6, <1>7, <2>2
  <2> QED
    BY <1>0, <2>1, <2>2 DEF WaitOK
<1> QED
  BY <1>0, <1>3, <1>5, <1>8 DEF LedgerInv

(* The device takes the first command of the answer it waited for.         *)
LEMMA DeliverLedger ==
  ASSUME SystemInv, LedgerInv, NEW w \in Workers, Deliver(w)
  PROVE  /\ LedgerInv' /\ status' = status
         /\ \/ taken' = taken
            \/ \E c \in Commands : /\ status[c] = "DELIVERED" /\ taken[c] = 0
                                   /\ taken' = [taken EXCEPT ![c] = 1]
<1>0. /\ req \in [Workers -> Requests] /\ taken \in [Commands -> 0 .. 2]
      /\ req[w].pc = "reply" /\ req[w].picked \in Seq(Commands)
  BY LedgerTypes DEF Deliver
<1>1. PICK d \in Devices : d = req[w].dev
  BY DeliverTypes
<1>2. /\ esp[d].at = w /\ esp'[d].at = NoWorker
      /\ \A e \in Devices : e # d => esp'[e] = esp[e]
      /\ \/ req[w].picked = <<>> /\ taken' = taken /\ esp'[d].pc = "done"
         \/ /\ Head(req[w].picked) \in Commands /\ req[w].picked # <<>>
            /\ esp'[d].pc = "acking" /\ esp'[d].ack = Head(req[w].picked)
            /\ taken' = [taken EXCEPT ![Head(req[w].picked)] = IF @ < 2 THEN @ + 1 ELSE @]
  BY <1>1, DeliverTypes
<1>3. /\ UNCHANGED <<status, acks>>
      /\ \A u \in Workers : u # w => req'[u] = req[u]
  BY <1>0 DEF Deliver, Respond
<1>4. ListOK(w, d)
  BY <1>1, <1>2, LedgerTypes DEF WaitOK
<1>5. ASSUME NEW e \in Devices, e # d
      PROVE  esp'[e] = esp[e] /\ esp[e].at # w /\ WaitOK(e)
  <2>1. esp[e].at = w => req[w].dev = e
    BY LedgerTypes DEF WaitOK, ListOK
  <2> QED
    BY <1>1, <1>2, <1>5, <2>1, LedgerTypes
<1>6. CASE req[w].picked = <<>>
  <2>1. taken' = taken /\ esp'[d].pc # "acking"
    BY <1>2, <1>6
  <2>2. \A c \in Commands : TakenOK(c)'
    BY <1>3, <2>1, TakenFrame, LedgerTypes DEF TakenOK
  <2>3. WaitOK(d)'
    BY <1>2, <2>1, LedgerTypes DEF WaitOK
  <2>4. ASSUME NEW e \in Devices, e # d PROVE WaitOK(e)'
    <3>1. ASSUME NEW u \in Workers, u # w, ListOK(u, e) PROVE ListOK(u, e)'
      BY <1>3, <2>1, <3>1 DEF ListOK
    <3> QED
      BY <1>5, <2>1, <2>4, <3>1 DEF WaitOK
  <2> QED
    BY <1>3, <2>1, <2>2, <2>3, <2>4 DEF LedgerInv
<1>7. CASE req[w].picked # <<>>
  <2>1. PICK c \in Commands : c = Head(req[w].picked)
    BY <1>2, <1>7
  <2>2. c = req[w].picked[1] /\ 1 \in 1 .. Len(req[w].picked)
    BY <1>0, <1>7, <2>1
  <2>3. Target[c] = d /\ taken[c] = 0 /\ status[c] = "DELIVERED"
    BY <1>0, <1>4, <2>2 DEF ListOK
  <2>4. taken' = [taken EXCEPT ![c] = 1]
    <3>1. taken' = [taken EXCEPT ![c] = IF taken[c] < 2 THEN taken[c] + 1 ELSE taken[c]]
      BY <1>2, <1>7, <2>1
    <3> QED
      BY <2>3, <3>1
  <2>5. taken'[c] = 1 /\ \A x \in Commands : x # c => taken'[x] = taken[x]
    BY <1>0, <2>4
  <2>6. ASSUME NEW x \in Commands PROVE TakenOK(x)'
    <3>1. TakenOK(x)
      BY LedgerTypes
    <3> QED
      BY <1>3, <2>3, <2>5, <3>1 DEF TakenOK
  <2>7. WaitOK(d)'
    BY <1>2, <1>7, <2>1, <2>5, LedgerTypes DEF WaitOK
  <2>8. ASSUME NEW e \in Devices, e # d PROVE WaitOK(e)'
    <3>1. ASSUME NEW u \in Workers, u # w, ListOK(u, e) PROVE ListOK(u, e)'
      <4>1. \A i \in 1 .. Len(req[u].picked) :
              req[u].picked[i] \in Commands /\ req[u].picked[i] # c
        BY <2>3, <2>8, <3>1, LedgerTypes DEF ListOK
      <4> QED
        BY <1>3, <2>5, <3>1, <4>1 DEF ListOK
    <3>2. esp'[e].pc = "acking" => taken'[esp'[e].ack] = 1
      <4>1. esp[e].pc = "acking" => esp[e].ack \in Commands /\ taken[esp[e].ack] = 1
        BY LedgerTypes DEF WaitOK, EspOK
      <4> QED
        BY <1>5, <2>5, <2>8, <4>1
    <3> QED
      BY <1>5, <2>8, <3>1, <3>2 DEF WaitOK
  <2> QED
    BY <1>3, <2>3, <2>4, <2>6, <2>7, <2>8 DEF LedgerInv
<1> QED
  BY <1>6, <1>7

(* The status of one command changes that no awaited answer lists.         *)
LEMMA CommandLedgerStep ==
  ASSUME SystemInv, LedgerInv, NEW c \in Commands,
         \/ ServeAck(c) \/ LoseAck(c)
         \/ ServerStep(QueueCommand(c)) \/ ServerStep(QueueThrows(c))
  PROVE  /\ LedgerInv' /\ taken' = taken
         /\ \/ status' = status
            \/ status[c] = "none" /\ status' = [status EXCEPT ![c] = "PENDING"]
            \/ status[c] = "none" /\ status' = [status EXCEPT ![c] = "dropped"]
            \/ /\ status[c] \in {"DELIVERED", "ACKED"} /\ taken[c] = 1
               /\ status' = [status EXCEPT ![c] = "ACKED"]
<1>0. /\ status \in [Commands -> Statuses] /\ TakenOK(c)
      /\ UNCHANGED <<esp, taken, req>> /\ acks' \subseteq acks
  BY LedgerTypes DEF ServeAck, LoseAck, ServerStep, QueueCommand, QueueThrows, Ack, apiVars
<1>1. \/ status' = status
      \/ status[c] = "none" /\ status' = [status EXCEPT ![c] = "PENDING"]
      \/ status[c] = "none" /\ status' = [status EXCEPT ![c] = "dropped"]
      \/ /\ status[c] \in {"DELIVERED", "ACKED"} /\ taken[c] = 1
         /\ status' = [status EXCEPT ![c] = "ACKED"]
  BY <1>0 DEF ServeAck, LoseAck, ServerStep, QueueCommand, QueueThrows, Ack, apiVars, TakenOK
<1>2. /\ \A x \in Commands : x # c => status'[x] = status[x]
      /\ \/ status'[c] = status[c]
         \/ status[c] = "none" /\ status'[c] \in {"PENDING", "dropped"}
         \/ status[c] \in {"DELIVERED", "ACKED"} /\ taken[c] = 1 /\ status'[c] = "ACKED"
  BY <1>0, <1>1
<1>3. ASSUME NEW x \in Commands PROVE TakenOK(x)'
  <2>1. TakenOK(x)
    BY LedgerTypes
  <2>2. CASE x = c
    BY <1>0, <1>2, <2>1, <2>2 DEF TakenOK
  <2>3. CASE x # c
    BY <1>0, <1>2, <2>1, <2>3 DEF TakenOK
  <2> QED
    BY <2>2, <2>3
<1>4. ASSUME NEW w \in Workers, NEW d \in Devices, ListOK(w, d) PROVE ListOK(w, d)'
  <2>1. \A i \in 1 .. Len(req[w].picked) :
          /\ req[w].picked[i] \in Commands
          /\ status'[req[w].picked[i]] = status[req[w].picked[i]]
    BY <1>2, <1>4, LedgerTypes DEF ListOK
  <2> QED
    BY <1>0, <1>4, <2>1 DEF ListOK
<1>5. ASSUME NEW d \in Devices PROVE WaitOK(d)'
  <2>1. WaitOK(d)
    BY LedgerTypes
  <2> QED
    BY <1>0, <1>4, <2>1 DEF WaitOK
<1> QED
  BY <1>0, <1>1, <1>3, <1>5 DEF LedgerInv

(* Every step is one of the ledger or leaves it alone.                     *)
PhaseMap == [c \in Commands |-> Phase(c)]

LEMMA StatusPhase ==
  ASSUME NEW c \in Commands
  PROVE  /\ status[c] = "PENDING" => Phase(c) = "waiting"
         /\ status[c] = "DELIVERED" => Phase(c) = "handed"
         /\ status[c] = "ACKED" => Phase(c) = "confirmed"
         /\ status[c] \in {"none", "dropped"} => Phase(c) = "none"
BY DEF Phase

LEMMA StatusPhasePrime ==
  ASSUME NEW c \in Commands
  PROVE  /\ status'[c] = "PENDING" => Phase(c)' = "waiting"
         /\ status'[c] = "DELIVERED" => Phase(c)' = "handed"
         /\ status'[c] = "ACKED" => Phase(c)' = "confirmed"
         /\ status'[c] \in {"none", "dropped"} => Phase(c)' = "none"
BY DEF Phase

(* The commands of S, and they alone, change their phase.                  *)
LEMMA LedgerMove ==
  ASSUME NEW S \in SUBSET Commands, NEW from, NEW to,
         \A c \in S : Phase(c) = from /\ Phase(c)' = to,
         \A c \in Commands : c \notin S => status'[c] = status[c]
  PROVE  Ledger!Move(S, from, to)
<1>1. \A c \in Commands : c \notin S => Phase(c)' = Phase(c)
  BY DEF Phase
<1>2. PhaseMap' = [c \in Commands |-> IF c \in S THEN to ELSE PhaseMap[c]]
  BY <1>1 DEF PhaseMap
<1>3. \A c \in S : PhaseMap[c] = from
  BY DEF PhaseMap
<1> QED
  BY <1>2, <1>3 DEF Ledger!Move, PhaseMap

LEMMA LedgerStep ==
  ASSUME SystemInv, LedgerInv, [SystemNext]_vars
  PROVE  LedgerInv' /\ [Ledger!Next]_(Ledger!ledgerVars)
<1> DEFINE Goal == LedgerInv' /\ [Ledger!Next]_(Ledger!ledgerVars)
<1>0. status \in [Commands -> Statuses] /\ taken \in [Commands -> 0 .. 2]
  BY LedgerTypes
<1>1. ASSUME LedgerInv', taken' = taken, \A c \in Commands : Phase(c)' = Phase(c) PROVE Goal
  <2>1. PhaseMap' = PhaseMap
    BY <1>1 DEF PhaseMap
  <2> QED
    BY <1>1, <2>1 DEF Ledger!ledgerVars, PhaseMap
<1>2. ASSUME LedgerInv', UNCHANGED <<status, taken>> PROVE Goal
  BY <1>1, <1>2 DEF Phase
<1>3. ASSUME NEW d \in Devices, Device(d) PROVE Goal
  BY <1>2, <1>3, DeviceLedger
<1>4. ASSUME NEW w \in Workers, LoseAnswer(w) \/ WorkerKilled(w) \/ DeliverError(w) PROVE Goal
  BY <1>2, <1>4, EndLedger
<1>5. ASSUME NEW w \in Workers, ServerStep(Work(w)) \/ ServerStep(Throw(w)) PROVE Goal
  <2>1. LedgerInv' /\ taken' = taken
    BY <1>5, WorkLedger
  <2>2. CASE status' = status
    BY <1>2, <2>1, <2>2
  <2>3. ASSUME NEW S \in SUBSET Commands, \A c \in S : status[c] = "PENDING",
               status' = [c \in Commands |-> IF c \in S THEN "DELIVERED" ELSE status[c]]
        PROVE  Goal
    <3>1. /\ \A c \in S : Phase(c) = "waiting" /\ Phase(c)' = "handed"
          /\ \A c \in Commands : c \notin S => status'[c] = status[c]
      BY <2>3, StatusPhase, StatusPhasePrime
    <3>2. Ledger!HandOver(S)
      BY <2>1, <3>1, LedgerMove DEF Ledger!HandOver
    <3> QED
      BY <2>1, <3>2 DEF Ledger!Next
  <2> QED
    BY <1>5, <2>2, <2>3, WorkLedger
<1>6. ASSUME NEW w \in Workers, Deliver(w) PROVE Goal
  <2>1. LedgerInv' /\ status' = status
    BY <1>6, DeliverLedger
  <2>2. CASE taken' = taken
    BY <1>2, <2>1, <2>2
  <2>3. ASSUME NEW c \in Commands, status[c] = "DELIVERED", taken[c] = 0,
               taken' = [taken EXCEPT ![c] = 1]
        PROVE  Goal
    <3>1. PhaseMap' = PhaseMap /\ PhaseMap[c] = "handed"
      BY <2>1, <2>3 DEF PhaseMap, Phase
    <3>2. Ledger!Execute(c)
      BY <2>3, <3>1 DEF Ledger!Execute, PhaseMap
    <3> QED
      BY <2>1, <3>2 DEF Ledger!Next
  <2> QED
    BY <1>6, <2>2, <2>3, DeliverLedger
<1>7. ASSUME NEW c \in Commands,
             \/ ServeAck(c) \/ LoseAck(c)
             \/ ServerStep(QueueCommand(c)) \/ ServerStep(QueueThrows(c))
      PROVE  Goal
  <2>1. LedgerInv' /\ taken' = taken
    BY <1>7, CommandLedgerStep
  <2>2. CASE status' = status
    BY <1>2, <2>1, <2>2
  <2>3. ASSUME NEW s, status' = [status EXCEPT ![c] = s]
        PROVE  status'[c] = s /\ \A x \in Commands : x \notin {c} => status'[x] = status[x]
    BY <1>0, <2>3
  <2>4. CASE status[c] = "none" /\ status' = [status EXCEPT ![c] = "PENDING"]
    <3>1. \A x \in {c} : Phase(x) = "none" /\ Phase(x)' = "waiting"
      BY <2>3, <2>4, StatusPhase, StatusPhasePrime
    <3>2. Ledger!Move({c}, "none", "waiting")
      BY <2>3, <2>4, <3>1, LedgerMove
    <3>3. Ledger!Issue(c)
      BY <2>1, <3>2 DEF Ledger!Issue
    <3> QED
      BY <2>1, <3>3 DEF Ledger!Next
  <2>5. CASE status[c] = "none" /\ status' = [status EXCEPT ![c] = "dropped"]
    <3>1. \A x \in Commands : Phase(x)' = Phase(x)
      BY <2>3, <2>5, StatusPhase, StatusPhasePrime DEF Phase
    <3> QED
      BY <1>1, <2>1, <3>1
  <2>6. CASE /\ status[c] \in {"DELIVERED", "ACKED"} /\ taken[c] = 1
             /\ status' = [status EXCEPT ![c] = "ACKED"]
    <3>1. CASE status[c] = "ACKED"
      <4>1. \A x \in Commands : status'[x] = status[x]
        BY <2>3, <2>6, <3>1
      <4>2. \A x \in Commands : Phase(x)' = Phase(x)
        BY <4>1 DEF Phase
      <4> QED
        BY <1>1, <2>1, <4>2
    <3>2. CASE status[c] = "DELIVERED"
      <4>1. \A x \in {c} : Phase(x) = "handed" /\ Phase(x)' = "confirmed"
        BY <2>3, <2>6, <3>2, StatusPhase, StatusPhasePrime
      <4>2. Ledger!Move({c}, "handed", "confirmed")
        BY <2>3, <2>6, <4>1, LedgerMove
      <4>3. Ledger!Confirm(c)
        BY <2>1, <2>6, <4>2 DEF Ledger!Confirm
      <4> QED
        BY <2>1, <4>3 DEF Ledger!Next
    <3> QED
      BY <2>6, <3>1, <3>2
  <2> QED
    BY <1>7, <2>2, <2>4, <2>5, <2>6, CommandLedgerStep
<1>8. ASSUME UNCHANGED <<status, taken, req, esp, acks>> PROVE Goal
  <2>1. \A w \in Workers, d \in Devices : ListOK(w, d) => ListOK(w, d)'
    BY <1>8 DEF ListOK
  <2>2. \A d \in Devices : WaitOK(d)'
    BY <1>8, <2>1, LedgerTypes DEF WaitOK
  <2>3. \A c \in Commands : TakenOK(c)'
    BY <1>8, LedgerTypes DEF TakenOK
  <2> QED
    BY <1>2, <1>8, <2>2, <2>3 DEF LedgerInv
<1>9. ASSUME NEW D, ServerStep(ClearTelemetry(D)) PROVE Goal
  BY <1>8, <1>9 DEF ServerStep, ClearTelemetry
<1>10. CASE UNCHANGED vars
  BY <1>8, <1>10 DEF vars, apiVars
<1> QED
  BY <1>3, <1>4, <1>5, <1>6, <1>7, <1>9, <1>10 DEF SystemNext

(* api.php and setup() of the device: every command goes PENDING,          *)
(* DELIVERED, ACKED and never back, is taken by its device at most once    *)
(* and ACKED only after that, whichever requests overlap, statements throw *)
(* or answers, acknowledgements and devices get lost.                      *)
THEOREM CommandsKeepLedger == SystemSpec => ImplementsLedger
<1>1. SystemInit => LedgerInv /\ Ledger!Init
  <2> SUFFICES ASSUME SystemInit PROVE LedgerInv /\ Ledger!Init
    OBVIOUS
  <2>1. /\ \A d \in Devices : esp[d].at = NoWorker /\ esp[d].pc = "asleep"
        /\ \A c \in Commands : status[c] = "none" /\ taken[c] = 0 /\ c \notin acks
        /\ taken = [c \in Commands |-> 0]
    BY DEF SystemInit, Init, OffEsp
  <2>2. LedgerInv
    BY <2>1, SystemAssumption DEF LedgerInv, WaitOK, TakenOK
  <2>3. PhaseMap = [c \in Commands |-> "none"]
    BY <2>1, StatusPhase DEF PhaseMap
  <2> QED
    BY <2>1, <2>2, <2>3 DEF Ledger!Init, PhaseMap
<1>2. SystemInv /\ LedgerInv /\ [SystemNext]_vars
        => LedgerInv' /\ [Ledger!Next]_(Ledger!ledgerVars)
  BY LedgerStep
<1> QED
  BY <1>1, <1>2, SystemInitType, SystemStepType,
     PTL DEF SystemSpec, Ledger!Spec, ImplementsLedger
=============================================================================
