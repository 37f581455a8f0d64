----------------------------- MODULE CloudApi -----------------------------
(***************************************************************************)
(* The PHP server, iot_gmo_package/api.php, over one SQLite file.  Each    *)
(* HTTP request is a PHP process of its own.  There is no transaction:     *)
(* every statement commits by itself, so one action is one statement, and  *)
(* the statements of concurrent requests interleave.  A statement may      *)
(* throw, which ends the request with a 500, and a process may be killed;  *)
(* what it wrote until then stays.                                         *)
(***************************************************************************)
EXTENDS Integers, Sequences, FiniteSets

CONSTANTS
  Devices,   \* device ids
  NoDevice,
  Commands,  \* command ids, one per POST /commands
  Target,    \* Target[c]: the device of the command
  Setting,   \* Setting[c]: its params.sleep_interval_sec, or NoSetting
  NoSetting, \* not a CONFIG_UPDATE, or one without that parameter
  Workers,   \* PHP processes available for POST /telemetry
  MaxSeq,    \* seq_no values are told apart up to here
  MaxCount,  \* counters are told apart up to here
  MaxFaults  \* bound: statements that throw, processes that are killed

ASSUME CloudAssumption ==
  /\ NoDevice \notin Devices
  /\ IsFiniteSet(Workers)
  /\ Target \in [Commands -> Devices]
  /\ NoSetting \notin Int
  /\ Setting \in [Commands -> Int \cup {NoSetting}]
  /\ MaxSeq \in Nat \ {0} /\ MaxCount \in Nat \ {0}
  /\ MaxFaults \in Nat

VARIABLES
  status,    \* commands.status
  order,     \* the commands inserted, in created_at order
  row,       \* the devices table: known is FALSE where there is no row
  telemetry, \* the seq_no of the telemetry rows of each device
  inserted,  \* how many telemetry rows were ever inserted for a device
  req,       \* the local variables of the PHP processes
  faults

apiVars == <<status, order, row, telemetry, inserted, req, faults>>

Statuses == {"none", "PENDING", "DELIVERED", "ACKED", "dropped"}

Steps == {"idle", "insert", "device", "upsert", "commands", "config", "reply", "error"}

Requests == [pc: Steps, dev: Devices \cup {NoDevice}, seq: 0 .. MaxSeq, sleep: Int,
             known: BOOLEAN, total: 0 .. MaxCount, picked: Seq(Commands), next: Nat]

IdleRequest == [pc |-> "idle", dev |-> NoDevice, seq |-> 0, sleep |-> 0,
                known |-> FALSE, total |-> 0, picked |-> <<>>, next |-> 1]

NoRow == [known |-> FALSE, total |-> 0, interval |-> 0]

(* Counters saturate: n and everything above MaxCount are not told apart.  *)
Inc(n) == IF n < MaxCount THEN n + 1 ELSE n

PendingRows(d) ==
  {i \in 1 .. Len(order) : Target[order[i]] = d /\ status[order[i]] = "PENDING"}

Ascending(S) ==
  {f \in [1 .. Cardinality(S) -> S] : \A i, k \in DOMAIN f : i < k => f[i] < f[k]}

(* The pending commands, oldest first.  created_at counts seconds; SQLite  *)
(* keeps rows of the same second in the order of their insertion.          *)
PendingLists(d) == {[k \in DOMAIN f |-> order[f[k]]] : f \in Ascending(PendingRows(d))}

Fault == faults < MaxFaults /\ faults' = faults + 1

Init ==
  /\ status = [c \in Commands |-> "none"]
  /\ order = <<>>
  /\ row = [d \in Devices |-> NoRow]
  /\ telemetry = [d \in Devices |-> {}]
  /\ inserted = [d \in Devices |-> 0]
  /\ req = [w \in Workers |-> IdleRequest]
  /\ faults = 0

-----------------------------------------------------------------------------
(* POST /telemetry.                                                        *)

(* The payload is decoded; interval_sec is the interval the device keeps.  *)
Receive(w, d, seq, interval) ==
  /\ req[w].pc = "idle"
  /\ req' = [req EXCEPT ![w] = [IdleRequest EXCEPT !.pc = "insert", !.dev = d,
                                                   !.seq = seq, !.sleep = interval]]
  /\ UNCHANGED <<status, order, row, telemetry, inserted, faults>>

InsertTelemetry(w) ==
  /\ req[w].pc = "insert"
  /\ telemetry' = [telemetry EXCEPT ![req[w].dev] = @ \cup {req[w].seq}]
  /\ inserted' = [inserted EXCEPT ![req[w].dev] = Inc(@)]
  /\ req' = [req EXCEPT ![w].pc = "device"]
  /\ UNCHANGED <<status, order, row, faults>>

(* Mutant: the interval of the row does not go into the answer.            *)
SelectDeviceOnly(w) ==
  /\ req[w].pc = "device"
  /\ LET r == row[req[w].dev]
     IN req' = [req EXCEPT ![w].pc = "upsert", ![w].known = r.known, ![w].total = r.total]
  /\ UNCHANGED <<status, order, row, telemetry, inserted, faults>>

(* SELECT total_telemetries, current_interval_sec: a positive interval of  *)
(* the row goes before the one the device reports.                         *)
SelectDevice(w) ==
  /\ req[w].pc = "device"
  /\ LET r == row[req[w].dev]
     IN req' = [req EXCEPT ![w].pc = "upsert",
                           ![w].known = r.known,
                           ![w].total = r.total,
                           ![w].sleep = IF r.known /\ r.interval > 0 THEN r.interval ELSE @]
  /\ UNCHANGED <<status, order, row, telemetry, inserted, faults>>

(* Mutant: the total is incremented where it is read and where it is       *)
(* written.                                                                *)
UpdateDeviceTwice(w) ==
  /\ req[w].pc = "upsert" /\ req[w].known
  /\ row' = [row EXCEPT ![req[w].dev].total = Inc(Inc(req[w].total))]
  /\ req' = [req EXCEPT ![w].pc = "commands"]
  /\ UNCHANGED <<status, order, telemetry, inserted, faults>>

(* The total that was read plus one is written back.                       *)
UpdateDevice(w) ==
  /\ req[w].pc = "upsert" /\ req[w].known
  /\ row' = [row EXCEPT ![req[w].dev].total = Inc(req[w].total)]
  /\ req' = [req EXCEPT ![w].pc = "commands"]
  /\ UNCHANGED <<status, order, telemetry, inserted, faults>>

(* The first telemetry of a device registers it.  device_id is the primary *)
(* key: when another request has inserted the row meanwhile, it throws.    *)
InsertDevice(w) ==
  /\ req[w].pc = "upsert" /\ ~ req[w].known
  /\ IF row[req[w].dev].known
       THEN /\ req' = [req EXCEPT ![w].pc = "error"]
            /\ UNCHANGED row
       ELSE /\ row' = [row EXCEPT ![req[w].dev] =
                         [known |-> TRUE, total |-> 1, interval |-> req[w].sleep]]
            /\ req' = [req EXCEPT ![w].pc = "commands"]
  /\ UNCHANGED <<status, order, telemetry, inserted, faults>>

SelectCommands(w) ==
  /\ req[w].pc = "commands"
  /\ \E list \in PendingLists(req[w].dev) :
       req' = [req EXCEPT ![w].pc = "config", ![w].picked = list]
  /\ UNCHANGED <<status, order, row, telemetry, inserted, faults>>

(* One turn of the loop over the pending rows.  isset is true of any       *)
(* number, negative ones and zero included.                                *)
ApplyConfig(w) ==
  /\ req[w].pc = "config" /\ req[w].next <= Len(req[w].picked)
  /\ LET new == Setting[req[w].picked[req[w].next]] IN
     IF new = NoSetting
       THEN /\ req' = [req EXCEPT ![w].next = @ + 1]
            /\ UNCHANGED row
       ELSE /\ row' = [row EXCEPT ![req[w].dev].interval = new]
            /\ req' = [req EXCEPT ![w].next = @ + 1, ![w].sleep = new]
  /\ UNCHANGED <<status, order, telemetry, inserted, faults>>

(* Mutant: what was answered is left PENDING.                              *)
EndDelivery(w) ==
  /\ req[w].pc = "config" /\ req[w].next > Len(req[w].picked)
  /\ req' = [req EXCEPT ![w].pc = "reply"]
  /\ UNCHANGED <<status, order, row, telemetry, inserted, faults>>

(* UPDATE ... WHERE device_id = ? AND status = 'PENDING': every row that   *)
(* is PENDING by now, if the list was not empty.                           *)
MarkDelivered(w) ==
  /\ req[w].pc = "config" /\ req[w].next > Len(req[w].picked)
  /\ status' = IF req[w].picked = <<>> THEN status
               ELSE [c \in Commands |->
                       IF Target[c] = req[w].dev /\ status[c] = "PENDING"
                         THEN "DELIVERED" ELSE status[c]]
  /\ req' = [req EXCEPT ![w].pc = "reply"]
  /\ UNCHANGED <<order, row, telemetry, inserted, faults>>

(* A statement throws: nothing but the error is answered.                  *)
Throw(w) ==
  /\ req[w].pc \in {"insert", "device", "upsert", "commands", "config"}
  /\ Fault
  /\ req' = [req EXCEPT ![w].pc = "error"]
  /\ UNCHANGED <<status, order, row, telemetry, inserted>>

(* The process writes its answer, a 200 or a 500, and ends.                *)
Respond(w) ==
  /\ req[w].pc \in {"reply", "error"}
  /\ req' = [req EXCEPT ![w] = IdleRequest]
  /\ UNCHANGED <<status, order, row, telemetry, inserted, faults>>

(* The process is killed before it answers.                                *)
Killed(w) ==
  /\ req[w].pc # "idle"
  /\ Fault
  /\ req' = [req EXCEPT ![w] = IdleRequest]
  /\ UNCHANGED <<status, order, row, telemetry, inserted>>

-----------------------------------------------------------------------------
(* The other endpoints that write: one statement each.                     *)

(* created_at is taken before the INSERT, which may wait for the lock of   *)
(* the file: a row may come before others that were inserted earlier.      *)
QueueCommand(c) ==
  /\ status[c] = "none"
  /\ status' = [status EXCEPT ![c] = "PENDING"]
  /\ \E n \in 0 .. Len(order) :
       order' = SubSeq(order, 1, n) \o <<c>> \o SubSeq(order, n + 1, Len(order))
  /\ UNCHANGED <<row, telemetry, inserted, req, faults>>

(* The id counts milliseconds and is the primary key: a second POST in the *)
(* same millisecond throws, like any other failure of the INSERT.          *)
QueueThrows(c) ==
  /\ status[c] = "none"
  /\ Fault
  /\ status' = [status EXCEPT ![c] = "dropped"]
  /\ UNCHANGED <<order, row, telemetry, inserted, req>>

Ack(c) ==
  /\ status[c] \in {"PENDING", "DELIVERED", "ACKED"}
  /\ status' = [status EXCEPT ![c] = "ACKED"]
  /\ UNCHANGED <<order, row, telemetry, inserted, req, faults>>

(* DELETE FROM telemetry, of one device or of all.                         *)
ClearTelemetry(D) ==
  /\ telemetry' = [d \in Devices |-> IF d \in D THEN {} ELSE telemetry[d]]
  /\ UNCHANGED <<status, order, row, inserted, req, faults>>

Work(w) ==
  \/ InsertTelemetry(w) \/ SelectDevice(w) \/ UpdateDevice(w) \/ InsertDevice(w)
  \/ SelectCommands(w) \/ ApplyConfig(w) \/ MarkDelivered(w)

-----------------------------------------------------------------------------
(* Properties.                                                             *)

(* Every variable has its type.                                            *)
TypeOK ==
  /\ status \in [Commands -> Statuses]
  /\ order \in Seq(Commands)
  /\ row \in [Devices -> [known: BOOLEAN, total: 0 .. MaxCount, interval: Int]]
  /\ telemetry \in [Devices -> SUBSET (0 .. MaxSeq)]
  /\ inserted \in [Devices -> 0 .. MaxCount]
  /\ req \in [Workers -> Requests]
  /\ faults \in 0 .. MaxFaults

(* total_telemetries never counts a telemetry that was not inserted,       *)
(* whichever requests overlap, throw or die between reading the total and  *)
(* writing it back.  (It may count too few: two requests that read the     *)
(* same total count as one.)                                               *)
TotalNeverAhead == \A d \in Devices : row[d].total <= inserted[d]
=============================================================================
