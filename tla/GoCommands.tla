---------------------------- MODULE GoCommands ----------------------------
(***************************************************************************)
(* The remote-command half of the Go server: what HandleTelemetry does     *)
(* after the telemetry is stored (sleep interval, pending commands, the    *)
(* answer), HandleQueueCommand and HandleAckCommand, over the `commands`   *)
(* table of SQLRepository (repo = "sql") or the slices of                  *)
(* InMemoryRepository (repo = "memory").                                   *)
(*                                                                         *)
(* Every HTTP request runs in a goroutine of its own.  A handler shares    *)
(* with the others the table, the map deviceSleepConfigs (guarded by       *)
(* deviceSleepMu) and the connection pool, and holds no lock from one      *)
(* statement to the next: one action is one statement or one critical      *)
(* section.  The clients are arbitrary here: any device may post at any    *)
(* time and any row may be acknowledged.  GoSystem adds real devices.      *)
(***************************************************************************)
EXTENDS Naturals, Sequences, FiniteSets

CONSTANTS
  Devices,      \* device ids
  NoDevice,     \* the device of a handler that serves no request
  Commands,     \* command ids ("cmd-<UnixNano>"), one per POST /commands
  Request,      \* Request[c]: the body of the POST that creates c
  Handlers,     \* goroutines available for POST /telemetry
  Batteries,    \* battery_level_pct values the telemetries carry
  Repos,        \* the stores the server may be started with
  MaxOpenConns, \* SetMaxOpenConns: 1 for SQLite
  MaxFaults,    \* bound: statements that return an error
  MaxRestarts   \* bound: crashes or restarts of the server process

(* sleep_interval_sec is a JSON number and may be fractional; it is kept   *)
(* here in tenths of a second, 0 standing for an absent, zero or negative  *)
(* value.                                                                  *)
Bodies == [dev: Devices, action: {"CONFIG_UPDATE", "OTHER"}, tenths: Nat]

ASSUME GoAssumption ==
  /\ NoDevice \notin Devices
  /\ Request \in [Commands -> Bodies]
  /\ Batteries \subseteq Nat
  /\ Repos \subseteq {"sql", "memory"}
  /\ MaxOpenConns \in Nat \ {0}
  /\ MaxFaults \in Nat
  /\ MaxRestarts \in Nat

VARIABLES
  repo,         \* cfg.DBDriver: "sql" or "memory"
  status,       \* commands.status, and where a POST /commands stands
  order,        \* the commands stamped, in created_at order
  rows,         \* the commands stored, in the order of their row ids
  sleepConfigs, \* deviceSleepConfigs: 0 where the map has no entry
  conns,        \* handlers that keep a connection between two steps
  job,          \* the local variables of the HandleTelemetry goroutines
  faults,       \* statements that failed so far
  restarts      \* restarts so far

goVars == <<repo, status, order, rows, sleepConfigs, conns, job, faults, restarts>>

(* "inserting": the POST has written deviceSleepConfigs.  "stamped": it has *)
(* taken created_at as well, not yet the connection for its INSERT.        *)
(* "dropped": there is no row and there will be none.                      *)
Statuses == {"none", "inserting", "stamped", "PENDING", "SENT", "ACKED", "dropped"}

Steps == {"idle", "config", "select", "rows", "mark", "apply", "reply"}

Jobs == [pc: Steps, dev: Devices \cup {NoDevice}, batt: Nat, sleep: Nat,
         picked: Seq(Commands), next: Nat, missed: SUBSET Commands]

IdleJob == [pc |-> "idle", dev |-> NoDevice, batt |-> 0, sleep |-> 0,
            picked |-> <<>>, next |-> 1, missed |-> {}]

DefaultSleep == 60
LowBatteryPct == 20
LowBatterySleep == 300

-----------------------------------------------------------------------------

(* The CONFIG_UPDATE test of the handlers: sVal, ok := params[...] and     *)
(* sVal > 0, on the fractional value.                                      *)
HasInterval(c) == Request[c].action = "CONFIG_UPDATE" /\ Request[c].tenths > 0

(* uint32(sVal): the fraction is cut off.                                  *)
Seconds(c) == Request[c].tenths \div 10

(* Mutant: the WHERE clause forgets the device.                            *)
PendingRowsOfAnyone(d) == {i \in 1 .. Len(order) : status[order[i]] = "PENDING"}

(* The PENDING rows of the device, as positions in `order`.                *)
PendingRows(d) ==
  {i \in 1 .. Len(order) : Request[order[i]].dev = d /\ status[order[i]] = "PENDING"}

(* The enumeration of a set of positions in ascending order.  There is one *)
(* for every finite set: a set with one element.                           *)
Ascending(S) ==
  {f \in [1 .. Cardinality(S) -> S] : \A i, k \in DOMAIN f : i < k => f[i] < f[k]}

(* The list GetPendingCommands returns: ORDER BY created_at, oldest first, *)
(* whatever the order of the rows.                                         *)
PendingLists(d) == {[k \in DOMAIN f |-> order[f[k]]] : f \in Ascending(PendingRows(d))}

(* database/sql: a statement waits until the pool has a connection left.   *)
ConnFree == Cardinality(conns) < MaxOpenConns

Fault == repo = "sql" /\ faults < MaxFaults /\ faults' = faults + 1

Init ==
  /\ repo \in Repos
  /\ status = [c \in Commands |-> "none"]
  /\ order = <<>>
  /\ rows = <<>>
  /\ sleepConfigs = [d \in Devices |-> 0]
  /\ conns = {}
  /\ job = [h \in Handlers |-> IdleJob]
  /\ faults = 0
  /\ restarts = 0

-----------------------------------------------------------------------------
(* HandleTelemetry, from the stored telemetry to the answer.               *)

(* A telemetry of d was decoded and stored; its handler goes on.           *)
Receive(h, d, b) ==
  /\ job[h].pc = "idle"
  /\ job' = [job EXCEPT ![h] = [IdleJob EXCEPT !.pc = "config", !.dev = d, !.batt = b]]
  /\ UNCHANGED <<repo, status, order, rows, sleepConfigs, conns, faults, restarts>>

ReadConfig(h) ==
  /\ job[h].pc = "config"
  /\ LET stored == sleepConfigs[job[h].dev]
     IN job' = [job EXCEPT ![h].pc = "select",
                           ![h].sleep = IF stored = 0 THEN DefaultSleep ELSE stored]
  /\ UNCHANGED <<repo, status, order, rows, sleepConfigs, conns, faults, restarts>>

(* db.Query: the connection stays with the rows until they are read out.   *)
Select(h) ==
  /\ repo = "sql"
  /\ job[h].pc = "select"
  /\ ConnFree
  /\ conns' = conns \cup {h}
  /\ \E list \in PendingLists(job[h].dev) :
       job' = [job EXCEPT ![h].pc = "rows", ![h].picked = list]
  /\ UNCHANGED <<repo, status, order, rows, sleepConfigs, faults, restarts>>

(* The error of GetPendingCommands is discarded: an empty list is used.    *)
SelectFails(h) ==
  /\ job[h].pc = "select"
  /\ Fault
  /\ job' = [job EXCEPT ![h].pc = "apply"]
  /\ UNCHANGED <<repo, status, order, rows, sleepConfigs, conns, restarts>>

(* Mutant: the rows are still open when the updates begin.                 *)
CloseRowsLate(h) ==
  /\ job[h].pc = "rows"
  /\ job' = [job EXCEPT ![h].pc = "mark"]
  /\ UNCHANGED <<repo, status, order, rows, sleepConfigs, conns, faults, restarts>>

(* rows.Next returned false, which closes the rows.                        *)
CloseRows(h) ==
  /\ job[h].pc = "rows"
  /\ conns' = conns \ {h}
  /\ job' = [job EXCEPT ![h].pc = "mark"]
  /\ UNCHANGED <<repo, status, order, rows, sleepConfigs, faults, restarts>>

(* rows.Next returned false because the iteration failed.  rows.Err is     *)
(* not asked: the rows read so far are taken for all there are.            *)
RowsFail(h) ==
  /\ job[h].pc = "rows"
  /\ Fault
  /\ conns' = conns \ {h}
  /\ \E n \in 0 .. Len(job[h].picked) - 1 :
       job' = [job EXCEPT ![h].pc = "mark", ![h].picked = SubSeq(@, 1, n)]
  /\ UNCHANGED <<repo, status, order, rows, sleepConfigs, restarts>>

(* Mutant: the UPDATE keeps the row PENDING, as the in-memory store does.  *)
MarkNothing(h) ==
  /\ job[h].pc = "mark" /\ job[h].next <= Len(job[h].picked)
  /\ ConnFree
  /\ job' = [job EXCEPT ![h].next = @ + 1]
  /\ UNCHANGED <<repo, status, order, rows, sleepConfigs, conns, faults, restarts>>

(* Mutant: the loop steps over every second row.                           *)
MarkSkips(h) ==
  /\ job[h].pc = "mark" /\ job[h].next <= Len(job[h].picked)
  /\ ConnFree
  /\ status' = [status EXCEPT ![job[h].picked[job[h].next]] = "SENT"]
  /\ job' = [job EXCEPT ![h].next = @ + 2]
  /\ UNCHANGED <<repo, order, rows, sleepConfigs, conns, faults, restarts>>

(* UPDATE commands SET status = 'SENT' WHERE command_id = ?: the row is    *)
(* found by its id alone, whatever its status has become.                  *)
Mark(h) ==
  /\ job[h].pc = "mark" /\ job[h].next <= Len(job[h].picked)
  /\ ConnFree
  /\ status' = [status EXCEPT ![job[h].picked[job[h].next]] = "SENT"]
  /\ job' = [job EXCEPT ![h].next = @ + 1]
  /\ UNCHANGED <<repo, order, rows, sleepConfigs, conns, faults, restarts>>

(* The error of the UPDATE is discarded: the row stays as it is and the    *)
(* command is answered all the same.                                       *)
MarkFails(h) ==
  /\ job[h].pc = "mark" /\ job[h].next <= Len(job[h].picked)
  /\ Fault
  /\ job' = [job EXCEPT ![h].missed = @ \cup {job[h].picked[job[h].next]},
                        ![h].next = @ + 1]
  /\ UNCHANGED <<repo, status, order, rows, sleepConfigs, conns, restarts>>

EndMark(h) ==
  /\ job[h].pc = "mark" /\ job[h].next > Len(job[h].picked)
  /\ job' = [job EXCEPT ![h].pc = "apply", ![h].next = 1]
  /\ UNCHANGED <<repo, status, order, rows, sleepConfigs, conns, faults, restarts>>

(* Mutant: the in-memory store gives its commands away at once.            *)
TakePending(h) ==
  /\ repo = "memory"
  /\ job[h].pc = "select"
  /\ \E list \in PendingLists(job[h].dev) :
       job' = [job EXCEPT ![h].pc = "apply", ![h].picked = list]
  /\ status' = [c \in Commands |->
                  IF Request[c].dev = job[h].dev /\ status[c] = "PENDING"
                    THEN "SENT" ELSE status[c]]
  /\ UNCHANGED <<repo, order, rows, sleepConfigs, conns, faults, restarts>>

(* InMemoryRepository.GetPendingCommands: a copy of the list, which is     *)
(* left as it was.                                                         *)
CopyPending(h) ==
  /\ repo = "memory"
  /\ job[h].pc = "select"
  /\ \E list \in PendingLists(job[h].dev) :
       job' = [job EXCEPT ![h].pc = "apply", ![h].picked = list]
  /\ UNCHANGED <<repo, status, order, rows, sleepConfigs, conns, faults, restarts>>

(* Mutant: only the first CONFIG_UPDATE of the list is obeyed.             *)
ApplyFirst(h) ==
  LET c == job[h].picked[job[h].next]
      obeyed == HasInterval(c) /\ \A i \in 1 .. job[h].next - 1 : ~ HasInterval(job[h].picked[i])
  IN
  /\ job[h].pc = "apply" /\ job[h].next <= Len(job[h].picked)
  /\ job' = [job EXCEPT ![h].next = @ + 1,
                        ![h].sleep = IF obeyed THEN Seconds(c) ELSE @]
  /\ sleepConfigs' = IF obeyed THEN [sleepConfigs EXCEPT ![job[h].dev] = Seconds(c)]
                               ELSE sleepConfigs
  /\ UNCHANGED <<repo, status, order, rows, conns, faults, restarts>>

(* Mutant: the interval goes into the answer only.                         *)
ApplyVolatile(h) ==
  LET c == job[h].picked[job[h].next] IN
  /\ job[h].pc = "apply" /\ job[h].next <= Len(job[h].picked)
  /\ job' = [job EXCEPT ![h].next = @ + 1,
                        ![h].sleep = IF HasInterval(c) THEN Seconds(c) ELSE @]
  /\ UNCHANGED <<repo, status, order, rows, sleepConfigs, conns, faults, restarts>>

(* One turn of the loop over the commands of the answer.                   *)
Apply(h) ==
  LET c == job[h].picked[job[h].next] IN
  /\ job[h].pc = "apply" /\ job[h].next <= Len(job[h].picked)
  /\ job' = [job EXCEPT ![h].next = @ + 1,
                        ![h].sleep = IF HasInterval(c) THEN Seconds(c) ELSE @]
  /\ sleepConfigs' = IF HasInterval(c)
                       THEN [sleepConfigs EXCEPT ![job[h].dev] = Seconds(c)]
                       ELSE sleepConfigs
  /\ UNCHANGED <<repo, status, order, rows, conns, faults, restarts>>

(* Low battery lengthens this answer's interval, not the stored one.       *)
EndApply(h) ==
  /\ job[h].pc = "apply" /\ job[h].next > Len(job[h].picked)
  /\ job' = [job EXCEPT ![h].pc = "reply",
                        ![h].sleep = IF job[h].batt < LowBatteryPct
                                       THEN LowBatterySleep ELSE @]
  /\ UNCHANGED <<repo, status, order, rows, sleepConfigs, conns, faults, restarts>>

(* The answer job[h].sleep, job[h].picked is written and the goroutine     *)
(* ends.                                                                   *)
Respond(h) ==
  /\ job[h].pc = "reply"
  /\ job' = [job EXCEPT ![h] = IdleJob]
  /\ UNCHANGED <<repo, status, order, rows, sleepConfigs, conns, faults, restarts>>

-----------------------------------------------------------------------------
(* HandleQueueCommand and HandleAckCommand.                                *)

(* A CONFIG_UPDATE changes deviceSleepConfigs before the command exists.   *)
QueueConfig(c) ==
  /\ status[c] = "none"
  /\ status' = [status EXCEPT ![c] = "inserting"]
  /\ sleepConfigs' = IF HasInterval(c)
                       THEN [sleepConfigs EXCEPT ![Request[c].dev] = Seconds(c)]
                       ELSE sleepConfigs
  /\ UNCHANGED <<repo, order, rows, conns, job, faults, restarts>>

(* SQLRepository.QueueCommand takes created_at, ...                        *)
QueueStamp(c) ==
  /\ repo = "sql"
  /\ status[c] = "inserting"
  /\ status' = [status EXCEPT ![c] = "stamped"]
  /\ order' = Append(order, c)
  /\ UNCHANGED <<repo, rows, sleepConfigs, conns, job, faults, restarts>>

(* ... and then waits for the connection that inserts the row: a command   *)
(* that was stamped later may be stored before it.                         *)
QueueInsert(c) ==
  /\ status[c] = "stamped"
  /\ ConnFree
  /\ status' = [status EXCEPT ![c] = "PENDING"]
  /\ rows' = Append(rows, c)
  /\ UNCHANGED <<repo, order, sleepConfigs, conns, job, faults, restarts>>

(* The INSERT fails: 500 is answered, deviceSleepConfigs keeps the value.  *)
QueueFails(c) ==
  /\ status[c] = "stamped"
  /\ Fault
  /\ status' = [status EXCEPT ![c] = "dropped"]
  /\ UNCHANGED <<repo, order, rows, sleepConfigs, conns, job, restarts>>

(* InMemoryRepository.QueueCommand: the list grows under the mutex.        *)
QueueAppend(c) ==
  /\ repo = "memory"
  /\ status[c] = "inserting"
  /\ status' = [status EXCEPT ![c] = "PENDING"]
  /\ order' = Append(order, c)
  /\ rows' = Append(rows, c)
  /\ UNCHANGED <<repo, sleepConfigs, conns, job, faults, restarts>>

(* UPDATE ... SET status = 'ACKED' WHERE device_id = ? AND command_id = ?; *)
(* in memory, the command leaves the list.  An acknowledgement of a row    *)
(* that does not exist, or whose UPDATE fails, changes nothing.            *)
Ack(c) ==
  /\ status[c] \in {"PENDING", "SENT", "ACKED"}
  /\ ConnFree
  /\ status' = [status EXCEPT ![c] = "ACKED"]
  /\ UNCHANGED <<repo, order, rows, sleepConfigs, conns, job, faults, restarts>>

-----------------------------------------------------------------------------

(* The process ends and starts again.  SQLite keeps the table; the         *)
(* goroutines, their connections and deviceSleepConfigs are gone, and so   *)
(* are the lists of the in-memory store.                                   *)
Restart ==
  /\ restarts < MaxRestarts
  /\ restarts' = restarts + 1
  /\ LET gone == {"inserting", "stamped"} \cup (IF repo = "memory" THEN {"PENDING"} ELSE {})
     IN status' = [c \in Commands |-> IF status[c] \in gone THEN "dropped" ELSE status[c]]
  /\ sleepConfigs' = [d \in Devices |-> 0]
  /\ conns' = {}
  /\ job' = [h \in Handlers |-> IdleJob]
  /\ UNCHANGED <<repo, order, rows, faults>>

(* What a handler does once its request is in.                             *)
Work(h) ==
  \/ ReadConfig(h)
  \/ Select(h) \/ SelectFails(h) \/ CloseRows(h) \/ RowsFail(h)
  \/ Mark(h) \/ MarkFails(h) \/ EndMark(h)
  \/ CopyPending(h)
  \/ Apply(h) \/ EndApply(h)

Queue(c) ==
  QueueConfig(c) \/ QueueStamp(c) \/ QueueInsert(c) \/ QueueFails(c) \/ QueueAppend(c)

Next ==
  \/ \E h \in Handlers, d \in Devices, b \in Batteries : Receive(h, d, b)
  \/ \E h \in Handlers : Work(h) \/ Respond(h)
  \/ \E c \in Commands : Queue(c) \/ Ack(c)
  \/ Restart

Spec == Init /\ [][Next]_goVars

-----------------------------------------------------------------------------
(* Properties.                                                             *)

(* Every variable has its type.                                            *)
TypeOK ==
  /\ repo \in Repos
  /\ status \in [Commands -> Statuses]
  /\ order \in Seq(Commands)
  /\ rows \in Seq(Commands)
  /\ sleepConfigs \in [Devices -> Nat]
  /\ conns \subseteq Handlers
  /\ job \in [Handlers -> Jobs]
  /\ \A h \in Handlers : job[h].pc # "idle" => job[h].dev \in Devices
  /\ \A h \in Handlers : job[h].next \in 1 .. Len(job[h].picked) + 1
  /\ faults \in 0 .. MaxFaults
  /\ restarts \in 0 .. MaxRestarts

(* GetPendingCommands: what a handler answers under SQLite is no longer    *)
(* PENDING when the answer leaves, unless the very UPDATE of that command  *)
(* failed, so the next telemetry does not get it again.                    *)
AnsweredIsMarked ==
  repo = "sql" =>
    \A h \in Handlers :
      job[h].pc \in {"apply", "reply"} =>
        \A i \in 1 .. Len(job[h].picked) :
          LET c == job[h].picked[i] IN
          status[c] \in {"SENT", "ACKED"} \/ c \in job[h].missed

(* i is the last CONFIG_UPDATE with an interval among the first n answers. *)
LastSetting(h, i, n) ==
  /\ i \in 1 .. n
  /\ HasInterval(job[h].picked[i])
  /\ \A k \in i + 1 .. n : ~ HasInterval(job[h].picked[k])

(* HandleTelemetry: the interval of an answer agrees with the commands of  *)
(* the same answer.  The device that obeys the list in order ends with the *)
(* interval it was told, except that a low battery always answers 300 s.   *)
AnswerIsConsistent ==
  \A h \in Handlers :
    job[h].pc = "reply" =>
      IF job[h].batt < LowBatteryPct
        THEN job[h].sleep = LowBatterySleep
        ELSE \A i \in 1 .. Len(job[h].picked) :
               LastSetting(h, i, Len(job[h].picked)) =>
                 job[h].sleep = Seconds(job[h].picked[i])

(* An answer carries only commands of its own device, each of them once    *)
(* and in the order of their created_at, whatever was queued, inserted     *)
(* against that order, acknowledged or answered while the handler was at   *)
(* work.                                                                   *)
AnswerKeepsOrder ==
  \A h \in Handlers :
    LET picked == job[h].picked IN
    /\ \A i \in 1 .. Len(picked) : Request[picked[i]].dev = job[h].dev
    /\ \A i, k \in 1 .. Len(picked) :
         i < k => \E m, n \in 1 .. Len(order) :
                    m < n /\ order[m] = picked[i] /\ order[n] = picked[k]

(* database/sql with SetMaxOpenConns(1): a handler that is about to ask    *)
(* the pool for a connection keeps none, so the handlers cannot all wait   *)
(* for a connection one of them has.  (A statement executed while the rows *)
(* of the SELECT are open would wait for itself.)                          *)
NoHoldAndWait ==
  \A h \in Handlers : job[h].pc \in {"idle", "select", "mark"} => h \notin conns
=============================================================================
