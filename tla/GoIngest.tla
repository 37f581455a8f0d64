------------------------------ MODULE GoIngest ------------------------------
(***************************************************************************)
(* The other half of the Go server: how a telemetry is stored and turned   *)
(* into alerts before HandleTelemetry looks at commands (GoCommands), and  *)
(* the handlers that store events or read the tables.  SQLRepository       *)
(* stores a telemetry in a transaction that keeps the only connection of   *)
(* the pool; every alert is one more statement; a webhook call is a        *)
(* goroutine of its own.                                                   *)
(***************************************************************************)
EXTENDS Integers, Sequences, FiniteSets

CONSTANTS
  Devices,
  Telemetries, \* payloads; a client may post the same payload again
  Payload,     \* Payload[m]: what a payload says
  NoTelemetry,
  Handlers,    \* goroutines that serve requests
  NoHandler,
  MaxPosts,    \* bound: telemetries and events posted
  MaxReads,    \* bound: reads of the tables
  MaxFaults,   \* bound: statements, or rows of one, that return an error
  MaxRestarts  \* bound: crashes or restarts of the process

ASSUME IngestAssumption ==
  /\ Payload \in [Telemetries -> [dev: Devices, seq: Nat, interval: Nat,
                                  tenths: Int, batt: Nat, rssi: Int]]
  /\ NoTelemetry \notin Telemetries \cup Devices
  /\ IsFiniteSet(Handlers) /\ NoHandler \notin Handlers
  /\ MaxPosts \in Nat \ {0}
  /\ MaxReads \in Nat /\ MaxFaults \in Nat /\ MaxRestarts \in Nat

VARIABLES
  repo,     \* "sql" or "memory": cfg.DBDriver
  rows,     \* the telemetries table, in the order of the commits
  devices,  \* the devices table
  events,   \* how often each <<payload, event_type>> is in events
  hooks,    \* webhook goroutines of each <<payload, rule>>
  notified, \* webhook calls that were answered
  conn,     \* the handler that has the connection
  job,      \* the local variables of the handlers
  posts,    \* telemetries and events posted so far
  reads, faults, restarts

vars == <<repo, rows, devices, events, hooks, notified, conn, job, posts,
          reads, faults, restarts>>

Rules == <<"HIGH_TEMPERATURE", "LOW_TEMPERATURE", "LOW_BATTERY", "WEAK_SIGNAL">>
RuleNames == {Rules[i] : i \in DOMAIN Rules}
Alerts == Telemetries \X RuleNames

(* What a device reports through POST /api/v1/events.                      *)
Reported == "REPORTED"
EventKeys == Telemetries \X (RuleNames \cup {Reported})

Steps == {"idle", "begin", "insert", "upsert", "commit", "alert", "reply", "error",
          "event", "list", "history", "listing", "scan"}

(* total_telemetries, last_seq_no and current_interval_sec of a device.    *)
DeviceRows == [total: Nat, seq: Nat, interval: Nat]

NoRow == [total |-> 0, seq |-> 0, interval |-> 0]

(* The rest belongs to ListDevices: dev is the device somebody looks for,  *)
(* asked its total and before the errors when the request came; found says *)
(* whether the list has an entry of dev, and list is that entry.           *)
Jobs == [pc: Steps, msg: Telemetries \cup {NoTelemetry}, next: Nat,
         dev: Devices \cup {NoTelemetry}, asked: Nat, before: Nat,
         found: BOOLEAN, list: DeviceRows]

IdleJob == [pc |-> "idle", msg |-> NoTelemetry, next |-> 1,
            dev |-> NoTelemetry, asked |-> 0, before |-> 0, found |-> FALSE, list |-> NoRow]

(* EvaluateAndAlert, with DefaultThresholds; the temperature is in tenths  *)
(* of a degree.  A battery level of 0 is taken for a missing one.          *)
Triggers(m, rule) ==
  LET p == Payload[m] IN
  CASE rule = "HIGH_TEMPERATURE" -> p.tenths > 350
    [] rule = "LOW_TEMPERATURE" -> p.tenths < 0
    [] rule = "LOW_BATTERY" -> p.batt > 0 /\ p.batt < 20
    [] rule = "WEAK_SIGNAL" -> p.rssi < -85

(* The rows of a device, and how many of them there were with the i-th.    *)
RowsOf(d) == {i \in DOMAIN rows : Payload[rows[i]].dev = d}

CountAt(d, i) == Cardinality({k \in RowsOf(d) : k <= i})

ConnFree == repo = "memory" \/ conn = NoHandler

Fault == repo = "sql" /\ faults < MaxFaults /\ faults' = faults + 1

Goto(h, step) == job' = [job EXCEPT ![h].pc = step]

Init ==
  /\ repo \in {"sql", "memory"}
  /\ rows = <<>>
  /\ devices = [d \in Devices |-> NoRow]
  /\ events = [k \in EventKeys |-> 0]
  /\ hooks = [a \in Alerts |-> 0]
  /\ notified = [a \in Alerts |-> 0]
  /\ conn = NoHandler
  /\ job = [h \in Handlers |-> IdleJob]
  /\ posts = 0
  /\ reads = 0 /\ faults = 0 /\ restarts = 0

-----------------------------------------------------------------------------
(* POST /telemetry: SaveTelemetry.                                         *)

(* The payload was decoded.                                                *)
Receive(h, m) ==
  /\ job[h].pc = "idle" /\ posts < MaxPosts
  /\ posts' = posts + 1
  /\ job' = [job EXCEPT ![h] = [IdleJob EXCEPT !.pc = "begin", !.msg = m]]
  /\ UNCHANGED <<repo, rows, devices, events, hooks, notified, conn, reads, faults, restarts>>

(* Mutant: an interval is taken over only when the payload has one.        *)
UpsertSometimes(row, p) ==
  [total |-> row.total + 1, seq |-> p.seq,
   interval |-> IF p.interval > 0 THEN p.interval ELSE row.interval]

(* Mutant: an older telemetry does not set the sequence number back.       *)
UpsertNewest(row, p) ==
  [total |-> row.total + 1, seq |-> IF p.seq > row.seq THEN p.seq ELSE row.seq,
   interval |-> IF repo = "sql" THEN p.interval ELSE row.interval]

(* The row of the device afterwards.  SQLRepository takes a missing        *)
(* interval_sec for 60 before its UPSERT can keep the old one;              *)
(* InMemoryRepository does not set the column.                             *)
Upsert(row, p) ==
  LET excluded == IF p.interval = 0 THEN 60 ELSE p.interval IN
  [total |-> row.total + 1, seq |-> p.seq,
   interval |-> IF repo = "sql" /\ excluded > 0 THEN excluded ELSE row.interval]

(* The telemetry and the row of its device.                                *)
Store(m) ==
  /\ rows' = Append(rows, m)
  /\ devices' = [devices EXCEPT ![Payload[m].dev] = Upsert(@, Payload[m])]

(* InMemoryRepository: all of it under the mutex.                          *)
SaveMemory(h) ==
  /\ repo = "memory" /\ job[h].pc = "begin"
  /\ Store(job[h].msg)
  /\ Goto(h, "alert")
  /\ UNCHANGED <<repo, events, hooks, notified, conn, posts, reads, faults, restarts>>

(* db.Begin takes the connection and keeps it for the transaction.         *)
Begin(h) ==
  /\ repo = "sql" /\ job[h].pc = "begin" /\ conn = NoHandler
  /\ conn' = h
  /\ Goto(h, "insert")
  /\ UNCHANGED <<repo, rows, devices, events, hooks, notified, posts, reads, faults, restarts>>

BeginFails(h) ==
  /\ job[h].pc = "begin"
  /\ Fault
  /\ Goto(h, "error")
  /\ UNCHANGED <<repo, rows, devices, events, hooks, notified, conn, posts, reads, restarts>>

(* Mutant: the row is inserted outside of the transaction.                 *)
InsertAtOnce(h) ==
  /\ job[h].pc = "insert"
  /\ rows' = Append(rows, job[h].msg)
  /\ Goto(h, "upsert")
  /\ UNCHANGED <<repo, devices, events, hooks, notified, conn, posts, reads, faults, restarts>>

(* INSERT INTO telemetries: nobody sees the row before the commit.         *)
InsertRow(h) ==
  /\ job[h].pc = "insert"
  /\ Goto(h, "upsert")
  /\ UNCHANGED <<repo, rows, devices, events, hooks, notified, conn, posts, reads, faults,
                 restarts>>

(* INSERT INTO devices ... ON CONFLICT DO UPDATE: nor the new total.       *)
UpsertDevice(h) ==
  /\ job[h].pc = "upsert"
  /\ Goto(h, "commit")
  /\ UNCHANGED <<repo, rows, devices, events, hooks, notified, conn, posts, reads, faults,
                 restarts>>

(* Mutant: the transaction gives its connection back with the answer only. *)
CommitKeepsConn(h) ==
  /\ job[h].pc = "commit"
  /\ Store(job[h].msg)
  /\ Goto(h, "alert")
  /\ UNCHANGED <<repo, events, hooks, notified, conn, posts, reads, faults, restarts>>

Commit(h) ==
  /\ job[h].pc = "commit"
  /\ Store(job[h].msg)
  /\ conn' = NoHandler
  /\ Goto(h, "alert")
  /\ UNCHANGED <<repo, events, hooks, notified, posts, reads, faults, restarts>>

(* Mutant: the return after the 500 is forgotten.                          *)
TxFailsOn(h) ==
  /\ job[h].pc \in {"insert", "upsert", "commit"}
  /\ Fault
  /\ conn' = NoHandler
  /\ Goto(h, "alert")
  /\ UNCHANGED <<repo, rows, devices, events, hooks, notified, posts, reads, restarts>>

(* A statement or the commit fails: the deferred Rollback undoes all and   *)
(* gives the connection back; 500 is answered.                             *)
TxFails(h) ==
  /\ job[h].pc \in {"insert", "upsert", "commit"}
  /\ Fault
  /\ conn' = NoHandler
  /\ Goto(h, "error")
  /\ UNCHANGED <<repo, rows, devices, events, hooks, notified, posts, reads, restarts>>

-----------------------------------------------------------------------------
(* EvaluateAndAlert: the alerts of the stored telemetry, one after the     *)
(* other.                                                                  *)

Pending(h) == {i \in DOMAIN Rules : job[h].next <= i /\ Triggers(job[h].msg, Rules[i])}

HasAlert(h) == job[h].pc = "alert" /\ Pending(h) # {}

NextAlert(h) == CHOOSE i \in Pending(h) : \A k \in Pending(h) : i <= k

CurrentAlert(h) == <<job[h].msg, Rules[NextAlert(h)]>>

(* SendAlertAsync: go func() ...  A webhook URL is configured; without one *)
(* there is nobody to notify.                                              *)
Spawn(h) == hooks' = [hooks EXCEPT ![CurrentAlert(h)] = @ + 1]

(* Mutant: the loop over the alerts steps over every second one.           *)
AlertSkips(h) ==
  /\ HasAlert(h) /\ ConnFree
  /\ events' = [events EXCEPT ![CurrentAlert(h)] = @ + 1]
  /\ Spawn(h)
  /\ job' = [job EXCEPT ![h].next = NextAlert(h) + 2]
  /\ UNCHANGED <<repo, rows, devices, notified, conn, posts, reads, faults, restarts>>

Alert(h) ==
  /\ HasAlert(h) /\ ConnFree
  /\ events' = [events EXCEPT ![CurrentAlert(h)] = @ + 1]
  /\ Spawn(h)
  /\ job' = [job EXCEPT ![h].next = NextAlert(h) + 1]
  /\ UNCHANGED <<repo, rows, devices, notified, conn, posts, reads, faults, restarts>>

(* The error of SaveEvent is discarded, the webhook is called all the      *)
(* same.                                                                   *)
AlertUnsaved(h) ==
  /\ HasAlert(h)
  /\ Fault
  /\ Spawn(h)
  /\ job' = [job EXCEPT ![h].next = NextAlert(h) + 1]
  /\ UNCHANGED <<repo, rows, devices, events, notified, conn, posts, reads, restarts>>

EndAlerts(h) ==
  /\ job[h].pc = "alert" /\ ~ HasAlert(h)
  /\ Goto(h, "reply")
  /\ UNCHANGED <<repo, rows, devices, events, hooks, notified, conn, posts, reads, faults,
                 restarts>>

(* SendAlert: the webhook answers.                                         *)
SendAlert(a) ==
  /\ hooks[a] > 0
  /\ hooks' = [hooks EXCEPT ![a] = @ - 1]
  /\ notified' = [notified EXCEPT ![a] = @ + 1]
  /\ UNCHANGED <<repo, rows, devices, events, conn, job, posts, reads, faults, restarts>>

(* No answer, or one of 400 and above: logged, never tried again.          *)
SendAlertFails(a) ==
  /\ hooks[a] > 0
  /\ hooks' = [hooks EXCEPT ![a] = @ - 1]
  /\ UNCHANGED <<repo, rows, devices, events, notified, conn, job, posts, reads, faults, restarts>>

-----------------------------------------------------------------------------
(* HandleEvents, and the handlers that read.                               *)

ReceiveEvent(h, m) ==
  /\ job[h].pc = "idle" /\ posts < MaxPosts
  /\ posts' = posts + 1
  /\ job' = [job EXCEPT ![h] = [IdleJob EXCEPT !.pc = "event", !.msg = m]]
  /\ UNCHANGED <<repo, rows, devices, events, hooks, notified, conn, reads, faults, restarts>>

SaveEvent(h) ==
  /\ job[h].pc = "event" /\ ConnFree
  /\ events' = [events EXCEPT ![<<job[h].msg, Reported>>] = @ + 1]
  /\ Goto(h, "reply")
  /\ UNCHANGED <<repo, rows, devices, hooks, notified, conn, posts, reads, faults, restarts>>

SaveEventFails(h) ==
  /\ job[h].pc = "event"
  /\ Fault
  /\ Goto(h, "error")
  /\ UNCHANGED <<repo, rows, devices, events, hooks, notified, conn, posts, reads, restarts>>

(* GET /devices, by somebody who looks for d.                              *)
ReceiveList(h, d) ==
  /\ job[h].pc = "idle" /\ reads < MaxReads
  /\ reads' = reads + 1
  /\ job' = [job EXCEPT ![h] = [IdleJob EXCEPT !.pc = "list", !.dev = d,
                                              !.asked = devices[d].total,
                                              !.before = faults]]
  /\ UNCHANGED <<repo, rows, devices, events, hooks, notified, conn, posts, faults, restarts>>

(* GET /telemetry/history.                                                 *)
ReceiveHistory(h) ==
  /\ job[h].pc = "idle" /\ reads < MaxReads
  /\ reads' = reads + 1
  /\ Goto(h, "history")
  /\ UNCHANGED <<repo, rows, devices, events, hooks, notified, conn, posts, faults, restarts>>

(* The SELECT over the devices: in SQL it keeps the connection until the   *)
(* rows are closed; in memory it collects pointers to the rows.            *)
QueryDevices(h) ==
  /\ job[h].pc = "list" /\ ConnFree
  /\ conn' = IF repo = "sql" THEN h ELSE conn
  /\ job' = [job EXCEPT ![h].pc = "listing", ![h].list = devices[job[h].dev],
                        ![h].found = devices[job[h].dev].total > 0]
  /\ UNCHANGED <<repo, rows, devices, events, hooks, notified, posts, reads, faults, restarts>>

(* The deferred rows.Close; the list is answered.  The rows behind the     *)
(* pointers of the in-memory list are read now, without the mutex: every   *)
(* column is as it was at some moment since.                               *)
EndListing(h) ==
  /\ job[h].pc = "listing"
  /\ \/ /\ repo = "sql"
        /\ conn' = NoHandler
        /\ Goto(h, "reply")
     \/ /\ repo = "memory"
        /\ LET since == {i \in RowsOf(job[h].dev) : CountAt(job[h].dev, i) > job[h].list.total}
           IN \E t \in job[h].list.total .. devices[job[h].dev].total,
                 q \in {job[h].list.seq} \cup {Payload[rows[i]].seq : i \in since} :
                job' = [job EXCEPT ![h].pc = "reply", ![h].list.total = t, ![h].list.seq = q]
        /\ UNCHANGED conn
  /\ UNCHANGED <<repo, rows, devices, events, hooks, notified, posts, reads, faults, restarts>>

(* The error is logged only: an empty list is answered, with 200.          *)
QueryDevicesFails(h) ==
  /\ job[h].pc = "list"
  /\ Fault
  /\ Goto(h, "reply")
  /\ UNCHANGED <<repo, rows, devices, events, hooks, notified, conn, posts, reads, restarts>>

(* GetTelemetryHistory keeps the connection while it scans the rows.       *)
QueryHistory(h) ==
  /\ job[h].pc = "history" /\ ConnFree
  /\ conn' = IF repo = "sql" THEN h ELSE conn
  /\ Goto(h, "scan")
  /\ UNCHANGED <<repo, rows, devices, events, hooks, notified, posts, reads, faults, restarts>>

(* The deferred rows.Close.                                                *)
EndScan(h) ==
  /\ job[h].pc = "scan"
  /\ conn' = IF repo = "sql" THEN NoHandler ELSE conn
  /\ Goto(h, "reply")
  /\ UNCHANGED <<repo, rows, devices, events, hooks, notified, posts, reads, faults, restarts>>

QueryHistoryFails(h) ==
  /\ job[h].pc = "history"
  /\ Fault
  /\ Goto(h, "error")
  /\ UNCHANGED <<repo, rows, devices, events, hooks, notified, conn, posts, reads, restarts>>

(* rows.Next fails half-way, in ListDevices or GetTelemetryHistory, which  *)
(* gives the connection back; rows.Err is not asked: what has been read is *)
(* answered, with 200.                                                     *)
RowsFail(h) ==
  /\ job[h].pc \in {"listing", "scan"}
  /\ Fault
  /\ conn' = NoHandler
  /\ \E read \in {job[h].found, FALSE} :
       job' = [job EXCEPT ![h].pc = "reply", ![h].found = read]
  /\ UNCHANGED <<repo, rows, devices, events, hooks, notified, posts, reads, restarts>>

(* rows.Scan fails: this row is left out, and the next one is read.        *)
ScanFails(h) ==
  /\ job[h].pc \in {"listing", "scan"}
  /\ Fault
  /\ \E read \in {job[h].found, FALSE} : job' = [job EXCEPT ![h].found = read]
  /\ UNCHANGED <<repo, rows, devices, events, hooks, notified, conn, posts, reads, restarts>>

-----------------------------------------------------------------------------

(* 200 or 500.  (After a stored telemetry, GoCommands comes first.)        *)
Respond(h) ==
  /\ job[h].pc \in {"reply", "error"}
  /\ job' = [job EXCEPT ![h] = IdleJob]
  /\ UNCHANGED <<repo, rows, devices, events, hooks, notified, conn, posts, reads, faults, restarts>>

(* Goroutines and an open transaction are gone; the in-memory tables too.  *)
Restart ==
  /\ restarts < MaxRestarts
  /\ restarts' = restarts + 1
  /\ hooks' = [a \in Alerts |-> 0]
  /\ conn' = NoHandler
  /\ job' = [h \in Handlers |-> IdleJob]
  /\ \/ /\ repo = "sql"
        /\ UNCHANGED <<rows, devices, events>>
     \/ /\ repo = "memory"
        /\ rows' = <<>>
        /\ devices' = [d \in Devices |-> NoRow]
        /\ events' = [k \in EventKeys |-> 0]
  /\ UNCHANGED <<repo, notified, posts, reads, faults>>

Work(h) ==
  \/ SaveMemory(h)
  \/ Begin(h) \/ BeginFails(h) \/ InsertRow(h) \/ UpsertDevice(h) \/ Commit(h) \/ TxFails(h)
  \/ Alert(h) \/ AlertUnsaved(h) \/ EndAlerts(h)
  \/ SaveEvent(h) \/ SaveEventFails(h)
  \/ QueryDevices(h) \/ EndListing(h) \/ QueryDevicesFails(h)
  \/ QueryHistory(h) \/ EndScan(h) \/ QueryHistoryFails(h)
  \/ RowsFail(h) \/ ScanFails(h)
  \/ Respond(h)

Next ==
  \/ \E h \in Handlers, m \in Telemetries : Receive(h, m) \/ ReceiveEvent(h, m)
  \/ \E h \in Handlers, d \in Devices : ReceiveList(h, d)
  \/ \E h \in Handlers : ReceiveHistory(h) \/ Work(h)
  \/ \E a \in Alerts : SendAlert(a) \/ SendAlertFails(a)
  \/ Restart

Spec == Init /\ [][Next]_vars

(* Goroutines run, and the pool serves those that wait for the connection  *)
(* in turn.                                                                *)
Fairness == \A h \in Handlers : SF_vars(Work(h))

FairSpec == Spec /\ Fairness

-----------------------------------------------------------------------------
(* Properties.                                                             *)

(* The handlers that keep the connection in SQLRepository.                 *)
Keeping == {"insert", "upsert", "commit", "listing", "scan"}

(* Every variable has its type, and the connection is kept exactly by the  *)
(* handler that is in a transaction or scans rows.                         *)
TypeOK ==
  /\ repo \in {"sql", "memory"}
  /\ rows \in Seq(Telemetries)
  /\ devices \in [Devices -> DeviceRows]
  /\ events \in [EventKeys -> Nat]
  /\ hooks \in [Alerts -> Nat]
  /\ notified \in [Alerts -> Nat]
  /\ conn \in Handlers \cup {NoHandler}
  /\ repo = "sql" => \A h \in Handlers : conn = h <=> job[h].pc \in Keeping
  /\ job \in [Handlers -> Jobs]
  /\ posts \in 0 .. MaxPosts
  /\ reads \in 0 .. MaxReads /\ faults \in 0 .. MaxFaults /\ restarts \in 0 .. MaxRestarts

(* SaveTelemetry, seen by every reader: total_telemetries of a device is   *)
(* the number of its telemetry rows, whichever statement failed and        *)
(* wherever the process stopped.                                           *)
TotalsAgree == \A d \in Devices : devices[d].total = Cardinality(RowsOf(d))

(* The UPSERT: all columns of a device come from one telemetry, the last   *)
(* one stored - which a retry may make an older one - and an interval of   *)
(* the device that the payload leaves out is shown as 60.                  *)
DeviceShowsLastRow ==
  \A d \in Devices : \A i \in RowsOf(d) :
    (\A k \in RowsOf(d) : k <= i) =>
      LET p == Payload[rows[i]] IN
      /\ devices[d].seq = p.seq
      /\ repo = "sql" => devices[d].interval = IF p.interval = 0 THEN 60 ELSE p.interval

(* HandleListDevices, answered with 200: an entry has every telemetry that *)
(* was stored before the list was asked for.  In SQL it is of one moment:  *)
(* its sequence number is that of the telemetry it counts last; the        *)
(* pointers of the in-memory store give no such promise, only columns that *)
(* once were so.  A device that was stored by then may be missing, but     *)
(* only if a statement, or a row of one, has failed since.                 *)
ListIsCurrent ==
  \A h \in Handlers :
    LET j == job[h] IN
    j.dev \in Devices /\ j.pc = "reply" =>
      /\ j.found =>
           /\ j.asked <= j.list.total /\ j.list.total <= Cardinality(RowsOf(j.dev))
           /\ repo = "sql" =>
                \A i \in RowsOf(j.dev) :
                  CountAt(j.dev, i) = j.list.total => j.list.seq = Payload[rows[i]].seq
      /\ ~ j.found => j.asked = 0 \/ j.before < faults

(* The rows of m.                                                          *)
Stored(m) == Cardinality({i \in DOMAIN rows : rows[i] = m})

(* Handlers that stored m and have not come to the alert yet.              *)
StillToAlert(m, rule) ==
  {h \in Handlers : job[h].pc = "alert" /\ job[h].msg = m
                      /\ \E i \in Pending(h) : Rules[i] = rule}

(* Where the repository is of one mind about a rule: at exactly 35 degrees *)
(* the comment of DefaultThresholds contradicts the code and docs/03, and  *)
(* at a battery level of 0 docs/03 contradicts the code.                   *)
IsAgreed(m, rule) ==
  /\ rule = "HIGH_TEMPERATURE" => Payload[m].tenths # 350
  /\ rule = "LOW_BATTERY" => Payload[m].batt # 0

(* The table of rules in docs/03_server_requirements.md.                   *)
ShouldAlert(m, rule) ==
  LET p == Payload[m] IN
  \/ rule = "HIGH_TEMPERATURE" /\ p.tenths > 350
  \/ rule = "LOW_TEMPERATURE" /\ p.tenths < 0
  \/ rule = "LOW_BATTERY" /\ p.batt < 20
  \/ rule = "WEAK_SIGNAL" /\ p.rssi < -85

(* EvaluateAndAlert: an event is recorded once for each stored telemetry   *)
(* that the documented rules name, or will be - unless its statement       *)
(* failed or the process stopped in between; and never for any other.      *)
AlertsAreAccounted ==
  \A m \in Telemetries, rule \in RuleNames : IsAgreed(m, rule) =>
    LET expected == IF ShouldAlert(m, rule) THEN Stored(m) ELSE 0
        settled == events[<<m, rule>>] + Cardinality(StillToAlert(m, rule))
    IN /\ settled <= expected
       /\ restarts = 0 => expected <= settled + faults

(* SaveTelemetry comes first: people are notified only of telemetry that   *)
(* is in the table, and once for each of its rows - also when the event    *)
(* itself could not be recorded.  (The in-memory tables forget what was    *)
(* notified when the process restarts.)                                    *)
NotifiedIsStored ==
  repo = "sql" \/ restarts = 0 =>
    \A m \in Telemetries, rule \in RuleNames :
      notified[<<m, rule>>] + hooks[<<m, rule>>] + Cardinality(StillToAlert(m, rule))
        <= IF Triggers(m, rule) THEN Stored(m) ELSE 0

(* With one connection for transactions, alerts, events and reads, every   *)
(* request is answered: nobody waits for a connection that is kept by a    *)
(* handler which waits itself.                                             *)
EveryRequestEnds == \A h \in Handlers : job[h].pc # "idle" ~> job[h].pc = "idle"
=============================================================================
