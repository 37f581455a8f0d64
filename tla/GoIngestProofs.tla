--------------------------- MODULE GoIngestProofs ---------------------------
(***************************************************************************)
(* Proofs about GoIngest: the invariants of its run, for every set of      *)
(* devices, payloads and handlers, and every bound.                        *)
(***************************************************************************)
EXTENDS GoIngest, FiniteSetTheorems, TLAPS

LEMMA RulesAreFour ==
  /\ DOMAIN Rules = 1 .. 4
  /\ \A i \in 1 .. 4 : Rules[i] \in RuleNames
  /\ \A i \in 1 .. 4, k \in 1 .. 4 : Rules[i] = Rules[k] => i = k
  /\ \A i \in 1 .. 4 : Rules[i] # Reported
<1>1. DOMAIN Rules = 1 .. 4
  BY DEF Rules
<1>2. \A i \in 1 .. 4, k \in 1 .. 4 : Rules[i] = Rules[k] => i = k
  BY DEF Rules
<1>3. \A i \in 1 .. 4 : Rules[i] # Reported
  BY DEF Rules, Reported
<1> QED
  BY <1>1, <1>2, <1>3 DEF RuleNames

LEMMA RuleNamesNoReport == Reported \notin RuleNames
BY RulesAreFour DEF RuleNames

(* What a payload says has its type.                                       *)
LEMMA PayloadType ==
  ASSUME NEW m \in Telemetries
  PROVE  /\ Payload[m].dev \in Devices
         /\ Payload[m].seq \in Nat
         /\ Payload[m].interval \in Nat
BY IngestAssumption

-----------------------------------------------------------------------------
(* Type correctness.  TypeOK is not inductive: that a stored row is a      *)
(* telemetry, and the device of a list a device, needs that the job of a   *)
(* handler fits to its step.                                               *)

JobOK(j) ==
  /\ j \in Jobs
  /\ j.pc \in {"begin", "insert", "upsert", "commit", "alert", "event"} => j.msg \in Telemetries
  /\ j.pc \in {"begin", "insert", "upsert", "commit"} => j.next = 1
  /\ j.pc \in {"list", "listing"} => j.dev \in Devices
  /\ j.pc \notin {"list", "listing", "reply", "error"} => j.dev = NoTelemetry

TypeInv == TypeOK /\ \A h \in Handlers : JobOK(job[h])

(* The alert that comes next is the first of those that are left.          *)
LEMMA NextAlertIsFirst ==
  ASSUME TypeInv, NEW h \in Handlers, HasAlert(h)
  PROVE  /\ NextAlert(h) \in 1 .. 4 /\ NextAlert(h) \in Pending(h)
         /\ \A k \in Pending(h) : NextAlert(h) <= k
         /\ job[h].pc = "alert" /\ job[h].msg \in Telemetries
         /\ CurrentAlert(h) = <<job[h].msg, Rules[NextAlert(h)]>>
         /\ CurrentAlert(h) \in Alerts
<1>1. Pending(h) \subseteq 1 .. 4 /\ Pending(h) # {}
  BY RulesAreFour DEF Pending, HasAlert
<1>2. \E i \in Pending(h) : \A k \in Pending(h) : i <= k
  BY <1>1
<1>3. NextAlert(h) \in Pending(h) /\ \A k \in Pending(h) : NextAlert(h) <= k
  BY <1>2 DEF NextAlert
<1>4. job[h].pc = "alert" /\ job[h].msg \in Telemetries
  BY DEF HasAlert, TypeInv, JobOK
<1>5. Rules[NextAlert(h)] \in RuleNames
  BY <1>1, <1>3, RulesAreFour
<1> QED
  BY <1>1, <1>3, <1>4, <1>5 DEF CurrentAlert, Alerts

LEMMA IdleJobOK == JobOK(IdleJob)
BY IngestAssumption DEF JobOK, IdleJob, Jobs, Steps, DeviceRows, NoRow

LEMMA InitType == Init => TypeInv
<1> SUFFICES ASSUME Init PROVE TypeInv
  OBVIOUS
<1>1. \A h \in Handlers : job[h] = IdleJob
  BY DEF Init
<1>2. \A h \in Handlers : JobOK(job[h]) /\ job[h] \in Jobs /\ job[h].pc = "idle"
  BY <1>1, IdleJobOK DEF JobOK, IdleJob
<1>3. job \in [Handlers -> Jobs]
  BY <1>2 DEF Init
<1>4. devices \in [Devices -> DeviceRows] /\ rows \in Seq(Telemetries)
  BY DEF Init, DeviceRows, NoRow
<1>5. \A h \in Handlers : conn = h <=> job[h].pc \in Keeping
  BY <1>2, IngestAssumption DEF Init, Keeping
<1>6. posts \in 0 .. MaxPosts /\ reads \in 0 .. MaxReads /\ faults \in 0 .. MaxFaults
      /\ restarts \in 0 .. MaxRestarts
  BY IngestAssumption DEF Init
<1> QED
  BY <1>2, <1>3, <1>4, <1>5, <1>6 DEF Init, TypeOK, TypeInv

DataOK ==
  /\ repo \in {"sql", "memory"}
  /\ rows \in Seq(Telemetries)
  /\ devices \in [Devices -> DeviceRows]
  /\ events \in [EventKeys -> Nat]
  /\ hooks \in [Alerts -> Nat]
  /\ notified \in [Alerts -> Nat]

CountersOK ==
  /\ posts \in 0 .. MaxPosts
  /\ reads \in 0 .. MaxReads
  /\ faults \in 0 .. MaxFaults
  /\ restarts \in 0 .. MaxRestarts

(* How a step may treat the connection while h changes to step pc.         *)
KeepsConn(h, pc) ==
  \/ conn' = conn /\ (job[h].pc \in Keeping <=> pc \in Keeping)
  \/ conn = NoHandler /\ conn' = h /\ pc \in Keeping
  \/ job[h].pc \in Keeping /\ conn' = NoHandler /\ pc \notin Keeping

(* A step that replaces the variables of one handler by good ones.         *)
LEMMA OneJob ==
  ASSUME TypeInv, NEW h \in Handlers, NEW new, JobOK(new),
         job' = [job EXCEPT ![h] = new],
         repo' = repo, conn' \in {conn, h, NoHandler},
         repo = "sql" => KeepsConn(h, new.pc),
         DataOK', CountersOK'
  PROVE  TypeInv'
<1>1. new \in Jobs
  BY DEF JobOK
<1>2. job' \in [Handlers -> Jobs]
  BY <1>1 DEF TypeInv, TypeOK
<1>3. ASSUME NEW g \in Handlers PROVE JobOK(job'[g])
  BY <1>3 DEF TypeInv, TypeOK
<1>4. conn' \in Handlers \cup {NoHandler}
  BY DEF TypeInv, TypeOK
<1>5. ASSUME repo = "sql", NEW g \in Handlers
      PROVE  conn' = g <=> job'[g].pc \in Keeping
  <2>1. job'[h] = new /\ (g # h => job'[g] = job[g])
    BY DEF TypeInv, TypeOK
  <2>2. \A i \in Handlers : conn = i <=> job[i].pc \in Keeping
    BY <1>5 DEF TypeInv, TypeOK
  <2>3. NoHandler \notin Handlers
    BY IngestAssumption
  <2> QED
    BY <1>5, <2>1, <2>2, <2>3 DEF KeepsConn
<1> QED
  BY <1>2, <1>3, <1>4, <1>5 DEF TypeInv, TypeOK, DataOK, CountersOK

TxSteps == {"begin", "insert", "upsert", "commit"}

(* A step that only moves a handler on.                                    *)
LEMMA GotoType ==
  ASSUME TypeInv, NEW h \in Handlers, NEW step \in Steps, Goto(h, step),
         \/ step \in {"reply", "error"}
         \/ job[h].pc \in TxSteps /\ step \in TxSteps \cup {"alert"}
         \/ job[h].pc \in {"idle", "history"} /\ step \in {"history", "scan"},
         repo' = repo, conn' \in {conn, h, NoHandler},
         repo = "sql" => KeepsConn(h, step),
         DataOK', CountersOK'
  PROVE  TypeInv'
<1> DEFINE j == job[h]
           new == [j EXCEPT !.pc = step]
<1>1. j \in Jobs /\ JobOK(j)
  BY DEF TypeInv, TypeOK
<1>2. new \in Jobs
  BY <1>1 DEF Jobs
<1>3. new.pc = step /\ new.msg = j.msg /\ new.next = j.next /\ new.dev = j.dev
  BY <1>1 DEF Jobs
<1>4. job' = [job EXCEPT ![h] = new]
  BY DEF Goto
<1> HIDE DEF new
<1>5. JobOK(new)
  BY <1>1, <1>2, <1>3 DEF JobOK, TxSteps
<1>6. repo = "sql" => KeepsConn(h, new.pc)
  BY <1>3
<1> QED
  BY <1>4, <1>5, <1>6, OneJob

(* The rows of a telemetry and of its device.                              *)
LEMMA StoreType ==
  ASSUME TypeInv, NEW m \in Telemetries, Store(m)
  PROVE  rows' \in Seq(Telemetries) /\ devices' \in [Devices -> DeviceRows]
<1> DEFINE d == Payload[m].dev
<1>1. rows' \in Seq(Telemetries)
  BY DEF Store, TypeInv, TypeOK
<1>2. devices[d] \in DeviceRows /\ d \in Devices
  BY PayloadType DEF TypeInv, TypeOK
<1>3. Upsert(devices[d], Payload[m]) \in DeviceRows
  BY <1>2, PayloadType DEF Upsert, DeviceRows
<1>4. devices' = [devices EXCEPT ![d] = Upsert(devices[d], Payload[m])]
  BY DEF Store
<1> QED
  BY <1>1, <1>3, <1>4 DEF TypeInv, TypeOK

LEMMA TypeParts == TypeInv => DataOK /\ CountersOK
BY DEF TypeInv, TypeOK, DataOK, CountersOK

LEMMA FaultType ==
  ASSUME TypeInv, Fault
  PROVE  repo = "sql" /\ faults' \in 0 .. MaxFaults /\ faults' = faults + 1
BY IngestAssumption DEF Fault, TypeInv, TypeOK

(* The steps of a handler keep the types.                                  *)
LEMMA WorkType ==
  ASSUME TypeInv, NEW h \in Handlers, Work(h)
  PROVE  TypeInv'
<1> DEFINE j == job[h]
<1> USE TypeParts
<1>0. j \in Jobs /\ JobOK(j)
  BY DEF TypeInv, TypeOK
<1>1. CASE SaveMemory(h)
  <2>1. DataOK' /\ CountersOK'
    BY <1>0, <1>1, StoreType DEF SaveMemory, DataOK, CountersOK, JobOK
  <2> QED
    BY <1>1, <2>1, GotoType DEF SaveMemory, Steps, TxSteps
<1>2. CASE Begin(h)
  <2>1. DataOK' /\ CountersOK'
    BY <1>2 DEF Begin, DataOK, CountersOK
  <2> QED
    BY <1>2, <2>1, GotoType DEF Begin, Steps, TxSteps, KeepsConn, Keeping
<1>3. CASE BeginFails(h)
  <2>1. DataOK' /\ CountersOK'
    BY <1>3, FaultType DEF BeginFails, DataOK, CountersOK
  <2> QED
    BY <1>3, <2>1, GotoType DEF BeginFails, Steps, KeepsConn, Keeping
<1>4. CASE InsertRow(h)
  <2>1. DataOK' /\ CountersOK'
    BY <1>4 DEF InsertRow, DataOK, CountersOK
  <2> QED
    BY <1>4, <2>1, GotoType DEF InsertRow, Steps, TxSteps, KeepsConn, Keeping
<1>5. CASE UpsertDevice(h)
  <2>1. DataOK' /\ CountersOK'
    BY <1>5 DEF UpsertDevice, DataOK, CountersOK
  <2> QED
    BY <1>5, <2>1, GotoType DEF UpsertDevice, Steps, TxSteps, KeepsConn, Keeping
<1>6. CASE Commit(h)
  <2>1. DataOK' /\ CountersOK'
    BY <1>0, <1>6, StoreType DEF Commit, DataOK, CountersOK, JobOK
  <2> QED
    BY <1>6, <2>1, GotoType DEF Commit, Steps, TxSteps, KeepsConn, Keeping
<1>7. CASE TxFails(h)
  <2>1. DataOK' /\ CountersOK'
    BY <1>7, FaultType DEF TxFails, DataOK, CountersOK
  <2> QED
    BY <1>7, <2>1, GotoType DEF TxFails, Steps, KeepsConn, Keeping
<1>8. ASSUME HasAlert(h), job' = [job EXCEPT ![h].next = NextAlert(h) + 1],
             repo' = repo, conn' = conn, DataOK', CountersOK'
      PROVE  TypeInv'
  <2> DEFINE new == [j EXCEPT !.next = NextAlert(h) + 1]
  <2>1. NextAlert(h) + 1 \in Nat /\ j.pc = "alert"
    BY <1>8, NextAlertIsFirst
  <2>2. new \in Jobs /\ new.pc = j.pc /\ new.msg = j.msg /\ new.dev = j.dev
    BY <1>0, <2>1 DEF Jobs
  <2>3. job' = [job EXCEPT ![h] = new]
    BY <1>8
  <2> HIDE DEF new
  <2>4. JobOK(new) /\ KeepsConn(h, new.pc)
    BY <1>0, <1>8, <2>1, <2>2 DEF JobOK, KeepsConn
  <2> QED
    BY <1>8, <2>3, <2>4, OneJob
<1>9. CASE Alert(h)
  <2>1. CurrentAlert(h) \in EventKeys /\ CurrentAlert(h) \in Alerts
    BY <1>9, NextAlertIsFirst DEF Alert, Alerts, EventKeys
  <2>2. DataOK' /\ CountersOK'
    BY <1>9, <2>1 DEF Alert, Spawn, DataOK, CountersOK
  <2> QED
    BY <1>8, <1>9, <2>2 DEF Alert
<1>10. CASE AlertUnsaved(h)
  <2>1. CurrentAlert(h) \in Alerts
    BY <1>10, NextAlertIsFirst DEF AlertUnsaved
  <2>2. DataOK' /\ CountersOK'
    BY <1>10, <2>1, FaultType DEF AlertUnsaved, Spawn, DataOK, CountersOK
  <2> QED
    BY <1>8, <1>10, <2>2 DEF AlertUnsaved
<1>11. CASE EndAlerts(h)
  <2>1. DataOK' /\ CountersOK'
    BY <1>11 DEF EndAlerts, DataOK, CountersOK
  <2> QED
    BY <1>11, <2>1, GotoType DEF EndAlerts, Steps, KeepsConn, Keeping
<1>12. CASE SaveEvent(h)
  <2>1. <<j.msg, Reported>> \in EventKeys
    BY <1>0, <1>12 DEF SaveEvent, JobOK, EventKeys
  <2>2. DataOK' /\ CountersOK'
    BY <1>12, <2>1 DEF SaveEvent, DataOK, CountersOK
  <2> QED
    BY <1>12, <2>2, GotoType DEF SaveEvent, Steps, KeepsConn, Keeping
<1>13. CASE SaveEventFails(h)
  <2>1. DataOK' /\ CountersOK'
    BY <1>13, FaultType DEF SaveEventFails, DataOK, CountersOK
  <2> QED
    BY <1>13, <2>1, GotoType DEF SaveEventFails, Steps, KeepsConn, Keeping
<1>14. CASE QueryDevices(h)
  <2> DEFINE found == devices[j.dev].total > 0
             new == [j EXCEPT !.pc = "listing", !.list = devices[j.dev], !.found = found]
  <2>0. found \in BOOLEAN
    OBVIOUS
  <2>1. devices[j.dev] \in DeviceRows /\ j.pc = "list" /\ j.dev \in Devices
    BY <1>0, <1>14 DEF QueryDevices, JobOK, TypeInv, TypeOK
  <2>3. job' = [job EXCEPT ![h] = new]
    BY <1>14 DEF QueryDevices
  <2> HIDE DEF found
  <2>2. new \in Jobs /\ new.pc = "listing" /\ new.msg = j.msg /\ new.dev = j.dev
    BY <1>0, <2>0, <2>1 DEF Jobs, Steps
  <2> HIDE DEF new
  <2>4. JobOK(new)
    BY <1>0, <2>1, <2>2 DEF JobOK
  <2>5. conn' \in {conn, h, NoHandler} /\ (repo = "sql" => KeepsConn(h, new.pc))
    BY <1>14, <2>2 DEF QueryDevices, KeepsConn, Keeping, ConnFree
  <2>6. DataOK' /\ CountersOK' /\ repo' = repo
    BY <1>14 DEF QueryDevices, DataOK, CountersOK
  <2> QED
    BY <2>3, <2>4, <2>5, <2>6, OneJob
<1>15. CASE EndListing(h)
  <2>1. DataOK' /\ CountersOK' /\ repo' = repo /\ j.pc = "listing"
    BY <1>15 DEF EndListing, DataOK, CountersOK
  <2>2. CASE repo = "sql"
    BY <1>15, <2>1, <2>2, GotoType DEF EndListing, Steps, KeepsConn, Keeping
  <2>3. CASE repo = "memory"
    <3> DEFINE since == {i \in RowsOf(j.dev) : CountAt(j.dev, i) > j.list.total}
    <3>1. PICK t \in j.list.total .. devices[j.dev].total,
               q \in {j.list.seq} \cup {Payload[rows[i]].seq : i \in since} :
                 job' = [job EXCEPT ![h].pc = "reply", ![h].list.total = t, ![h].list.seq = q]
      BY <1>15, <2>3 DEF EndListing
    <3>2. j.dev \in Devices /\ devices[j.dev].total \in Nat
      BY <1>0, <2>1 DEF JobOK, TypeInv, TypeOK, DeviceRows
    <3>3. j.list \in DeviceRows
      BY <1>0 DEF Jobs
    <3>4. j.list.total \in Nat /\ j.list.seq \in Nat
      BY <3>3 DEF DeviceRows
    <3>5. \A i \in since : Payload[rows[i]].seq \in Nat
      <4>1. \A i \in DOMAIN rows : rows[i] \in Telemetries
        BY DEF TypeInv, TypeOK
      <4> QED
        BY <4>1, PayloadType DEF RowsOf
    <3>6. t \in Nat /\ q \in Nat
      BY <3>1, <3>2, <3>4, <3>5
    <3> DEFINE list == [j.list EXCEPT !.total = t, !.seq = q]
               new == [j EXCEPT !.pc = "reply", !.list = list]
    <3>7. list \in DeviceRows
      BY <3>3, <3>6 DEF DeviceRows
    <3>8. job' = [job EXCEPT ![h] = new]
      BY <3>1, <1>0, <3>3 DEF Jobs, DeviceRows
    <3> HIDE DEF list
    <3>9. new \in Jobs /\ new.pc = "reply"
      BY <1>0, <3>7 DEF Jobs, Steps
    <3> HIDE DEF new
    <3>10. JobOK(new)
      BY <3>9 DEF JobOK
    <3>11. conn' = conn
      BY <1>15, <2>3 DEF EndListing
    <3> QED
      BY <2>1, <2>3, <3>8, <3>10, <3>11, OneJob
  <2> QED
    BY <2>2, <2>3 DEF TypeInv, TypeOK
<1>16. CASE QueryDevicesFails(h)
  <2>1. DataOK' /\ CountersOK'
    BY <1>16, FaultType DEF QueryDevicesFails, DataOK, CountersOK
  <2> QED
    BY <1>16, <2>1, GotoType DEF QueryDevicesFails, Steps, KeepsConn, Keeping
<1>17. CASE QueryHistory(h)
  <2>1. DataOK' /\ CountersOK'
    BY <1>17 DEF QueryHistory, DataOK, CountersOK
  <2> QED
    BY <1>17, <2>1, GotoType DEF QueryHistory, Steps, KeepsConn, Keeping, ConnFree
<1>18. CASE EndScan(h)
  <2>1. DataOK' /\ CountersOK'
    BY <1>18 DEF EndScan, DataOK, CountersOK
  <2> QED
    BY <1>18, <2>1, GotoType DEF EndScan, Steps, KeepsConn, Keeping
<1>19. CASE QueryHistoryFails(h)
  <2>1. DataOK' /\ CountersOK'
    BY <1>19, FaultType DEF QueryHistoryFails, DataOK, CountersOK
  <2> QED
    BY <1>19, <2>1, GotoType DEF QueryHistoryFails, Steps, KeepsConn, Keeping
<1>20. CASE Respond(h)
  <2>1. DataOK' /\ CountersOK' /\ repo' = repo
    BY <1>20 DEF Respond, DataOK, CountersOK
  <2>2. KeepsConn(h, IdleJob.pc)
    BY <1>20 DEF Respond, KeepsConn, Keeping, IdleJob
  <2> QED
    BY <1>20, <2>1, <2>2, IdleJobOK, OneJob DEF Respond
<1>21. CASE RowsFail(h)
  <2>1. DataOK' /\ CountersOK' /\ repo' = repo /\ conn' = NoHandler
        /\ j.pc \in {"listing", "scan"}
    BY <1>21, FaultType DEF RowsFail, DataOK, CountersOK
  <2>2. PICK read \in {j.found, FALSE} : job' = [job EXCEPT ![h].pc = "reply", ![h].found = read]
    BY <1>21 DEF RowsFail
  <2> DEFINE new == [j EXCEPT !.pc = "reply", !.found = read]
  <2>3. read \in BOOLEAN
    BY <1>0, <2>2 DEF Jobs
  <2>4. new \in Jobs /\ new.pc = "reply"
    BY <1>0, <2>3 DEF Jobs, Steps
  <2>5. job' = [job EXCEPT ![h] = new]
    BY <2>2
  <2> HIDE DEF new
  <2>6. JobOK(new) /\ KeepsConn(h, new.pc)
    BY <2>1, <2>4 DEF JobOK, KeepsConn, Keeping
  <2> QED
    BY <2>1, <2>5, <2>6, OneJob
<1>22. CASE ScanFails(h)
  <2>1. DataOK' /\ CountersOK' /\ repo' = repo /\ conn' = conn
    BY <1>22, FaultType DEF ScanFails, DataOK, CountersOK
  <2>2. PICK read \in {j.found, FALSE} : job' = [job EXCEPT ![h].found = read]
    BY <1>22 DEF ScanFails
  <2> DEFINE new == [j EXCEPT !.found = read]
  <2>3. read \in BOOLEAN
    BY <1>0, <2>2 DEF Jobs
  <2>4. /\ new \in Jobs /\ new.pc = j.pc /\ new.msg = j.msg /\ new.next = j.next
        /\ new.dev = j.dev
    BY <1>0, <2>3 DEF Jobs
  <2>5. job' = [job EXCEPT ![h] = new]
    BY <2>2
  <2> HIDE DEF new
  <2>6. JobOK(new) /\ KeepsConn(h, new.pc)
    BY <1>0, <2>1, <2>4 DEF JobOK, KeepsConn
  <2> QED
    BY <2>1, <2>5, <2>6, OneJob
<1> QED
  BY <1>1, <1>2, <1>3, <1>4, <1>5, <1>6, <1>7, <1>9, <1>10, <1>11, <1>12, <1>13, <1>14,
     <1>15, <1>16, <1>17, <1>18, <1>19, <1>20, <1>21, <1>22 DEF Work

(* The client sends one request more.                                      *)
LEMMA ClientType ==
  ASSUME TypeInv,
         \/ posts < MaxPosts /\ posts' = posts + 1 /\ reads' = reads
         \/ reads < MaxReads /\ reads' = reads + 1 /\ posts' = posts,
         UNCHANGED <<repo, rows, devices, events, hooks, notified, faults, restarts>>
  PROVE  DataOK' /\ CountersOK'
<1>1. MaxPosts \in Nat /\ MaxReads \in Nat
  BY IngestAssumption
<1>2. posts' \in 0 .. MaxPosts /\ reads' \in 0 .. MaxReads
  BY <1>1 DEF TypeInv, TypeOK
<1> QED
  BY <1>2, TypeParts DEF DataOK, CountersOK

(* A request comes in.                                                     *)
LEMMA RequestType ==
  ASSUME TypeInv, NEW h \in Handlers,
         \/ \E m \in Telemetries : Receive(h, m) \/ ReceiveEvent(h, m)
         \/ \E d \in Devices : ReceiveList(h, d)
         \/ ReceiveHistory(h)
  PROVE  TypeInv'
<1> USE TypeParts
<1>0. IdleJob \in Jobs /\ JobOK(IdleJob)
  BY IdleJobOK DEF JobOK
<1>1. ASSUME NEW step \in {"begin", "event"}, NEW m \in Telemetries,
             job[h].pc = "idle", job' = [job EXCEPT ![h] = [IdleJob EXCEPT !.pc = step, !.msg = m]],
             UNCHANGED <<repo, conn>>, DataOK', CountersOK'
      PROVE  TypeInv'
  <2> DEFINE new == [IdleJob EXCEPT !.pc = step, !.msg = m]
  <2>1. /\ new \in Jobs /\ new.pc = step /\ new.msg = m
        /\ new.next = IdleJob.next /\ new.dev = IdleJob.dev
    BY <1>0 DEF Jobs, Steps
  <2>2. job' = [job EXCEPT ![h] = new]
    BY <1>1
  <2> HIDE DEF new
  <2>3. JobOK(new) /\ KeepsConn(h, new.pc)
    BY <1>0, <1>1, <2>1 DEF JobOK, IdleJob, KeepsConn, Keeping
  <2> QED
    BY <1>1, <2>2, <2>3, OneJob
<1>2. ASSUME NEW m \in Telemetries, Receive(h, m) PROVE TypeInv'
  <2>1. DataOK' /\ CountersOK'
    BY <1>2, ClientType DEF Receive
  <2> QED
    BY <1>1, <1>2, <2>1 DEF Receive
<1>3. ASSUME NEW m \in Telemetries, ReceiveEvent(h, m) PROVE TypeInv'
  <2>1. DataOK' /\ CountersOK'
    BY <1>3, ClientType DEF ReceiveEvent
  <2> QED
    BY <1>1, <1>3, <2>1 DEF ReceiveEvent
<1>4. ASSUME NEW d \in Devices, ReceiveList(h, d) PROVE TypeInv'
  <2>1. DataOK' /\ CountersOK' /\ repo' = repo /\ conn' = conn
    BY <1>4, ClientType DEF ReceiveList
  <2> DEFINE new == [IdleJob EXCEPT !.pc = "list", !.dev = d, !.asked = devices[d].total,
                                    !.before = faults]
  <2>2. devices[d].total \in Nat /\ faults \in Nat
    BY DEF TypeInv, TypeOK, DeviceRows
  <2>3. new \in Jobs /\ new.pc = "list" /\ new.dev = d
    BY <1>0, <2>2 DEF Jobs, Steps
  <2>4. job' = [job EXCEPT ![h] = new] /\ job[h].pc = "idle"
    BY <1>4 DEF ReceiveList
  <2> HIDE DEF new
  <2>5. JobOK(new) /\ KeepsConn(h, new.pc)
    BY <2>1, <2>3, <2>4 DEF JobOK, KeepsConn, Keeping
  <2> QED
    BY <2>1, <2>4, <2>5, OneJob
<1>5. ASSUME ReceiveHistory(h) PROVE TypeInv'
  <2>1. DataOK' /\ CountersOK'
    BY <1>5, ClientType DEF ReceiveHistory
  <2> QED
    BY <1>5, <2>1, GotoType DEF ReceiveHistory, Steps, KeepsConn, Keeping
<1> QED
  BY <1>2, <1>3, <1>4, <1>5

(* A webhook call ends.                                                    *)
LEMMA HookType ==
  ASSUME TypeInv, NEW a \in Alerts, SendAlert(a) \/ SendAlertFails(a)
  PROVE  TypeInv'
<1>1. hooks[a] \in Nat /\ notified[a] \in Nat
  BY DEF TypeInv, TypeOK
<1>2. hooks[a] - 1 \in Nat /\ notified[a] + 1 \in Nat
  BY <1>1 DEF SendAlert, SendAlertFails
<1>3. hooks' \in [Alerts -> Nat] /\ notified' \in [Alerts -> Nat]
  BY <1>2 DEF TypeInv, TypeOK, SendAlert, SendAlertFails
<1> QED
  BY <1>3 DEF TypeInv, TypeOK, SendAlert, SendAlertFails

LEMMA RestartType ==
  ASSUME TypeInv, Restart
  PROVE  TypeInv'
<1>1. ASSUME NEW h \in Handlers
      PROVE  JobOK(job'[h]) /\ job'[h].pc = "idle"
  BY IdleJobOK DEF Restart, IdleJob
<1>2. job' \in [Handlers -> Jobs]
  BY IdleJobOK DEF Restart, JobOK
<1>3. restarts' \in 0 .. MaxRestarts
  BY IngestAssumption DEF Restart, TypeInv, TypeOK
<1>4. ASSUME NEW h \in Handlers
      PROVE  conn' = h <=> job'[h].pc \in Keeping
  BY <1>1, IngestAssumption DEF Restart, Keeping
<1>5. hooks' \in [Alerts -> Nat] /\ conn' \in Handlers \cup {NoHandler}
  BY DEF Restart
<1>6. rows' \in Seq(Telemetries) /\ devices' \in [Devices -> DeviceRows]
      /\ events' \in [EventKeys -> Nat]
  <2>1. NoRow \in DeviceRows /\ <<>> \in Seq(Telemetries)
    BY DEF DeviceRows, NoRow
  <2>2. CASE UNCHANGED <<rows, devices, events>>
    BY <2>2 DEF TypeInv, TypeOK
  <2>3. CASE /\ rows' = <<>> /\ devices' = [d \in Devices |-> NoRow]
             /\ events' = [k \in EventKeys |-> 0]
    BY <2>1, <2>3
  <2> QED
    BY <2>2, <2>3 DEF Restart
<1>7. /\ repo' \in {"sql", "memory"} /\ notified' \in [Alerts -> Nat] /\ posts' \in 0 .. MaxPosts
      /\ reads' \in 0 .. MaxReads /\ faults' \in 0 .. MaxFaults
  BY DEF Restart, TypeInv, TypeOK
<1> QED
  BY <1>1, <1>2, <1>3, <1>4, <1>5, <1>6, <1>7 DEF TypeInv, TypeOK

LEMMA NextType == TypeInv /\ [Next]_vars => TypeInv'
<1> SUFFICES ASSUME TypeInv, [Next]_vars PROVE TypeInv'
  OBVIOUS
<1>1. CASE UNCHANGED vars
  BY <1>1 DEF vars, TypeInv, TypeOK, RowsOf
<1>2. CASE Next
  BY <1>2, WorkType, RequestType, HookType, RestartType DEF Next
<1> QED
  BY <1>1, <1>2

(* TypeOK: every variable has its type, and in SQL the connection is kept  *)
(* exactly by the handler that is in a transaction or scans rows.          *)
THEOREM TypeCorrect == Spec => []TypeOK
<1>1. TypeInv => TypeOK
  BY DEF TypeInv
<1> QED
  BY <1>1, InitType, NextType, PTL DEF Spec

LEMMA TypeAlways == Spec => []TypeInv
BY InitType, NextType, PTL DEF Spec

-----------------------------------------------------------------------------
(* The tables.  Whatever the step, the telemetries and the devices change  *)
(* together or not at all.                                                 *)

Emptied ==
  /\ rows' = <<>>
  /\ devices' = [d \in Devices |-> NoRow]

LEMMA TablesChangeTogether ==
  ASSUME TypeInv, [Next]_vars
  PROVE  /\ repo' = repo
         /\ \/ UNCHANGED <<rows, devices>>
            \/ \E m \in Telemetries : Store(m)
            \/ Emptied
<1>1. ASSUME NEW h \in Handlers, SaveMemory(h) \/ Commit(h)
      PROVE  repo' = repo /\ \E m \in Telemetries : Store(m)
  <2>1. job[h].msg \in Telemetries
    BY <1>1 DEF SaveMemory, Commit, TypeInv, JobOK
  <2> QED
    BY <1>1, <2>1 DEF SaveMemory, Commit
<1>2. ASSUME NEW h \in Handlers, Work(h), ~ SaveMemory(h), ~ Commit(h)
      PROVE  UNCHANGED <<repo, rows, devices>>
  BY <1>2 DEF Work, Begin, BeginFails, InsertRow, UpsertDevice, TxFails, Alert, AlertUnsaved,
              EndAlerts, SaveEvent, SaveEventFails, QueryDevices, EndListing,
              QueryDevicesFails, QueryHistory, EndScan, QueryHistoryFails, RowsFail,
              ScanFails, Respond
<1>3. ASSUME Restart
      PROVE  repo' = repo /\ (UNCHANGED <<rows, devices>> \/ Emptied)
  BY <1>3 DEF Restart, Emptied
<1>4. ASSUME NEW h \in Handlers,
             \/ \E m \in Telemetries : Receive(h, m) \/ ReceiveEvent(h, m)
             \/ \E d \in Devices : ReceiveList(h, d)
             \/ ReceiveHistory(h)
      PROVE  UNCHANGED <<repo, rows, devices>>
  BY <1>4 DEF Receive, ReceiveEvent, ReceiveList, ReceiveHistory
<1>5. ASSUME NEW a \in Alerts, SendAlert(a) \/ SendAlertFails(a)
      PROVE  UNCHANGED <<repo, rows, devices>>
  BY <1>5 DEF SendAlert, SendAlertFails
<1>6. CASE UNCHANGED vars
  BY <1>6 DEF vars
<1>7. CASE Next
  BY <1>7, <1>1, <1>2, <1>3, <1>4, <1>5 DEF Next
<1> QED
  BY <1>6, <1>7

(* The rows of a device are among those of the table.                      *)
LEMMA RowsAreFinite ==
  ASSUME rows \in Seq(Telemetries), NEW d
  PROVE  /\ IsFiniteSet(RowsOf(d))
         /\ Cardinality(RowsOf(d)) \in Nat
         /\ RowsOf(d) \subseteq 1 .. Len(rows)
         /\ Len(rows) \in Nat
<1>1. Len(rows) \in Nat /\ RowsOf(d) \subseteq 1 .. Len(rows)
  BY DEF RowsOf
<1>2. IsFiniteSet(1 .. Len(rows))
  BY <1>1, FS_Interval
<1> QED
  BY <1>1, <1>2, FS_Subset, FS_CardinalityType

(* A stored telemetry is one row more of its device.                       *)
LEMMA StoreAddsRow ==
  ASSUME TypeInv, NEW m \in Telemetries, Store(m), NEW d \in Devices
  PROVE  /\ Len(rows) \in Nat /\ RowsOf(d) \subseteq 1 .. Len(rows)
         /\ Len(rows) + 1 \notin RowsOf(d)
         /\ rows'[Len(rows) + 1] = m
         /\ \A i \in 1 .. Len(rows) : rows'[i] = rows[i]
         /\ RowsOf(d)' = IF d = Payload[m].dev THEN RowsOf(d) \cup {Len(rows) + 1}
                         ELSE RowsOf(d)
         /\ devices'[d] = IF d = Payload[m].dev THEN Upsert(devices[d], Payload[m])
                          ELSE devices[d]
<1>1. rows \in Seq(Telemetries) /\ Len(rows) \in Nat
  BY DEF TypeInv, TypeOK
<1>2. RowsOf(d) \subseteq 1 .. Len(rows)
  BY <1>1 DEF RowsOf
<1>3. /\ DOMAIN rows' = 1 .. Len(rows) + 1
      /\ rows'[Len(rows) + 1] = m
      /\ \A i \in 1 .. Len(rows) : rows'[i] = rows[i]
  BY <1>1 DEF Store
<1>4. RowsOf(d)' = {i \in 1 .. Len(rows) + 1 : Payload[rows'[i]].dev = d}
  BY <1>3 DEF RowsOf
<1>5. RowsOf(d) = {i \in 1 .. Len(rows) : Payload[rows[i]].dev = d}
  BY <1>1 DEF RowsOf
<1>6. RowsOf(d)' = IF d = Payload[m].dev THEN RowsOf(d) \cup {Len(rows) + 1}
                   ELSE RowsOf(d)
  BY <1>1, <1>3, <1>4, <1>5
<1>7. devices'[d] = IF d = Payload[m].dev THEN Upsert(devices[d], Payload[m])
                    ELSE devices[d]
  BY DEF Store, TypeInv, TypeOK
<1> QED
  BY <1>1, <1>2, <1>3, <1>6, <1>7

LEMMA EmptiedRows ==
  ASSUME Emptied, NEW d \in Devices
  PROVE  RowsOf(d)' = {} /\ devices'[d] = NoRow
BY DEF Emptied, RowsOf

LEMMA NextTotals == TypeInv /\ TotalsAgree /\ [Next]_vars => TotalsAgree'
<1> SUFFICES ASSUME TypeInv, TotalsAgree, [Next]_vars, NEW d \in Devices
             PROVE  devices'[d].total = Cardinality(RowsOf(d)')
  BY DEF TotalsAgree
<1>0. devices[d].total = Cardinality(RowsOf(d))
  BY DEF TotalsAgree
<1>1. CASE UNCHANGED <<rows, devices>>
  BY <1>0, <1>1 DEF RowsOf
<1>2. ASSUME NEW m \in Telemetries, Store(m)
      PROVE  devices'[d].total = Cardinality(RowsOf(d)')
  <2>1. CASE d = Payload[m].dev
    <3>1. RowsOf(d)' = RowsOf(d) \cup {Len(rows) + 1} /\ Len(rows) + 1 \notin RowsOf(d)
      BY <1>2, <2>1, StoreAddsRow
    <3>2. IsFiniteSet(RowsOf(d))
      BY RowsAreFinite DEF TypeInv, TypeOK
    <3>3. Cardinality(RowsOf(d)') = Cardinality(RowsOf(d)) + 1
      BY <3>1, <3>2, FS_AddElement
    <3>4. devices'[d].total = devices[d].total + 1
      <4>1. devices'[d] = Upsert(devices[d], Payload[m])
        BY <1>2, <2>1, StoreAddsRow
      <4>2. Upsert(devices[d], Payload[m]).total = devices[d].total + 1
        BY DEF Upsert
      <4> QED
        BY <4>1, <4>2
    <3> QED
      BY <1>0, <3>3, <3>4
  <2>2. CASE d # Payload[m].dev
    BY <1>0, <1>2, <2>2, StoreAddsRow
  <2> QED
    BY <2>1, <2>2
<1>3. CASE Emptied
  BY <1>3, EmptiedRows, FS_EmptySet DEF NoRow
<1> QED
  BY <1>1, <1>2, <1>3, TablesChangeTogether

(* TotalsAgree: total_telemetries of a device is the number of its rows,   *)
(* whichever statement of SaveTelemetry failed and wherever the process    *)
(* stopped.                                                                *)
THEOREM TotalsAreRows == Spec => []TotalsAgree
<1>1. Init => TotalsAgree
  <2> SUFFICES ASSUME Init, NEW d \in Devices
               PROVE  devices[d].total = Cardinality(RowsOf(d))
    BY DEF TotalsAgree
  <2>1. RowsOf(d) = {} /\ devices[d].total = 0
    BY DEF Init, RowsOf, NoRow
  <2> QED
    BY <2>1, FS_EmptySet
<1> QED
  BY <1>1, TypeAlways, NextTotals, PTL DEF Spec

LEMMA NextShown == TypeInv /\ DeviceShowsLastRow /\ [Next]_vars => DeviceShowsLastRow'
<1> DEFINE shows(r, p) == /\ r.seq = p.seq
                          /\ repo = "sql" => r.interval = IF p.interval = 0 THEN 60 ELSE p.interval
           Last(R, i) == \A k \in R : k <= i
<1> SUFFICES ASSUME TypeInv, DeviceShowsLastRow, [Next]_vars, NEW d \in Devices,
                    NEW i \in RowsOf(d)', Last(RowsOf(d)', i)
             PROVE  shows(devices'[d], Payload[rows'[i]])
  BY TablesChangeTogether DEF DeviceShowsLastRow
<1>0. \A k \in RowsOf(d) : Last(RowsOf(d), k) => shows(devices[d], Payload[rows[k]])
  BY DEF DeviceShowsLastRow
<1>1. CASE UNCHANGED <<rows, devices>>
  BY <1>0, <1>1 DEF RowsOf
<1>2. ASSUME NEW m \in Telemetries, Store(m)
      PROVE  shows(devices'[d], Payload[rows'[i]])
  <2>1. CASE d = Payload[m].dev
    <3>1. i = Len(rows) + 1
      BY <1>2, <2>1, StoreAddsRow
    <3>2. devices'[d] = Upsert(devices[d], Payload[m]) /\ rows'[i] = m
      BY <1>2, <2>1, <3>1, StoreAddsRow
    <3>3. shows(Upsert(devices[d], Payload[m]), Payload[m])
      BY PayloadType DEF Upsert
    <3> QED
      BY <3>2, <3>3
  <2>2. CASE d # Payload[m].dev
    <3>1. RowsOf(d)' = RowsOf(d) /\ devices'[d] = devices[d] /\ rows'[i] = rows[i]
      BY <1>2, <2>2, StoreAddsRow
    <3> QED
      BY <1>0, <3>1
  <2> QED
    BY <2>1, <2>2
<1>3. CASE Emptied
  BY <1>3, EmptiedRows
<1> QED
  BY <1>1, <1>2, <1>3, TablesChangeTogether

(* DeviceShowsLastRow: the columns of a device are those of the telemetry  *)
(* stored last.                                                            *)
THEOREM LastRowIsShown == Spec => []DeviceShowsLastRow
<1>1. Init => DeviceShowsLastRow
  BY DEF Init, DeviceShowsLastRow, RowsOf
<1> QED
  BY <1>1, TypeAlways, NextShown, PTL DEF Spec

-----------------------------------------------------------------------------
(* Alerts.  For every payload and rule there is an account: the rows of    *)
(* the payload, the alerts that handlers still owe, the events recorded    *)
(* and the notifications sent.                                             *)

Owed(m, rule) == Cardinality(StillToAlert(m, rule))
Recorded(m, rule) == events[<<m, rule>>]
Notices(m, rule) == notified[<<m, rule>>] + hooks[<<m, rule>>]

Owes(j, m, rule) ==
  /\ j.pc = "alert" /\ j.msg = m /\ Triggers(m, rule)
  /\ \E i \in 1 .. 4 : j.next <= i /\ Rules[i] = rule

LEMMA StillOwes ==
  ASSUME NEW m, NEW rule
  PROVE  /\ StillToAlert(m, rule) = {h \in Handlers : Owes(job[h], m, rule)}
         /\ StillToAlert(m, rule)' = {h \in Handlers : Owes(job'[h], m, rule)}
         /\ IsFiniteSet(StillToAlert(m, rule))
         /\ IsFiniteSet(StillToAlert(m, rule)')
<1>1. StillToAlert(m, rule) = {h \in Handlers : Owes(job[h], m, rule)}
  BY RulesAreFour DEF StillToAlert, Pending, Owes
<1>2. StillToAlert(m, rule)' = {h \in Handlers : Owes(job'[h], m, rule)}
  BY RulesAreFour DEF StillToAlert, Pending, Owes
<1>3. IsFiniteSet(Handlers)
  BY IngestAssumption
<1>4. StillToAlert(m, rule) \subseteq Handlers /\ StillToAlert(m, rule)' \subseteq Handlers
  BY <1>1, <1>2
<1> QED
  BY <1>1, <1>2, <1>3, <1>4, FS_Subset

LEMMA AccountType ==
  ASSUME TypeInv, NEW m \in Telemetries, NEW rule \in RuleNames
  PROVE  /\ Recorded(m, rule) \in Nat
         /\ hooks[<<m, rule>>] \in Nat /\ notified[<<m, rule>>] \in Nat
         /\ Notices(m, rule) \in Nat
         /\ Owed(m, rule) \in Nat
         /\ Stored(m) \in Nat /\ IsFiniteSet({i \in DOMAIN rows : rows[i] = m})
         /\ faults \in Nat /\ restarts \in Nat
<1>1. <<m, rule>> \in EventKeys /\ <<m, rule>> \in Alerts
  BY DEF EventKeys, Alerts
<1>2. /\ events[<<m, rule>>] \in Nat
      /\ hooks[<<m, rule>>] \in Nat /\ notified[<<m, rule>>] \in Nat
  BY <1>1 DEF TypeInv, TypeOK
<1>3. Owed(m, rule) \in Nat
  BY StillOwes, FS_CardinalityType DEF Owed
<1>4. Len(rows) \in Nat /\ {i \in DOMAIN rows : rows[i] = m} \subseteq 1 .. Len(rows)
  BY DEF TypeInv, TypeOK
<1>5. IsFiniteSet({i \in DOMAIN rows : rows[i] = m})
  BY <1>4, FS_Interval, FS_Subset
<1>6. Stored(m) \in Nat
  BY <1>5, FS_CardinalityType DEF Stored
<1>7. faults \in Nat /\ restarts \in Nat
  BY DEF TypeInv, TypeOK
<1> QED
  BY <1>2, <1>3, <1>5, <1>6, <1>7 DEF Recorded, Notices

(* Only h has moved.                                                       *)
Others(h) == \A g \in Handlers \ {h} : job'[g] = job[g]

LEMMA OwedChange ==
  ASSUME TypeInv, NEW h \in Handlers, Others(h), NEW m, NEW rule
  PROVE  /\ (Owes(job[h], m, rule) <=> Owes(job'[h], m, rule)) => Owed(m, rule)' = Owed(m, rule)
         /\ ~ Owes(job[h], m, rule) /\ Owes(job'[h], m, rule)
              => Owed(m, rule)' = Owed(m, rule) + 1
         /\ Owes(job[h], m, rule) /\ ~ Owes(job'[h], m, rule)
              => Owed(m, rule)' = Owed(m, rule) - 1
<1> DEFINE S == StillToAlert(m, rule)
           T == StillToAlert(m, rule)'
<1>1. /\ S = {g \in Handlers : Owes(job[g], m, rule)}
      /\ T = {g \in Handlers : Owes(job'[g], m, rule)}
      /\ IsFiniteSet(S)
  BY StillOwes
<1>2. \A g \in Handlers : g # h => job'[g] = job[g]
  BY DEF Others
<1>3. Owed(m, rule) = Cardinality(S) /\ Owed(m, rule)' = Cardinality(T)
  BY DEF Owed
<1> HIDE DEF S, T
<1>4. CASE Owes(job[h], m, rule) <=> Owes(job'[h], m, rule)
  <2>1. T = S
    BY <1>1, <1>2, <1>4
  <2> QED
    BY <1>3, <1>4, <2>1
<1>5. CASE ~ Owes(job[h], m, rule) /\ Owes(job'[h], m, rule)
  <2>1. T = S \cup {h} /\ h \notin S
    BY <1>1, <1>2, <1>5
  <2>2. Cardinality(T) = Cardinality(S) + 1
    BY <1>1, <2>1, FS_AddElement
  <2> QED
    BY <1>3, <1>5, <2>2
<1>6. CASE Owes(job[h], m, rule) /\ ~ Owes(job'[h], m, rule)
  <2>1. T = S \ {h} /\ h \in S
    BY <1>1, <1>2, <1>6
  <2>2. Cardinality(T) = Cardinality(S) - 1
    BY <1>1, <2>1, FS_RemoveElement
  <2> QED
    BY <1>3, <1>6, <2>2
<1> QED
  BY <1>4, <1>5, <1>6

(* One row more of m0, and of no other payload.                            *)
LEMMA StoredChange ==
  ASSUME TypeInv, NEW m0 \in Telemetries, Store(m0), NEW m \in Telemetries
  PROVE  Stored(m)' = IF m = m0 THEN Stored(m) + 1 ELSE Stored(m)
<1> DEFINE R == {i \in DOMAIN rows : rows[i] = m}
<1>1. rows \in Seq(Telemetries) /\ Len(rows) \in Nat
  BY DEF TypeInv, TypeOK
<1>2. IsFiniteSet(R)
  <2>1. R \subseteq 1 .. Len(rows)
    BY <1>1
  <2> QED
    BY <1>1, <2>1, FS_Interval, FS_Subset
<1>3. /\ DOMAIN rows' = 1 .. Len(rows) + 1
      /\ rows'[Len(rows) + 1] = m0
      /\ \A i \in 1 .. Len(rows) : rows'[i] = rows[i]
  BY <1>1 DEF Store
<1>4. /\ {i \in DOMAIN rows' : rows'[i] = m} = IF m = m0 THEN R \cup {Len(rows) + 1} ELSE R
      /\ Len(rows) + 1 \notin R
  BY <1>1, <1>3
<1>5. Stored(m)' = Cardinality({i \in DOMAIN rows' : rows'[i] = m}) /\ Stored(m) = Cardinality(R)
  BY DEF Stored
<1> HIDE DEF R
<1>6. Cardinality(R \cup {Len(rows) + 1}) = Cardinality(R) + 1
  BY <1>2, <1>4, FS_AddElement
<1> QED
  BY <1>4, <1>5, <1>6

(* What a step does to an account.                                         *)
Untouched(m, rule) ==
  /\ Stored(m)' = Stored(m) /\ Owed(m, rule)' = Owed(m, rule)
  /\ Recorded(m, rule)' = Recorded(m, rule)
  /\ Notices(m, rule)' \in 0 .. Notices(m, rule)
  /\ faults' \in {faults, faults + 1} /\ restarts' = restarts

RowAdded(m, rule) ==
  /\ Stored(m)' = Stored(m) + 1
  /\ Owed(m, rule)' = IF Triggers(m, rule) THEN Owed(m, rule) + 1 ELSE Owed(m, rule)
  /\ Recorded(m, rule)' = Recorded(m, rule) /\ Notices(m, rule)' = Notices(m, rule)
  /\ faults' = faults /\ restarts' = restarts

Alerted(m, rule) ==
  /\ Stored(m)' = Stored(m) /\ Owed(m, rule)' = Owed(m, rule) - 1
  /\ Notices(m, rule)' = Notices(m, rule) + 1
  /\ \/ Recorded(m, rule)' = Recorded(m, rule) + 1 /\ faults' = faults
     \/ Recorded(m, rule)' = Recorded(m, rule) /\ faults' = faults + 1
  /\ restarts' = restarts

Restarted(m, rule) ==
  /\ Owed(m, rule)' = 0 /\ restarts' = restarts + 1
  /\ \/ /\ repo = "sql"
        /\ Stored(m)' = Stored(m) /\ Recorded(m, rule)' = Recorded(m, rule)
        /\ Notices(m, rule)' \in 0 .. Notices(m, rule)
     \/ /\ repo = "memory"
        /\ Stored(m)' = 0 /\ Recorded(m, rule)' = 0

AccountStep(m, rule) ==
  \/ Untouched(m, rule) \/ RowAdded(m, rule) \/ Alerted(m, rule) \/ Restarted(m, rule)

(* A handler that comes from no alert and goes to none.                    *)
LEMMA QuietStep ==
  ASSUME TypeInv, NEW h \in Handlers, Others(h),
         job[h].pc # "alert" \/ Pending(h) = {}, job'[h].pc # "alert",
         UNCHANGED <<rows, events, hooks, notified, restarts>>,
         faults' \in {faults, faults + 1},
         NEW m \in Telemetries, NEW rule \in RuleNames
  PROVE  Untouched(m, rule)
<1>1. ~ Owes(job'[h], m, rule)
  BY DEF Owes
<1>2. ~ Owes(job[h], m, rule)
  BY RulesAreFour DEF Owes, Pending
<1>3. Owed(m, rule)' = Owed(m, rule)
  BY <1>1, <1>2, OwedChange
<1>4. /\ Stored(m)' = Stored(m) /\ Recorded(m, rule)' = Recorded(m, rule)
      /\ Notices(m, rule)' = Notices(m, rule)
  BY DEF Stored, Recorded, Notices
<1>5. Notices(m, rule) \in Nat
  BY AccountType
<1>6. Notices(m, rule)' \in 0 .. Notices(m, rule)
  BY <1>4, <1>5
<1> QED
  BY <1>3, <1>4, <1>6 DEF Untouched

LEMMA QuietWork ==
  ASSUME TypeInv, NEW h \in Handlers, Work(h),
         ~ SaveMemory(h), ~ Commit(h), ~ Alert(h), ~ AlertUnsaved(h), ~ SaveEvent(h),
         NEW m \in Telemetries, NEW rule \in RuleNames
  PROVE  Untouched(m, rule)
<1>0. job \in [Handlers -> Jobs] /\ job[h] \in Jobs
  BY DEF TypeInv, TypeOK
<1>1. ASSUME NEW step, Goto(h, step), step # "alert"
      PROVE  Others(h) /\ job'[h].pc # "alert"
  BY <1>0, <1>1 DEF Goto, Others, Jobs
<1>2. CASE Begin(h) \/ InsertRow(h) \/ UpsertDevice(h)
  BY <1>1, <1>2, QuietStep DEF Begin, InsertRow, UpsertDevice
<1>3. CASE BeginFails(h) \/ TxFails(h) \/ SaveEventFails(h) \/ QueryHistoryFails(h)
  BY <1>1, <1>3, QuietStep DEF BeginFails, TxFails, SaveEventFails, QueryHistoryFails, Fault
<1>4. CASE EndAlerts(h)
  BY <1>1, <1>4, QuietStep DEF EndAlerts, HasAlert
<1>5. CASE QueryHistory(h) \/ EndScan(h)
  BY <1>1, <1>5, QuietStep DEF QueryHistory, EndScan
<1>6. CASE QueryDevicesFails(h)
  BY <1>1, <1>6, QuietStep DEF QueryDevicesFails, Fault
<1>7. CASE QueryDevices(h)
  <2>1. Others(h) /\ job'[h].pc # "alert" /\ job[h].pc # "alert"
    BY <1>0, <1>7 DEF QueryDevices, Others, Jobs
  <2> QED
    BY <1>7, <2>1, QuietStep DEF QueryDevices
<1>8. CASE EndListing(h)
  <2> DEFINE d == job[h].dev
             since == {i \in RowsOf(d) : CountAt(d, i) > job[h].list.total}
  <2>1. CASE Goto(h, "reply")
    BY <1>1, <1>8, <2>1, QuietStep DEF EndListing
  <2>2. ASSUME NEW t, NEW q,
               job' = [job EXCEPT ![h].pc = "reply", ![h].list.total = t, ![h].list.seq = q]
        PROVE  Others(h) /\ job'[h].pc # "alert"
    BY <1>0, <2>2 DEF Others, Jobs
  <2>3. CASE \E t \in job[h].list.total .. devices[d].total,
                q \in {job[h].list.seq} \cup {Payload[rows[i]].seq : i \in since} :
                job' = [job EXCEPT ![h].pc = "reply", ![h].list.total = t, ![h].list.seq = q]
    BY <1>8, <2>2, <2>3, QuietStep DEF EndListing
  <2> QED
    BY <1>8, <2>1, <2>3 DEF EndListing
<1>9. CASE Respond(h)
  <2>1. Others(h) /\ job'[h].pc # "alert" /\ job[h].pc # "alert"
    BY <1>0, <1>9 DEF Respond, Others, IdleJob
  <2> QED
    BY <1>9, <2>1, QuietStep DEF Respond
<1>10. CASE RowsFail(h)
  <2>1. PICK read : job' = [job EXCEPT ![h].pc = "reply", ![h].found = read]
    BY <1>10 DEF RowsFail
  <2>2. Others(h) /\ job'[h].pc # "alert" /\ job[h].pc # "alert"
    BY <1>0, <1>10, <2>1 DEF RowsFail, Others, Jobs
  <2> QED
    BY <1>10, <2>2, QuietStep DEF RowsFail, Fault
<1>11. CASE ScanFails(h)
  <2>1. PICK read : job' = [job EXCEPT ![h].found = read]
    BY <1>11 DEF ScanFails
  <2>2. Others(h) /\ job'[h].pc # "alert" /\ job[h].pc # "alert"
    BY <1>0, <1>11, <2>1 DEF ScanFails, Others, Jobs
  <2> QED
    BY <1>11, <2>2, QuietStep DEF ScanFails, Fault
<1> QED
  BY <1>2, <1>3, <1>4, <1>5, <1>6, <1>7, <1>8, <1>9, <1>10, <1>11 DEF Work

LEMMA QuietRequest ==
  ASSUME TypeInv, NEW h \in Handlers,
         \/ \E m \in Telemetries : Receive(h, m) \/ ReceiveEvent(h, m)
         \/ \E d \in Devices : ReceiveList(h, d)
         \/ ReceiveHistory(h),
         NEW m \in Telemetries, NEW rule \in RuleNames
  PROVE  Untouched(m, rule)
<1>0. job \in [Handlers -> Jobs] /\ job[h] \in Jobs
  BY DEF TypeInv, TypeOK
<1>1. Others(h) /\ job'[h].pc # "alert" /\ job[h].pc # "alert"
  <2>1. ASSUME NEW n \in Telemetries, Receive(h, n) \/ ReceiveEvent(h, n)
        PROVE  Others(h) /\ job'[h].pc # "alert" /\ job[h].pc # "alert"
    BY <1>0, <2>1 DEF Receive, ReceiveEvent, Others, IdleJob
  <2>2. ASSUME NEW d \in Devices, ReceiveList(h, d)
        PROVE  Others(h) /\ job'[h].pc # "alert" /\ job[h].pc # "alert"
    BY <1>0, <2>2 DEF ReceiveList, Others, IdleJob
  <2>3. ASSUME ReceiveHistory(h)
        PROVE  Others(h) /\ job'[h].pc # "alert" /\ job[h].pc # "alert"
    BY <1>0, <2>3 DEF ReceiveHistory, Goto, Others, Jobs
  <2> QED
    BY <2>1, <2>2, <2>3
<1>2. UNCHANGED <<rows, events, hooks, notified, restarts, faults>>
  BY DEF Receive, ReceiveEvent, ReceiveList, ReceiveHistory
<1> QED
  BY <1>1, <1>2, QuietStep

(* A telemetry is stored: all of its alerts are owed.                      *)
LEMMA StoreAccount ==
  ASSUME TypeInv, NEW h \in Handlers, SaveMemory(h) \/ Commit(h),
         NEW m \in Telemetries, NEW rule \in RuleNames
  PROVE  AccountStep(m, rule)
<1> DEFINE j == job[h]
<1>0. j \in Jobs /\ JobOK(j) /\ job \in [Handlers -> Jobs]
  BY DEF TypeInv, TypeOK
<1>1. j.msg \in Telemetries /\ j.next = 1 /\ j.pc \in {"begin", "commit"}
  BY <1>0 DEF SaveMemory, Commit, JobOK
<1>2. Goto(h, "alert") /\ Store(j.msg)
      /\ UNCHANGED <<events, hooks, notified, faults, restarts>>
  BY DEF SaveMemory, Commit
<1>3. Others(h) /\ job'[h].pc = "alert" /\ job'[h].msg = j.msg /\ job'[h].next = 1
  BY <1>0, <1>1, <1>2 DEF Goto, Others, Jobs
<1>4. ~ Owes(j, m, rule)
  BY <1>1 DEF Owes
<1>5. Owes(job'[h], m, rule) <=> j.msg = m /\ Triggers(m, rule)
  <2>1. \E i \in 1 .. 4 : 1 <= i /\ Rules[i] = rule
    BY RulesAreFour DEF RuleNames
  <2> QED
    BY <1>3, <2>1 DEF Owes
<1>6. Recorded(m, rule)' = Recorded(m, rule) /\ Notices(m, rule)' = Notices(m, rule)
  BY <1>2 DEF Recorded, Notices
<1>7. Notices(m, rule) \in Nat
  BY AccountType
<1>8. CASE j.msg = m
  <2>1. Stored(m)' = Stored(m) + 1
    BY <1>1, <1>2, <1>8, StoredChange
  <2>2. Owed(m, rule)' = IF Triggers(m, rule) THEN Owed(m, rule) + 1 ELSE Owed(m, rule)
    BY <1>3, <1>4, <1>5, <1>8, OwedChange
  <2> QED
    BY <1>2, <1>6, <2>1, <2>2 DEF AccountStep, RowAdded
<1>9. CASE j.msg # m
  <2>1. Stored(m)' = Stored(m)
    BY <1>1, <1>2, <1>9, StoredChange
  <2>2. Owed(m, rule)' = Owed(m, rule)
    BY <1>3, <1>4, <1>5, <1>9, OwedChange
  <2> QED
    BY <1>2, <1>6, <1>7, <2>1, <2>2 DEF AccountStep, Untouched
<1> QED
  BY <1>8, <1>9

(* An alert is made: the first that h owes, and no other.                  *)
LEMMA AlertAccount ==
  ASSUME TypeInv, NEW h \in Handlers, Alert(h) \/ AlertUnsaved(h),
         NEW m \in Telemetries, NEW rule \in RuleNames
  PROVE  AccountStep(m, rule)
<1> DEFINE j == job[h]
           i == NextAlert(h)
           a == CurrentAlert(h)
<1>0. j \in Jobs /\ job \in [Handlers -> Jobs] /\ HasAlert(h)
  BY DEF TypeInv, TypeOK, Alert, AlertUnsaved
<1>1. /\ i \in 1 .. 4 /\ i \in Pending(h) /\ \A k \in Pending(h) : i <= k
      /\ j.pc = "alert" /\ j.msg \in Telemetries
      /\ a = <<j.msg, Rules[i]>> /\ a \in Alerts
  BY <1>0, NextAlertIsFirst
<1>2. /\ job' = [job EXCEPT ![h].next = i + 1] /\ Spawn(h)
      /\ UNCHANGED <<rows, notified, restarts>>
      /\ \/ events' = [events EXCEPT ![a] = @ + 1] /\ faults' = faults
         \/ events' = events /\ faults' = faults + 1
  BY DEF Alert, AlertUnsaved, Fault
<1>3. /\ Others(h) /\ job'[h].pc = "alert" /\ job'[h].msg = j.msg /\ job'[h].next = i + 1
  BY <1>0, <1>1, <1>2 DEF Others, Jobs
<1>4. /\ hooks \in [Alerts -> Nat] /\ events \in [EventKeys -> Nat]
      /\ notified \in [Alerts -> Nat]
      /\ a \in EventKeys
      /\ <<m, rule>> \in Alerts /\ <<m, rule>> \in EventKeys
  BY <1>1 DEF TypeInv, TypeOK, Alerts, EventKeys
<1>5. hooks' = [hooks EXCEPT ![a] = hooks[a] + 1]
  BY <1>2 DEF Spawn
<1>6. Stored(m)' = Stored(m)
  BY <1>2 DEF Stored
<1>7. Notices(m, rule) \in Nat /\ faults \in Nat
  BY AccountType
<1>8. CASE a = <<m, rule>>
  <2>1. j.msg = m /\ Rules[i] = rule
    BY <1>1, <1>8
  <2>2. Owes(j, m, rule)
    BY <1>1, <2>1 DEF Owes, Pending
  <2>3. ~ Owes(job'[h], m, rule)
    <3>1. \A k \in 1 .. 4 : Rules[k] = rule => k = i
      BY <1>1, <2>1, RulesAreFour
    <3>2. ~ (i + 1 <= i)
      BY <1>1
    <3> QED
      BY <1>3, <3>1, <3>2 DEF Owes
  <2>4. Owed(m, rule)' = Owed(m, rule) - 1
    BY <1>3, <2>2, <2>3, OwedChange
  <2>5. hooks'[<<m, rule>>] = hooks[<<m, rule>>] + 1 /\ hooks[<<m, rule>>] \in Nat
        /\ notified'[<<m, rule>>] = notified[<<m, rule>>] /\ notified[<<m, rule>>] \in Nat
    BY <1>2, <1>4, <1>5, <1>8
  <2>6. Notices(m, rule)' = Notices(m, rule) + 1
    BY <2>5 DEF Notices
  <2>7. \/ events'[<<m, rule>>] = events[<<m, rule>>] + 1 /\ faults' = faults
        \/ events'[<<m, rule>>] = events[<<m, rule>>] /\ faults' = faults + 1
    BY <1>2, <1>4, <1>8
  <2>8. \/ Recorded(m, rule)' = Recorded(m, rule) + 1 /\ faults' = faults
        \/ Recorded(m, rule)' = Recorded(m, rule) /\ faults' = faults + 1
    BY <2>7 DEF Recorded
  <2> QED
    BY <1>2, <1>6, <2>4, <2>6, <2>8 DEF AccountStep, Alerted
<1>9. CASE a # <<m, rule>>
  <2>1. Owes(j, m, rule) <=> Owes(job'[h], m, rule)
    <3>1. CASE j.msg # m
      BY <1>3, <3>1 DEF Owes
    <3>2. CASE j.msg = m /\ Triggers(m, rule)
      <4>1. \A k \in 1 .. 4 : Rules[k] = rule => k # i
        BY <1>1, <1>9, <3>2
      <4>2. \A k \in 1 .. 4 : j.next <= k /\ Rules[k] = rule => i + 1 <= k
        <5>1. \A k \in 1 .. 4 : j.next <= k /\ Rules[k] = rule => k \in Pending(h)
          BY <3>2, RulesAreFour DEF Pending
        <5> QED
          BY <1>1, <4>1, <5>1
      <4>3. j.next \in Nat /\ j.next <= i
        BY <1>0, <1>1 DEF Pending, Jobs
      <4>4. \A k \in 1 .. 4 : i + 1 <= k => j.next <= k
        BY <1>1, <4>3
      <4> QED
        BY <1>1, <1>3, <4>2, <4>4 DEF Owes
    <3>3. CASE ~ Triggers(m, rule)
      BY <3>3 DEF Owes
    <3> QED
      BY <3>1, <3>2, <3>3
  <2>2. Owed(m, rule)' = Owed(m, rule)
    BY <1>3, <2>1, OwedChange
  <2>3. hooks'[<<m, rule>>] = hooks[<<m, rule>>] /\ events'[<<m, rule>>] = events[<<m, rule>>]
        /\ notified'[<<m, rule>>] = notified[<<m, rule>>]
    BY <1>2, <1>4, <1>5, <1>9
  <2>4. Notices(m, rule)' = Notices(m, rule) /\ Recorded(m, rule)' = Recorded(m, rule)
    BY <2>3 DEF Notices, Recorded
  <2>5. Notices(m, rule)' \in 0 .. Notices(m, rule) /\ faults' \in {faults, faults + 1}
    BY <1>2, <1>7, <2>4
  <2> QED
    BY <1>2, <1>6, <2>2, <2>4, <2>5 DEF AccountStep, Untouched
<1> QED
  BY <1>8, <1>9

(* What a device reports is no alert.                                      *)
LEMMA EventAccount ==
  ASSUME TypeInv, NEW h \in Handlers, SaveEvent(h),
         NEW m \in Telemetries, NEW rule \in RuleNames
  PROVE  Untouched(m, rule)
<1>0. job \in [Handlers -> Jobs] /\ job[h] \in Jobs /\ events \in [EventKeys -> Nat]
  BY DEF TypeInv, TypeOK
<1>1. Others(h) /\ ~ Owes(job[h], m, rule) /\ ~ Owes(job'[h], m, rule)
  BY <1>0 DEF SaveEvent, Goto, Others, Jobs, Owes
<1>2. Owed(m, rule)' = Owed(m, rule)
  BY <1>1, OwedChange
<1>3. <<m, rule>> \in EventKeys /\ <<m, rule>> # <<job[h].msg, Reported>>
  BY RuleNamesNoReport DEF EventKeys
<1>4. events' = [events EXCEPT ![<<job[h].msg, Reported>>] = @ + 1]
      /\ UNCHANGED <<rows, hooks, notified, faults, restarts>>
  BY DEF SaveEvent
<1>5. events'[<<m, rule>>] = events[<<m, rule>>]
  BY <1>0, <1>3, <1>4
<1>6. Stored(m)' = Stored(m) /\ Notices(m, rule)' = Notices(m, rule)
      /\ Recorded(m, rule)' = Recorded(m, rule)
  BY <1>4, <1>5 DEF Stored, Notices, Recorded
<1>7. Notices(m, rule) \in Nat
  BY AccountType
<1>8. Notices(m, rule)' \in 0 .. Notices(m, rule)
  BY <1>6, <1>7
<1> QED
  BY <1>2, <1>4, <1>6, <1>8 DEF Untouched

(* A webhook call that ends is one notification, or one less.              *)
LEMMA HookAccount ==
  ASSUME TypeInv, NEW a \in Alerts, SendAlert(a) \/ SendAlertFails(a),
         NEW m \in Telemetries, NEW rule \in RuleNames
  PROVE  Untouched(m, rule)
<1> DEFINE k == <<m, rule>>
<1>0. hooks \in [Alerts -> Nat] /\ notified \in [Alerts -> Nat] /\ k \in Alerts
  BY DEF TypeInv, TypeOK, Alerts
<1>1. UNCHANGED <<rows, events, job, faults, restarts>>
  BY DEF SendAlert, SendAlertFails
<1>2. Stored(m)' = Stored(m) /\ Recorded(m, rule)' = Recorded(m, rule)
      /\ StillToAlert(m, rule)' = StillToAlert(m, rule)
  BY <1>1 DEF Stored, Recorded, StillToAlert, Pending
<1>3. Owed(m, rule)' = Owed(m, rule)
  BY <1>2 DEF Owed
<1>4. hooks[a] > 0 /\ hooks' = [hooks EXCEPT ![a] = hooks[a] - 1]
      /\ (notified' = notified \/ notified' = [notified EXCEPT ![a] = notified[a] + 1])
  BY DEF SendAlert, SendAlertFails
<1>5. hooks[k] \in Nat /\ notified[k] \in Nat
  BY <1>0
<1>6. \/ hooks'[k] = hooks[k] /\ notified'[k] = notified[k]
      \/ hooks[k] > 0 /\ hooks'[k] = hooks[k] - 1 /\ notified'[k] \in {notified[k], notified[k] + 1}
  BY <1>0, <1>4
<1>7. notified'[k] + hooks'[k] \in 0 .. (notified[k] + hooks[k])
  BY <1>5, <1>6
<1>8. Notices(m, rule)' \in 0 .. Notices(m, rule)
  BY <1>7 DEF Notices
<1> QED
  BY <1>1, <1>2, <1>3, <1>8 DEF Untouched

LEMMA RestartAccount ==
  ASSUME TypeInv, Restart, NEW m \in Telemetries, NEW rule \in RuleNames
  PROVE  Restarted(m, rule)
<1> DEFINE k == <<m, rule>>
<1>0. /\ k \in Alerts /\ k \in EventKeys
      /\ hooks[k] \in Nat /\ notified[k] \in Nat
  BY AccountType DEF Alerts, EventKeys
<1>1. \A h \in Handlers : ~ Owes(job'[h], m, rule)
  BY DEF Restart, IdleJob, Owes
<1>2. StillToAlert(m, rule)' = {}
  BY <1>1, StillOwes
<1>3. Owed(m, rule)' = 0
  BY <1>2, FS_EmptySet DEF Owed
<1>4. hooks'[k] = 0 /\ notified'[k] = notified[k] /\ restarts' = restarts + 1
  BY <1>0 DEF Restart
<1>5. Notices(m, rule)' \in 0 .. Notices(m, rule)
  BY <1>0, <1>4 DEF Notices
<1>6. CASE repo = "sql"
  <2>1. Stored(m)' = Stored(m) /\ Recorded(m, rule)' = Recorded(m, rule)
    BY <1>6 DEF Restart, Stored, Recorded
  <2> QED
    BY <1>3, <1>4, <1>5, <1>6, <2>1 DEF Restarted
<1>7. CASE repo = "memory"
  <2>1. rows' = <<>> /\ events'[k] = 0
    BY <1>0, <1>7 DEF Restart
  <2>2. {i \in DOMAIN rows' : rows'[i] = m} = {}
    BY <2>1
  <2>3. Stored(m)' = 0 /\ Recorded(m, rule)' = 0
    BY <2>1, <2>2, FS_EmptySet DEF Stored, Recorded
  <2> QED
    BY <1>3, <1>4, <1>7, <2>3 DEF Restarted
<1> QED
  BY <1>6, <1>7 DEF TypeInv, TypeOK

LEMMA NextAccount ==
  ASSUME TypeInv, [Next]_vars, NEW m \in Telemetries, NEW rule \in RuleNames
  PROVE  AccountStep(m, rule)
<1>1. CASE UNCHANGED vars
  <2>1. /\ Stored(m)' = Stored(m) /\ Recorded(m, rule)' = Recorded(m, rule)
        /\ StillToAlert(m, rule)' = StillToAlert(m, rule)
        /\ Notices(m, rule)' = Notices(m, rule) /\ faults' = faults /\ restarts' = restarts
    BY <1>1 DEF vars, Stored, Recorded, StillToAlert, Pending, Notices
  <2>2. Owed(m, rule)' = Owed(m, rule)
    BY <2>1 DEF Owed
  <2>3. Notices(m, rule) \in Nat
    BY AccountType
  <2>4. Notices(m, rule)' \in 0 .. Notices(m, rule)
    BY <2>1, <2>3
  <2> QED
    BY <2>1, <2>2, <2>4 DEF AccountStep, Untouched
<1>2. ASSUME NEW h \in Handlers, Work(h) PROVE AccountStep(m, rule)
  BY <1>2, QuietWork, StoreAccount, AlertAccount, EventAccount DEF AccountStep
<1>3. ASSUME NEW h \in Handlers,
             \/ \E n \in Telemetries : Receive(h, n) \/ ReceiveEvent(h, n)
             \/ \E d \in Devices : ReceiveList(h, d)
             \/ ReceiveHistory(h)
      PROVE  AccountStep(m, rule)
  BY <1>3, QuietRequest DEF AccountStep
<1>4. ASSUME NEW a \in Alerts, SendAlert(a) \/ SendAlertFails(a) PROVE AccountStep(m, rule)
  BY <1>4, HookAccount DEF AccountStep
<1>5. CASE Restart
  BY <1>5, RestartAccount DEF AccountStep
<1> QED
  BY <1>1, <1>2, <1>3, <1>4, <1>5 DEF Next

Expected(m, rule) == IF Triggers(m, rule) THEN Stored(m) ELSE 0

(* Where the repository is of one mind, the code alerts as documented.     *)
LEMMA AlertsAsDocumented ==
  ASSUME NEW m \in Telemetries, NEW rule \in RuleNames, IsAgreed(m, rule)
  PROVE  ShouldAlert(m, rule) <=> Triggers(m, rule)
<1> DEFINE p == Payload[m]
<1>1. p.batt \in Nat /\ p.tenths \in Int /\ p.rssi \in Int
  BY IngestAssumption
<1> HIDE DEF p
<1>2. rule \in {"HIGH_TEMPERATURE", "LOW_TEMPERATURE", "LOW_BATTERY", "WEAK_SIGNAL"}
  BY DEF RuleNames, Rules
<1>3. rule = "LOW_BATTERY" => p.batt # 0
  BY DEF IsAgreed, p
<1>4. Triggers(m, rule) <=>
        CASE rule = "HIGH_TEMPERATURE" -> p.tenths > 350
          [] rule = "LOW_TEMPERATURE" -> p.tenths < 0
          [] rule = "LOW_BATTERY" -> p.batt > 0 /\ p.batt < 20
          [] rule = "WEAK_SIGNAL" -> p.rssi < -85
  BY DEF Triggers, p
<1>5. ShouldAlert(m, rule) <=>
        \/ rule = "HIGH_TEMPERATURE" /\ p.tenths > 350
        \/ rule = "LOW_TEMPERATURE" /\ p.tenths < 0
        \/ rule = "LOW_BATTERY" /\ p.batt < 20
        \/ rule = "WEAK_SIGNAL" /\ p.rssi < -85
  BY DEF ShouldAlert, p
<1>6. CASE rule = "HIGH_TEMPERATURE"
  BY <1>1, <1>4, <1>5, <1>6
<1>7. CASE rule = "LOW_TEMPERATURE"
  BY <1>1, <1>4, <1>5, <1>7
<1>8. CASE rule = "LOW_BATTERY"
  BY <1>1, <1>3, <1>4, <1>5, <1>8
<1>9. CASE rule = "WEAK_SIGNAL"
  BY <1>1, <1>4, <1>5, <1>9
<1> QED
  BY <1>2, <1>6, <1>7, <1>8, <1>9

(* The account of every alert the code makes, disputed or not.             *)
Accounted ==
  \A m \in Telemetries, rule \in RuleNames :
    /\ Recorded(m, rule) + Owed(m, rule) <= Expected(m, rule)
    /\ restarts = 0 => Expected(m, rule) <= Recorded(m, rule) + Owed(m, rule) + faults

LEMMA AccountedAs ==
  /\ Accounted => AlertsAreAccounted
  /\ NotifiedIsStored <=>
       (repo = "sql" \/ restarts = 0 =>
          \A m \in Telemetries, rule \in RuleNames :
            Notices(m, rule) + Owed(m, rule) <= Expected(m, rule))
<1>1. ASSUME Accounted PROVE AlertsAreAccounted
  <2> SUFFICES ASSUME NEW m \in Telemetries, NEW rule \in RuleNames, IsAgreed(m, rule)
               PROVE  LET expected == IF ShouldAlert(m, rule) THEN Stored(m) ELSE 0
                          settled == Recorded(m, rule) + Owed(m, rule)
                      IN /\ settled <= expected
                         /\ restarts = 0 => expected <= settled + faults
    BY DEF AlertsAreAccounted, Recorded, Owed
  <2>1. Expected(m, rule) = IF ShouldAlert(m, rule) THEN Stored(m) ELSE 0
    BY AlertsAsDocumented DEF Expected
  <2> QED
    BY <1>1, <2>1 DEF Accounted
<1>2. NotifiedIsStored <=>
       (repo = "sql" \/ restarts = 0 =>
          \A m \in Telemetries, rule \in RuleNames :
            Notices(m, rule) + Owed(m, rule) <= Expected(m, rule))
  BY DEF NotifiedIsStored, Owed, Notices, Expected
<1> QED
  BY <1>1, <1>2

(* How the bound of an account moves.                                      *)
LEMMA ExpectedChange ==
  ASSUME TypeInv, NEW m \in Telemetries, NEW rule \in RuleNames
  PROVE  /\ Expected(m, rule) \in Nat
         /\ Stored(m)' = Stored(m) => Expected(m, rule)' = Expected(m, rule)
         /\ Stored(m)' = Stored(m) + 1
              => Expected(m, rule)' = IF Triggers(m, rule) THEN Expected(m, rule) + 1
                                      ELSE Expected(m, rule)
         /\ Stored(m)' = 0 => Expected(m, rule)' = 0
<1>1. Stored(m) \in Nat
  BY AccountType
<1>2. Expected(m, rule)' = IF Triggers(m, rule) THEN Stored(m)' ELSE 0
  BY DEF Expected, Triggers
<1> QED
  BY <1>1, <1>2 DEF Expected

LEMMA NextAccounted == TypeInv /\ Accounted /\ [Next]_vars => Accounted'
<1> SUFFICES ASSUME TypeInv, Accounted, [Next]_vars,
                    NEW m \in Telemetries, NEW rule \in RuleNames
             PROVE  /\ Recorded(m, rule)' + Owed(m, rule)' <= Expected(m, rule)'
                    /\ restarts' = 0 =>
                         Expected(m, rule)' <= Recorded(m, rule)' + Owed(m, rule)' + faults'
  BY DEF Accounted
<1> DEFINE r == Recorded(m, rule)
           o == Owed(m, rule)
           x == Expected(m, rule)
<1>1. r \in Nat /\ o \in Nat /\ x \in Nat /\ faults \in Nat /\ restarts \in Nat
  BY AccountType, ExpectedChange
<1>2. r + o <= x /\ (restarts = 0 => x <= r + o + faults)
  BY DEF Accounted
<1>3. CASE Untouched(m, rule)
  BY <1>1, <1>2, <1>3, ExpectedChange DEF Untouched
<1>4. CASE RowAdded(m, rule)
  BY <1>1, <1>2, <1>4, ExpectedChange DEF RowAdded
<1>5. CASE Alerted(m, rule)
  BY <1>1, <1>2, <1>5, ExpectedChange DEF Alerted
<1>6. CASE Restarted(m, rule)
  BY <1>1, <1>2, <1>6, ExpectedChange DEF Restarted
<1> QED
  BY <1>3, <1>4, <1>5, <1>6, NextAccount DEF AccountStep

LEMMA NextNotified == TypeInv /\ NotifiedIsStored /\ [Next]_vars => NotifiedIsStored'
<1> SUFFICES ASSUME TypeInv, NotifiedIsStored, [Next]_vars, repo' = "sql" \/ restarts' = 0,
                    NEW m \in Telemetries, NEW rule \in RuleNames
             PROVE  Notices(m, rule)' + Owed(m, rule)' <= Expected(m, rule)'
  BY DEF NotifiedIsStored, Owed, Notices, Expected
<1> DEFINE n == Notices(m, rule)
           o == Owed(m, rule)
           x == Expected(m, rule)
<1>1. n \in Nat /\ o \in Nat /\ x \in Nat /\ restarts \in Nat
  BY AccountType, ExpectedChange
<1>2. repo' = repo
  BY TablesChangeTogether
<1>3. restarts' \in {restarts, restarts + 1} /\ (restarts' = restarts + 1 => restarts' # 0)
  BY <1>1, NextAccount DEF AccountStep, Untouched, RowAdded, Alerted, Restarted
<1>4. repo = "sql" \/ restarts = 0
  BY <1>1, <1>2, <1>3
<1>5. n + o <= x
  BY <1>4, AccountedAs
<1>6. CASE Untouched(m, rule)
  BY <1>1, <1>5, <1>6, ExpectedChange DEF Untouched
<1>7. CASE RowAdded(m, rule)
  BY <1>1, <1>5, <1>7, ExpectedChange DEF RowAdded
<1>8. CASE Alerted(m, rule)
  BY <1>1, <1>5, <1>8, ExpectedChange DEF Alerted
<1>9. CASE Restarted(m, rule)
  <2>1. repo = "sql"
    BY <1>1, <1>2, <1>9 DEF Restarted
  <2> QED
    BY <1>1, <1>5, <1>9, <2>1, ExpectedChange DEF Restarted
<1> QED
  BY <1>6, <1>7, <1>8, <1>9, NextAccount DEF AccountStep

LEMMA InitAccount ==
  ASSUME Init, NEW m \in Telemetries, NEW rule \in RuleNames
  PROVE  Recorded(m, rule) = 0 /\ Notices(m, rule) = 0 /\ Owed(m, rule) = 0
         /\ Expected(m, rule) = 0 /\ faults = 0
<1>1. <<m, rule>> \in EventKeys /\ <<m, rule>> \in Alerts
  BY DEF EventKeys, Alerts
<1>2. \A h \in Handlers : ~ Owes(job[h], m, rule)
  BY DEF Init, IdleJob, Owes
<1>3. StillToAlert(m, rule) = {}
  BY <1>2, StillOwes
<1>4. {i \in DOMAIN rows : rows[i] = m} = {}
  BY DEF Init
<1>5. Owed(m, rule) = 0 /\ Stored(m) = 0
  BY <1>3, <1>4, FS_EmptySet DEF Owed, Stored
<1>6. events[<<m, rule>>] = 0 /\ hooks[<<m, rule>>] = 0 /\ notified[<<m, rule>>] = 0 /\ faults = 0
  BY <1>1 DEF Init
<1> QED
  BY <1>5, <1>6 DEF Recorded, Notices, Expected

(* AlertsAreAccounted: an event is recorded once for each stored telemetry *)
(* that the documented rules name, or will be, unless its statement failed *)
(* or the process stopped in between; and never for any other.             *)
THEOREM EveryAlertIsAccounted == Spec => []AlertsAreAccounted
<1>1. Init => Accounted
  <2> SUFFICES ASSUME Init PROVE Accounted
    OBVIOUS
  <2>1. \A m \in Telemetries, rule \in RuleNames :
          Recorded(m, rule) = 0 /\ Owed(m, rule) = 0 /\ Expected(m, rule) = 0 /\ faults = 0
    BY InitAccount
  <2> QED
    BY <2>1 DEF Accounted
<1>2. Accounted => AlertsAreAccounted
  BY AccountedAs
<1> QED
  BY <1>1, <1>2, TypeAlways, NextAccounted, PTL DEF Spec

(* NotifiedIsStored: people are notified only of telemetry that is in the  *)
(* table, and once for each of its rows.                                   *)
THEOREM NoticesAreStored == Spec => []NotifiedIsStored
<1>1. Init => NotifiedIsStored
  <2> SUFFICES ASSUME Init PROVE NotifiedIsStored
    OBVIOUS
  <2>1. \A m \in Telemetries, rule \in RuleNames :
          Notices(m, rule) = 0 /\ Owed(m, rule) = 0 /\ Expected(m, rule) = 0
    BY InitAccount
  <2> QED
    BY <2>1, AccountedAs
<1> QED
  BY <1>1, TypeAlways, NextNotified, PTL DEF Spec

-----------------------------------------------------------------------------
(* The list of devices.  ListIsCurrent needs what holds before the reply:  *)
(* since the request came the total has not gone down, and since the       *)
(* SELECT the entry has been that of a moment, or else nothing had been    *)
(* stored, or an error has left it out.                                    *)

Snapshot(d, asked, list) ==
  /\ asked <= list.total /\ list.total <= Cardinality(RowsOf(d))
  /\ repo = "sql" =>
       \A i \in RowsOf(d) : CountAt(d, i) = list.total => list.seq = Payload[rows[i]].seq

ListOK(j) ==
  j.dev \in Devices =>
    /\ j.pc = "list" => j.asked <= devices[j.dev].total /\ ~ j.found
    /\ j.pc \in {"list", "listing"} => j.before <= faults
    /\ j.pc \in {"listing", "reply"} =>
         /\ j.found => Snapshot(j.dev, j.asked, j.list)
         /\ ~ j.found => j.asked = 0 \/ j.before < faults

ListInv == \A h \in Handlers, j \in Jobs : job[h] = j => ListOK(j)

(* The entry that a SELECT returns is that of the row stored last.         *)
LEMMA SelectIsSnapshot ==
  ASSUME TypeInv, TotalsAgree, DeviceShowsLastRow, NEW d \in Devices,
         NEW asked, asked <= devices[d].total
  PROVE  Snapshot(d, asked, devices[d])
<1>1. devices[d].total = Cardinality(RowsOf(d)) /\ Cardinality(RowsOf(d)) \in Nat
      /\ IsFiniteSet(RowsOf(d))
  BY RowsAreFinite DEF TotalsAgree, TypeInv, TypeOK
<1>2. ASSUME NEW i \in RowsOf(d), CountAt(d, i) = devices[d].total
      PROVE  devices[d].seq = Payload[rows[i]].seq
  <2>1. {k \in RowsOf(d) : k <= i} \subseteq RowsOf(d)
    OBVIOUS
  <2>2. Cardinality({k \in RowsOf(d) : k <= i}) = Cardinality(RowsOf(d))
    BY <1>1, <1>2 DEF CountAt
  <2>3. {k \in RowsOf(d) : k <= i} = RowsOf(d)
    BY <1>1, <2>1, <2>2, FS_Subset
  <2>4. \A k \in RowsOf(d) : k <= i
    BY <2>3
  <2> QED
    BY <2>4 DEF DeviceShowsLastRow
<1> QED
  BY <1>1, <1>2 DEF Snapshot

(* Telemetry that is stored later does not touch a snapshot.               *)
LEMMA StoreKeepsList ==
  ASSUME TypeInv, repo' = repo, faults' = faults, NEW m \in Telemetries, Store(m),
         NEW j \in Jobs, ListOK(j)
  PROVE  ListOK(j)'
<1> SUFFICES ASSUME j.dev \in Devices
             PROVE  /\ j.pc = "list" => j.asked <= devices'[j.dev].total
                    /\ j.pc \in {"listing", "reply"} /\ j.found
                         => Snapshot(j.dev, j.asked, j.list)'
  BY DEF ListOK
<1> DEFINE d == j.dev
           R == RowsOf(d)
           S == RowsOf(d)'
<1>0. /\ Len(rows) \in Nat /\ R \subseteq 1 .. Len(rows) /\ Len(rows) + 1 \notin R
      /\ \A i \in 1 .. Len(rows) : rows'[i] = rows[i]
      /\ S = IF d = Payload[m].dev THEN R \cup {Len(rows) + 1} ELSE R
  BY StoreAddsRow
<1>1. IsFiniteSet(R) /\ Cardinality(R) \in Nat
  BY RowsAreFinite DEF TypeInv, TypeOK
<1>2. Cardinality(R \cup {Len(rows) + 1}) = Cardinality(R) + 1
  BY <1>0, <1>1, FS_AddElement
<1>3. j.asked \in Nat /\ j.list.total \in Nat
  BY DEF Jobs, DeviceRows
<1>4. ASSUME j.pc = "list" PROVE j.asked <= devices'[d].total
  <2>1. j.asked <= devices[d].total /\ devices[d].total \in Nat
    BY <1>4 DEF ListOK, TypeInv, TypeOK, DeviceRows
  <2>2. devices'[d] = IF d = Payload[m].dev THEN Upsert(devices[d], Payload[m]) ELSE devices[d]
    BY StoreAddsRow
  <2>3. Upsert(devices[d], Payload[m]).total = devices[d].total + 1
    BY DEF Upsert
  <2> QED
    BY <1>3, <2>1, <2>2, <2>3
<1>5. ASSUME Snapshot(d, j.asked, j.list) PROVE Snapshot(d, j.asked, j.list)'
  <2>1. j.asked <= j.list.total /\ j.list.total <= Cardinality(R)
    BY <1>5 DEF Snapshot
  <2>2. Cardinality(S) = Cardinality(R) \/ Cardinality(S) = Cardinality(R) + 1
    BY <1>0, <1>2
  <2>3. j.list.total <= Cardinality(S)
    BY <1>1, <1>3, <2>1, <2>2
  <2>4. ASSUME repo = "sql", NEW i \in S, CountAt(d, i)' = j.list.total
        PROVE  j.list.seq = Payload[rows'[i]].seq
    <3>1. CountAt(d, i)' = Cardinality({k \in S : k <= i})
      BY DEF CountAt
    <3>2. CASE i \in R
      <4>1. {k \in S : k <= i} = {k \in R : k <= i}
        BY <1>0, <3>2
      <4>2. CountAt(d, i) = j.list.total
        BY <2>4, <3>1, <4>1 DEF CountAt
      <4>3. j.list.seq = Payload[rows[i]].seq
        BY <1>5, <2>4, <3>2, <4>2 DEF Snapshot
      <4> QED
        BY <1>0, <3>2, <4>3
    <3>3. CASE i \notin R
      <4>1. S = R \cup {Len(rows) + 1} /\ i = Len(rows) + 1
        BY <1>0, <3>3
      <4>2. {k \in S : k <= i} = S
        BY <1>0, <4>1
      <4>3. Cardinality({k \in S : k <= i}) = Cardinality(R) + 1
        BY <1>2, <4>1, <4>2
      <4>4. j.list.total = Cardinality(R) + 1
        BY <2>4, <3>1, <4>3
      <4> QED
        BY <1>1, <1>3, <2>1, <4>4
    <3> QED
      BY <3>2, <3>3
  <2> QED
    BY <2>1, <2>3, <2>4 DEF Snapshot
<1> QED
  BY <1>4, <1>5 DEF ListOK

(* Handlers that have nothing to do with the list.                         *)
Elsewhere(j) == j.pc \notin {"list", "listing", "reply"} \/ j.dev \notin Devices

LEMMA ElsewhereOK ==
  ASSUME NEW j, Elsewhere(j)
  PROVE  ListOK(j) /\ ListOK(j)'
BY DEF Elsewhere, ListOK

Lists(h) ==
  \/ QueryDevices(h) \/ EndListing(h) \/ QueryDevicesFails(h)
  \/ job[h].pc = "listing" /\ (RowsFail(h) \/ ScanFails(h))

LEMMA WorkElsewhere ==
  ASSUME TypeInv, NEW h \in Handlers, Work(h), ~ Lists(h)
  PROVE  Others(h) /\ Elsewhere(job'[h])
<1> DEFINE j == job[h]
<1>0. job \in [Handlers -> Jobs] /\ j \in Jobs /\ JobOK(j) /\ NoTelemetry \notin Devices
  BY IngestAssumption DEF TypeInv, TypeOK
<1>1. ASSUME NEW step, Goto(h, step), step \notin {"list", "listing", "reply"}
      PROVE  Others(h) /\ Elsewhere(job'[h])
  BY <1>0, <1>1 DEF Goto, Others, Jobs, Elsewhere
<1>2. ASSUME Goto(h, "reply"), j.pc \notin {"list", "listing", "reply", "error"}
      PROVE  Others(h) /\ Elsewhere(job'[h])
  <2>1. Others(h) /\ job'[h].dev = j.dev
    BY <1>0, <1>2 DEF Goto, Others, Jobs
  <2>2. j.dev = NoTelemetry
    BY <1>0, <1>2 DEF JobOK
  <2> QED
    BY <1>0, <2>1, <2>2 DEF Elsewhere
<1>3. CASE SaveMemory(h) \/ Begin(h) \/ BeginFails(h) \/ InsertRow(h) \/ UpsertDevice(h)
           \/ Commit(h) \/ TxFails(h)
  BY <1>1, <1>3 DEF SaveMemory, Begin, BeginFails, InsertRow, UpsertDevice, Commit, TxFails
<1>4. CASE Alert(h) \/ AlertUnsaved(h)
  <2>1. job' = [job EXCEPT ![h].next = NextAlert(h) + 1] /\ j.pc = "alert"
    BY <1>4 DEF Alert, AlertUnsaved, HasAlert
  <2>2. Others(h) /\ job'[h] = [j EXCEPT !.next = NextAlert(h) + 1]
    BY <1>0, <2>1 DEF Others
  <2>3. job'[h].pc = "alert"
    BY <1>0, <2>1, <2>2 DEF Jobs
  <2> QED
    BY <2>2, <2>3 DEF Elsewhere
<1>5. CASE EndAlerts(h) \/ SaveEvent(h) \/ EndScan(h)
  BY <1>2, <1>5 DEF EndAlerts, SaveEvent, EndScan
<1>6. CASE SaveEventFails(h) \/ QueryHistory(h) \/ QueryHistoryFails(h)
  BY <1>1, <1>6 DEF SaveEventFails, QueryHistory, QueryHistoryFails
<1>7. CASE RowsFail(h) \/ ScanFails(h)
  <2>1. j.pc = "scan" /\ j.dev = NoTelemetry
    BY <1>0, <1>7 DEF Lists, RowsFail, ScanFails, JobOK
  <2>2. \E read : \/ job' = [job EXCEPT ![h].pc = "reply", ![h].found = read]
                  \/ job' = [job EXCEPT ![h].found = read]
    BY <1>7 DEF RowsFail, ScanFails
  <2>3. Others(h) /\ job'[h].dev = j.dev
    BY <1>0, <2>2 DEF Others, Jobs
  <2> QED
    BY <1>0, <2>1, <2>3 DEF Elsewhere
<1>8. CASE Respond(h)
  BY <1>0, <1>8 DEF Respond, Others, Elsewhere, IdleJob
<1> QED
  BY <1>3, <1>4, <1>5, <1>6, <1>7, <1>8 DEF Work, Lists

LEMMA SameTables ==
  ASSUME UNCHANGED <<repo, rows, devices>>, faults \in Nat, faults' \in {faults, faults + 1},
         NEW j \in Jobs, ListOK(j)
  PROVE  ListOK(j)'
<1>1. j.before \in Nat
  BY DEF Jobs
<1>2. /\ j.before <= faults => j.before <= faults'
      /\ j.before < faults => j.before < faults'
  BY <1>1
<1>3. Snapshot(j.dev, j.asked, j.list) => Snapshot(j.dev, j.asked, j.list)'
  BY DEF Snapshot, RowsOf, CountAt
<1> QED
  BY <1>2, <1>3 DEF ListOK

(* Errors are counted.                                                     *)
LEMMA FaultsGrow ==
  ASSUME TypeInv, [Next]_vars
  PROVE  faults \in Nat /\ faults' \in {faults, faults + 1}
<1>1. ASSUME NEW h \in Handlers, Work(h)
      PROVE  faults' \in {faults, faults + 1}
  <2>1. CASE BeginFails(h) \/ TxFails(h) \/ AlertUnsaved(h) \/ SaveEventFails(h)
             \/ QueryDevicesFails(h) \/ QueryHistoryFails(h) \/ RowsFail(h) \/ ScanFails(h)
    BY <2>1 DEF BeginFails, TxFails, AlertUnsaved, SaveEventFails, QueryDevicesFails,
                QueryHistoryFails, RowsFail, ScanFails, Fault
  <2>2. CASE SaveMemory(h) \/ Begin(h) \/ InsertRow(h) \/ UpsertDevice(h) \/ Commit(h)
             \/ Alert(h) \/ EndAlerts(h) \/ SaveEvent(h) \/ QueryDevices(h) \/ EndListing(h)
             \/ QueryHistory(h) \/ EndScan(h) \/ Respond(h)
    BY <2>2 DEF SaveMemory, Begin, InsertRow, UpsertDevice, Commit, Alert, EndAlerts, SaveEvent,
                QueryDevices, EndListing, QueryHistory, EndScan, Respond
  <2> QED
    BY <1>1, <2>1, <2>2 DEF Work
<1>2. ASSUME ~ \E h \in Handlers : Work(h) PROVE faults' = faults
  BY <1>2 DEF Next, vars, Receive, ReceiveEvent, ReceiveList, ReceiveHistory, SendAlert,
              SendAlertFails, Restart
<1>3. faults \in Nat
  BY DEF TypeInv, TypeOK
<1> QED
  BY <1>1, <1>2, <1>3

(* The SELECT, and what is read behind it.                                 *)
LEMMA ListWork ==
  ASSUME TypeInv, TotalsAgree, DeviceShowsLastRow, ListInv, NEW h \in Handlers,
         QueryDevices(h) \/ EndListing(h), NEW k, job'[h] = k
  PROVE  Others(h) /\ ListOK(k)
<1> DEFINE j == job[h]
           d == j.dev
<1>0. /\ job \in [Handlers -> Jobs] /\ j \in Jobs /\ ListOK(j)
      /\ j.asked \in Nat /\ j.list \in DeviceRows /\ j.list.total \in Nat
  <2>1. job \in [Handlers -> Jobs] /\ j \in Jobs
    BY DEF TypeInv, TypeOK
  <2> QED
    BY <2>1 DEF ListInv, Jobs, DeviceRows
<1>1. d \in Devices
  BY DEF QueryDevices, EndListing, TypeInv, JobOK
<1>2. CASE QueryDevices(h)
  <2>1. /\ Others(h) /\ k.dev = d /\ k.asked = j.asked /\ k.list = devices[d]
        /\ k.before = j.before /\ (devices[d].total > 0 => k.found)
        /\ k.pc = "listing" /\ j.pc = "list"
    BY <1>0, <1>2 DEF QueryDevices, Others, Jobs
  <2>2. j.asked <= devices[d].total /\ j.before <= faults
    BY <1>0, <1>1, <2>1 DEF ListOK
  <2>3. Snapshot(d, j.asked, devices[d])
    BY <1>1, <2>2, SelectIsSnapshot
  <2>4. devices[d].total \in Nat
    BY <1>1 DEF TypeInv, TypeOK, DeviceRows
  <2>5. ~ k.found => j.asked = 0
    BY <1>0, <2>1, <2>2, <2>4
  <2> QED
    BY <2>1, <2>2, <2>3, <2>5 DEF ListOK
<1>3. CASE EndListing(h) /\ repo = "sql"
  <2>1. /\ Others(h) /\ k.dev = d /\ k.asked = j.asked /\ k.list = j.list
        /\ k.before = j.before /\ k.found = j.found
        /\ k.pc = "reply" /\ j.pc = "listing"
    BY <1>0, <1>3 DEF EndListing, Goto, Others, Jobs
  <2>2. /\ j.found => Snapshot(d, j.asked, j.list)
        /\ ~ j.found => j.asked = 0 \/ j.before < faults
    BY <1>0, <1>1, <2>1 DEF ListOK
  <2> QED
    BY <2>1, <2>2 DEF ListOK
<1>4. CASE EndListing(h) /\ repo = "memory"
  <2>0. PICK t \in j.list.total .. devices[d].total :
          \E q : job' = [job EXCEPT ![h].pc = "reply", ![h].list.total = t, ![h].list.seq = q]
    BY <1>4 DEF EndListing
  <2>1. PICK q :
          job' = [job EXCEPT ![h].pc = "reply", ![h].list.total = t, ![h].list.seq = q]
    BY <2>0
  <2>2. /\ Others(h) /\ k.dev = d /\ k.asked = j.asked /\ k.list.total = t
        /\ k.before = j.before /\ k.found = j.found /\ k.pc = "reply"
    BY <1>0, <2>1 DEF Others, Jobs, DeviceRows
  <2>3. /\ j.found => j.asked <= j.list.total
        /\ ~ j.found => j.asked = 0 \/ j.before < faults
    BY <1>0, <1>1, <1>4 DEF ListOK, Snapshot, EndListing
  <2>4. devices[d].total = Cardinality(RowsOf(d)) /\ devices[d].total \in Nat
    BY <1>1 DEF TotalsAgree, TypeInv, TypeOK, DeviceRows
  <2>5. j.found => j.asked <= t /\ t <= Cardinality(RowsOf(d))
    BY <1>0, <2>1, <2>3, <2>4
  <2>6. j.found => Snapshot(d, j.asked, k.list)
    BY <1>4, <2>2, <2>5 DEF Snapshot
  <2> QED
    BY <2>2, <2>3, <2>6 DEF ListOK
<1> QED
  BY <1>2, <1>3, <1>4 DEF TypeInv, TypeOK

(* An error leaves the entry as it was, or out.                            *)
LEMMA ListFault ==
  ASSUME TypeInv, ListInv, NEW h \in Handlers,
         \/ QueryDevicesFails(h)
         \/ job[h].pc = "listing" /\ (RowsFail(h) \/ ScanFails(h)),
         NEW k, job'[h] = k
  PROVE  Others(h) /\ ListOK(k)'
<1> DEFINE j == job[h]
<1>0. /\ job \in [Handlers -> Jobs] /\ j \in Jobs /\ ListOK(j)
      /\ j.before \in Nat /\ faults \in Nat /\ faults' = faults + 1 /\ j.dev \in Devices
      /\ UNCHANGED <<repo, rows, devices>>
  <2>1. job \in [Handlers -> Jobs] /\ j \in Jobs /\ faults \in Nat
    BY DEF TypeInv, TypeOK
  <2>2. j.pc \in {"list", "listing"} /\ j.dev \in Devices
    BY DEF QueryDevicesFails, TypeInv, JobOK
  <2>3. UNCHANGED <<repo, rows, devices>> /\ faults' = faults + 1
    BY DEF QueryDevicesFails, RowsFail, ScanFails, Fault
  <2> QED
    BY <2>1, <2>2, <2>3 DEF ListInv, Jobs
<1>1. /\ Others(h) /\ k.dev = j.dev /\ k.asked = j.asked /\ k.list = j.list
      /\ k.before = j.before /\ k.pc \in {"listing", "reply"}
      /\ k.found = FALSE \/ (j.pc = "listing" /\ k.found = j.found)
  <2>1. CASE QueryDevicesFails(h)
    <3>1. j.found = FALSE
      BY <1>0, <2>1 DEF QueryDevicesFails, ListOK, Jobs
    <3> QED
      BY <1>0, <2>1, <3>1 DEF QueryDevicesFails, Goto, Others, Jobs
  <2>2. CASE j.pc = "listing" /\ RowsFail(h)
    <3>1. PICK read \in {j.found, FALSE} :
            job' = [job EXCEPT ![h].pc = "reply", ![h].found = read]
      BY <2>2 DEF RowsFail
    <3> QED
      BY <1>0, <2>2, <3>1 DEF Others, Jobs
  <2>3. CASE j.pc = "listing" /\ ScanFails(h)
    <3>1. PICK read \in {j.found, FALSE} : job' = [job EXCEPT ![h].found = read]
      BY <2>3 DEF ScanFails
    <3> QED
      BY <1>0, <2>3, <3>1 DEF Others, Jobs
  <2> QED
    BY <2>1, <2>2, <2>3
<1>2. j.before <= faults
  BY <1>0 DEF ListOK, QueryDevicesFails
<1>3. k.before < faults'
  BY <1>0, <1>1, <1>2
<1>4. k.found => Snapshot(j.dev, j.asked, j.list)
  BY <1>0, <1>1 DEF ListOK
<1>5. k.found => Snapshot(k.dev, k.asked, k.list)'
  BY <1>0, <1>1, <1>4 DEF Snapshot, RowsOf, CountAt
<1>6. k.before <= faults'
  BY <1>0, <1>1, <1>3
<1> QED
  BY <1>1, <1>3, <1>5, <1>6 DEF ListOK

LEMMA NextList ==
  TypeInv /\ TotalsAgree /\ DeviceShowsLastRow /\ ListInv /\ [Next]_vars => ListInv'
<1> SUFFICES ASSUME TypeInv, TotalsAgree, DeviceShowsLastRow, ListInv, [Next]_vars,
                    NEW g \in Handlers, NEW j \in Jobs, job'[g] = j
             PROVE  ListOK(j)'
  BY DEF ListInv
<1>0. /\ job \in [Handlers -> Jobs] /\ \A h \in Handlers : job[h] \in Jobs /\ ListOK(job[h])
      /\ faults \in Nat /\ faults' \in {faults, faults + 1}
  BY FaultsGrow DEF ListInv, TypeInv, TypeOK
<1>1. ASSUME NEW h \in Handlers, SaveMemory(h) \/ Commit(h) PROVE ListOK(j)'
  <2>1. Others(h) /\ Elsewhere(job'[h])
    <3>1. ~ Lists(h) /\ Work(h)
      BY <1>1 DEF SaveMemory, Commit, Lists, QueryDevices, EndListing, QueryDevicesFails, Work
    <3> QED
      BY <3>1, WorkElsewhere
  <2>2. CASE g = h
    BY <2>1, <2>2, ElsewhereOK
  <2>3. CASE g # h
    <3>1. job[g] = j /\ ListOK(j)
      BY <1>0, <2>1, <2>3 DEF Others
    <3>2. repo' = repo /\ faults' = faults /\ job[h].msg \in Telemetries /\ Store(job[h].msg)
      BY <1>1 DEF SaveMemory, Commit, TypeInv, JobOK
    <3> QED
      BY <3>1, <3>2, StoreKeepsList
  <2> QED
    BY <2>2, <2>3
<1>2. ASSUME NEW h \in Handlers, Others(h), UNCHANGED <<repo, rows, devices>>,
             g = h => ListOK(j) \/ ListOK(j)'
      PROVE  ListOK(j)'
  <2>1. g # h => ListOK(j)
    BY <1>0, <1>2 DEF Others
  <2> QED
    BY <1>0, <1>2, <2>1, SameTables
<1>3. ASSUME NEW h \in Handlers, Work(h), ~ SaveMemory(h), ~ Commit(h) PROVE ListOK(j)'
  <2>1. UNCHANGED <<repo, rows, devices>>
    BY <1>3 DEF Work, Begin, BeginFails, InsertRow, UpsertDevice, TxFails, Alert, AlertUnsaved,
                EndAlerts, SaveEvent, SaveEventFails, QueryDevices, EndListing,
                QueryDevicesFails, QueryHistory, EndScan, QueryHistoryFails, RowsFail,
                ScanFails, Respond
  <2>2. CASE QueryDevices(h) \/ EndListing(h)
    <3>1. Others(h) /\ (g = h => ListOK(j))
      <4>1. job'[h] = job'[h] => Others(h)
        BY <2>2, ListWork
      <4> QED
        BY <2>2, <4>1, ListWork
    <3> QED
      BY <1>2, <2>1, <3>1
  <2>3. CASE /\ Lists(h) /\ ~ QueryDevices(h) /\ ~ EndListing(h)
    <3>1. Others(h) /\ (g = h => ListOK(j)')
      <4>1. job'[h] = job'[h] => Others(h)
        BY <2>3, ListFault DEF Lists
      <4> QED
        BY <2>3, <4>1, ListFault DEF Lists
    <3> QED
      BY <1>2, <2>1, <3>1
  <2>4. CASE ~ Lists(h)
    <3>1. Others(h) /\ Elsewhere(job'[h])
      BY <1>3, <2>4, WorkElsewhere
    <3>2. g = h => ListOK(j)
      BY <3>1, ElsewhereOK
    <3> QED
      BY <1>2, <2>1, <3>1, <3>2
  <2> QED
    BY <2>2, <2>3, <2>4
<1>4. ASSUME NEW h \in Handlers, NEW m \in Telemetries, Receive(h, m) \/ ReceiveEvent(h, m)
      PROVE  ListOK(j)'
  <2>1. Others(h) /\ (g = h => Elsewhere(j)) /\ UNCHANGED <<repo, rows, devices>>
    BY <1>0, <1>4 DEF Receive, ReceiveEvent, Others, Elsewhere, IdleJob
  <2> QED
    BY <1>2, <2>1, ElsewhereOK
<1>5. ASSUME NEW h \in Handlers, NEW d \in Devices, ReceiveList(h, d) PROVE ListOK(j)'
  <2>1. Others(h) /\ UNCHANGED <<repo, rows, devices>>
    BY <1>0, <1>5 DEF ReceiveList, Others
  <2>2. g = h => /\ j.pc = "list" /\ j.dev = d /\ j.asked = devices[d].total
                 /\ j.before = faults /\ j.found = FALSE
    BY <1>0, <1>5 DEF ReceiveList, IdleJob
  <2>3. devices[d].total \in Nat
    BY DEF TypeInv, TypeOK, DeviceRows
  <2>4. g = h => ListOK(j)
    BY <1>0, <2>2, <2>3 DEF ListOK
  <2> QED
    BY <1>2, <2>1, <2>4
<1>6. ASSUME NEW h \in Handlers, ReceiveHistory(h) PROVE ListOK(j)'
  <2>1. Others(h) /\ (g = h => Elsewhere(j)) /\ UNCHANGED <<repo, rows, devices>>
    BY <1>0, <1>6 DEF ReceiveHistory, Goto, Others, Elsewhere, Jobs
  <2> QED
    BY <1>2, <2>1, ElsewhereOK
<1>7. CASE Restart
  <2>1. Elsewhere(j)
    BY <1>7 DEF Restart, Elsewhere, IdleJob
  <2> QED
    BY <2>1, ElsewhereOK
<1>8. CASE UNCHANGED <<repo, rows, devices, job>>
  <2>1. ListOK(j)
    BY <1>0, <1>8
  <2> QED
    BY <1>0, <1>8, <2>1, SameTables
<1> QED
  BY <1>1, <1>3, <1>4, <1>5, <1>6, <1>7, <1>8
     DEF Next, vars, SendAlert, SendAlertFails

(* ListIsCurrent: an entry of the list of devices has every telemetry that *)
(* was stored before the request, and in SQL it is of one moment; a device *)
(* that was stored by then is missing only after an error.                 *)
THEOREM ListsAreCurrent == Spec => []ListIsCurrent
<1>1. Init => ListInv
  BY DEF Init, ListInv, ListOK, IdleJob
<1>2. TypeInv /\ ListInv => ListIsCurrent
  <2> SUFFICES ASSUME TypeInv, ListInv, NEW h \in Handlers,
                      job[h].dev \in Devices, job[h].pc = "reply"
               PROVE  /\ job[h].found => Snapshot(job[h].dev, job[h].asked, job[h].list)
                      /\ ~ job[h].found => job[h].asked = 0 \/ job[h].before < faults
    BY DEF ListIsCurrent, Snapshot
  <2>1. job[h] \in Jobs
    BY DEF TypeInv, TypeOK
  <2> QED
    BY <2>1 DEF ListInv, ListOK
<1> QED
  BY <1>1, <1>2, TypeAlways, TotalsAreRows, LastRowIsShown, NextList, PTL DEF Spec
=============================================================================
