------------------------- MODULE GoCommandsProofs -------------------------
(***************************************************************************)
(* Proofs about GoCommands: the five invariants of its run, for every set  *)
(* of devices, commands and handlers, every request body and every bound.  *)
(***************************************************************************)
EXTENDS GoCommands, FiniteSetTheorems, SequenceTheorems, TLAPS

(* The device of a command is a device, its interval a natural number.     *)
LEMMA RequestType ==
  ASSUME NEW c \in Commands
  PROVE  /\ Request[c].dev \in Devices
         /\ Request[c].tenths \in Nat
         /\ Seconds(c) \in Nat
<1>1. Request[c] \in Bodies
  BY GoAssumption
<1>2. Request[c].dev \in Devices /\ Request[c].tenths \in Nat
  BY <1>1 DEF Bodies
<1> QED
  BY <1>2 DEF Seconds

(* What a SELECT returns: a sequence of PENDING commands of the device, at *)
(* ascending positions of the table.                                       *)
LEMMA PendingListType ==
  ASSUME order \in Seq(Commands),
         NEW d \in Devices,
         NEW list \in PendingLists(d)
  PROVE  /\ list \in Seq(Commands)
         /\ \A i \in 1 .. Len(list) : /\ Request[list[i]].dev = d
                                      /\ status[list[i]] = "PENDING"
         /\ \A i \in 1 .. Len(list), k \in 1 .. Len(list) :
              i < k => \E m \in 1 .. Len(order), n \in 1 .. Len(order) :
                         m < n /\ order[m] = list[i] /\ order[n] = list[k]
<1> DEFINE found == PendingRows(d)
<1>1. found \subseteq 1 .. Len(order)
  BY DEF PendingRows
<1>2. Len(order) \in Nat /\ \A i \in 1 .. Len(order) : order[i] \in Commands
  OBVIOUS
<1>3. IsFiniteSet(found)
  <2>1. 1 \in Int /\ Len(order) \in Int
    BY <1>2
  <2>2. IsFiniteSet(1 .. Len(order))
    BY <2>1, FS_Interval
  <2> QED
    BY <1>1, <2>2, FS_Subset
<1>4. Cardinality(found) \in Nat
  BY <1>3, FS_CardinalityType
<1>5. PICK f \in Ascending(found) : list = [k \in DOMAIN f |-> order[f[k]]]
  BY DEF PendingLists
<1>6. f \in [1 .. Cardinality(found) -> found]
      /\ \A i, k \in DOMAIN f : i < k => f[i] < f[k]
  BY <1>5 DEF Ascending
<1>7. DOMAIN f = 1 .. Cardinality(found)
  BY <1>6
<1>8. \A k \in 1 .. Cardinality(found) : f[k] \in found
  BY <1>6
<1>9. list = [k \in 1 .. Cardinality(found) |-> order[f[k]]]
  BY <1>5, <1>7
<1>10. list \in Seq(Commands) /\ Len(list) = Cardinality(found)
  BY <1>1, <1>2, <1>4, <1>8, <1>9
<1>11. \A i \in 1 .. Len(list) : Request[list[i]].dev = d /\ status[list[i]] = "PENDING"
  BY <1>8, <1>9, <1>10 DEF PendingRows
<1>12. ASSUME NEW i \in 1 .. Len(list), NEW k \in 1 .. Len(list), i < k
       PROVE  \E m \in 1 .. Len(order), n \in 1 .. Len(order) :
                m < n /\ order[m] = list[i] /\ order[n] = list[k]
  <2>1. f[i] < f[k]
    BY <1>6, <1>7, <1>10, <1>12
  <2>2. f[i] \in 1 .. Len(order) /\ f[k] \in 1 .. Len(order)
    BY <1>1, <1>8, <1>10
  <2> QED
    BY <2>1, <2>2, <1>9, <1>10
<1> QED
  BY <1>10, <1>11, <1>12

(* What is read of a list when the iteration over its rows fails.          *)
LEMMA PrefixType ==
  ASSUME NEW list \in Seq(Commands), NEW n \in 0 .. Len(list) - 1
  PROVE  /\ SubSeq(list, 1, n) \in Seq(Commands)
         /\ Len(SubSeq(list, 1, n)) = n
         /\ \A i \in 1 .. n : SubSeq(list, 1, n)[i] = list[i] /\ i \in 1 .. Len(list)
<1>1. \A i \in 1 .. n : list[i] \in Commands /\ i \in 1 .. Len(list)
  OBVIOUS
<1>2. n \in Nat /\ SubSeq(list, 1, n) = [i \in 1 .. n |-> list[i]]
  BY SubSeqRestrict DEF Restrict
<1> QED
  BY <1>1, <1>2

-----------------------------------------------------------------------------
(* Type correctness.  TypeOK is not inductive: that `next` stays within    *)
(* the list a SELECT fetches needs that the handler has not moved it       *)
(* before, which JobOK adds.                                               *)

JobOK(j) ==
  /\ j \in Jobs
  /\ j.pc # "idle" => j.dev \in Devices
  /\ j.next \in 1 .. Len(j.picked) + 1
  /\ j.pc \in {"idle", "config", "select"} => j.picked = <<>>
  /\ j.pc \in {"idle", "config", "select", "rows"} => j.next = 1

JobsOK ==
  /\ job \in [Handlers -> Jobs]
  /\ \A h \in Handlers : JobOK(job[h])

TableOK ==
  /\ repo \in Repos
  /\ status \in [Commands -> Statuses]
  /\ order \in Seq(Commands)
  /\ rows \in Seq(Commands)
  /\ sleepConfigs \in [Devices -> Nat]
  /\ conns \subseteq Handlers
  /\ faults \in 0 .. MaxFaults
  /\ restarts \in 0 .. MaxRestarts

TypeInv == TableOK /\ JobsOK

LEMMA TypeInvGivesTypeOK == TypeInv => TypeOK
BY DEF TypeInv, TableOK, JobsOK, JobOK, TypeOK

LEMMA IdleJobOK == JobOK(IdleJob)
<1>1. <<>> \in Seq(Commands) /\ Len(<<>>) = 0
  OBVIOUS
<1> QED
  BY <1>1 DEF JobOK, IdleJob, Jobs, Steps

(* A step that replaces the variables of one goroutine by good ones.       *)
LEMMA OneJob ==
  ASSUME JobsOK, NEW h \in Handlers, NEW new, JobOK(new),
         job' = [job EXCEPT ![h] = new]
  PROVE  JobsOK'
<1>1. new \in Jobs
  BY DEF JobOK
<1>2. job' \in [Handlers -> Jobs]
  BY <1>1 DEF JobsOK
<1>3. ASSUME NEW g \in Handlers PROVE JobOK(job'[g])
  BY <1>3 DEF JobsOK
<1> QED
  BY <1>2, <1>3 DEF JobsOK

LEMMA InitType == Init => TypeInv
<1> SUFFICES ASSUME Init PROVE TypeInv
  OBVIOUS
<1>1. JobsOK
  BY IdleJobOK DEF JobsOK, JobOK, Init
<1>2. order \in Seq(Commands) /\ rows \in Seq(Commands)
  BY DEF Init
<1>3. TableOK
  BY <1>2, GoAssumption DEF Init, TableOK, Statuses
<1> QED
  BY <1>1, <1>3 DEF TypeInv

(* The steps of a HandleTelemetry goroutine keep the types.                *)
LEMMA WorkType ==
  ASSUME TypeInv, NEW h \in Handlers, Work(h)
  PROVE  TypeInv'
<1> DEFINE j == job[h]
<1>0. TableOK /\ JobsOK /\ JobOK(j)
  BY DEF TypeInv, JobsOK
<1>1. CASE ReadConfig(h)
  <2> DEFINE new == [j EXCEPT !.pc = "select",
                              !.sleep = IF sleepConfigs[j.dev] = 0 THEN DefaultSleep
                                        ELSE sleepConfigs[j.dev]]
  <2>1. job' = [job EXCEPT ![h] = new]
    BY <1>1 DEF ReadConfig
  <2>2. j.pc = "config" /\ sleepConfigs[j.dev] \in Nat
    BY <1>0, <1>1 DEF ReadConfig, TableOK, JobOK
  <2>3. JobOK(new)
    BY <1>0, <2>2 DEF JobOK, Jobs, Steps, DefaultSleep
  <2>4. JobsOK'
    BY <1>0, <2>1, <2>3, OneJob
  <2>5. TableOK'
    BY <1>0, <1>1 DEF ReadConfig, TableOK
  <2> QED
    BY <2>4, <2>5 DEF TypeInv
<1>2. CASE Select(h)
  <2>1. PICK list \in PendingLists(j.dev) :
          job' = [job EXCEPT ![h].pc = "rows", ![h].picked = list]
    BY <1>2 DEF Select
  <2> DEFINE new == [j EXCEPT !.pc = "rows", !.picked = list]
  <2>2. j.pc = "select" /\ j.dev \in Devices /\ order \in Seq(Commands)
    BY <1>0, <1>2 DEF Select, TableOK, JobOK
  <2>3. list \in Seq(Commands) /\ 1 \in 1 .. Len(list) + 1
    BY <2>1, <2>2, PendingListType
  <2>4. JobOK(new)
    BY <1>0, <2>2, <2>3 DEF JobOK, Jobs, Steps
  <2>5. job' = [job EXCEPT ![h] = new]
    BY <2>1
  <2>6. JobsOK'
    BY <1>0, <2>4, <2>5, OneJob
  <2>7. TableOK'
    BY <1>0, <1>2 DEF Select, TableOK
  <2> QED
    BY <2>6, <2>7 DEF TypeInv
<1>3. CASE SelectFails(h)
  <2> DEFINE new == [j EXCEPT !.pc = "apply"]
  <2>1. job' = [job EXCEPT ![h] = new]
    BY <1>3 DEF SelectFails
  <2>2. j.pc = "select"
    BY <1>3 DEF SelectFails
  <2>3. JobOK(new)
    BY <1>0, <2>2 DEF JobOK, Jobs, Steps
  <2>4. JobsOK'
    BY <1>0, <2>1, <2>3, OneJob
  <2>5. TableOK'
    BY <1>0, <1>3, GoAssumption DEF SelectFails, Fault, TableOK
  <2> QED
    BY <2>4, <2>5 DEF TypeInv
<1>4. CASE CloseRows(h)
  <2> DEFINE new == [j EXCEPT !.pc = "mark"]
  <2>1. job' = [job EXCEPT ![h] = new]
    BY <1>4 DEF CloseRows
  <2>2. j.pc = "rows"
    BY <1>4 DEF CloseRows
  <2>3. JobOK(new)
    BY <1>0, <2>2 DEF JobOK, Jobs, Steps
  <2>4. JobsOK'
    BY <1>0, <2>1, <2>3, OneJob
  <2>5. TableOK'
    BY <1>0, <1>4 DEF CloseRows, TableOK
  <2> QED
    BY <2>4, <2>5 DEF TypeInv
<1>5. CASE Mark(h)
  <2> DEFINE new == [j EXCEPT !.next = @ + 1]
  <2>1. job' = [job EXCEPT ![h] = new]
    BY <1>5 DEF Mark
  <2>2. j.pc = "mark" /\ j.next <= Len(j.picked)
    BY <1>5 DEF Mark
  <2>3. JobOK(new)
    BY <1>0, <2>2 DEF JobOK, Jobs, Steps
  <2>4. JobsOK'
    BY <1>0, <2>1, <2>3, OneJob
  <2>5. TableOK'
    BY <1>0, <1>5 DEF Mark, TableOK, Statuses
  <2> QED
    BY <2>4, <2>5 DEF TypeInv
<1>6. CASE MarkFails(h)
  <2> DEFINE new == [j EXCEPT !.missed = @ \cup {j.picked[j.next]}, !.next = @ + 1]
  <2>1. job' = [job EXCEPT ![h] = new]
    BY <1>6 DEF MarkFails
  <2>2. j.pc = "mark" /\ j.next <= Len(j.picked)
    BY <1>6 DEF MarkFails
  <2>3. JobOK(new)
    <3>1. j.picked[j.next] \in Commands
      BY <1>0, <2>2 DEF JobOK, Jobs
    <3> DEFINE m == j.missed \cup {j.picked[j.next]}
    <3>2. m \in SUBSET Commands /\ j.next + 1 \in Nat
      BY <1>0, <3>1 DEF JobOK, Jobs
    <3>3. new = [j EXCEPT !.missed = m, !.next = j.next + 1]
      OBVIOUS
    <3> HIDE DEF m, new
    <3>4. new \in Jobs /\ new.next = j.next + 1 /\ new.picked = j.picked /\ new.pc = j.pc
          /\ new.dev = j.dev
      BY <1>0, <3>2, <3>3 DEF JobOK, Jobs
    <3> QED
      BY <1>0, <2>2, <3>4 DEF JobOK, Jobs
  <2>4. JobsOK'
    BY <1>0, <2>1, <2>3, OneJob
  <2>5. TableOK'
    BY <1>0, <1>6, GoAssumption DEF MarkFails, Fault, TableOK
  <2> QED
    BY <2>4, <2>5 DEF TypeInv
<1>7. CASE EndMark(h)
  <2> DEFINE new == [j EXCEPT !.pc = "apply", !.next = 1]
  <2>1. job' = [job EXCEPT ![h] = new]
    BY <1>7 DEF EndMark
  <2>2. j.pc = "mark"
    BY <1>7 DEF EndMark
  <2>3. JobOK(new)
    <3>1. 1 \in 1 .. Len(j.picked) + 1
      BY <1>0 DEF JobOK, Jobs
    <3> QED
      BY <1>0, <2>2, <3>1 DEF JobOK, Jobs, Steps
  <2>4. JobsOK'
    BY <1>0, <2>1, <2>3, OneJob
  <2>5. TableOK'
    BY <1>0, <1>7 DEF EndMark, TableOK
  <2> QED
    BY <2>4, <2>5 DEF TypeInv
<1>8. CASE CopyPending(h)
  <2>1. PICK list \in PendingLists(j.dev) :
          job' = [job EXCEPT ![h].pc = "apply", ![h].picked = list]
    BY <1>8 DEF CopyPending
  <2> DEFINE new == [j EXCEPT !.pc = "apply", !.picked = list]
  <2>2. j.pc = "select" /\ j.dev \in Devices /\ order \in Seq(Commands)
    BY <1>0, <1>8 DEF CopyPending, TableOK, JobOK
  <2>3. list \in Seq(Commands) /\ 1 \in 1 .. Len(list) + 1
    BY <2>1, <2>2, PendingListType
  <2>4. JobOK(new)
    BY <1>0, <2>2, <2>3 DEF JobOK, Jobs, Steps
  <2>5. job' = [job EXCEPT ![h] = new]
    BY <2>1
  <2>6. JobsOK'
    BY <1>0, <2>4, <2>5, OneJob
  <2>7. TableOK'
    BY <1>0, <1>8 DEF CopyPending, TableOK
  <2> QED
    BY <2>6, <2>7 DEF TypeInv
<1>9. CASE Apply(h)
  <2> DEFINE c == j.picked[j.next]
             s == IF HasInterval(c) THEN Seconds(c) ELSE j.sleep
             new == [j EXCEPT !.next = @ + 1, !.sleep = s]
  <2>1. job' = [job EXCEPT ![h] = new]
    BY <1>9 DEF Apply
  <2>2. j.pc = "apply" /\ j.next <= Len(j.picked)
    BY <1>9 DEF Apply
  <2>3. c \in Commands /\ Seconds(c) \in Nat
    BY <1>0, <2>2, RequestType DEF JobOK, Jobs
  <2>4. JobOK(new)
    <3>1. s \in Nat /\ j.next + 1 \in Nat
      BY <1>0, <2>3 DEF JobOK, Jobs
    <3>2. new = [j EXCEPT !.next = j.next + 1, !.sleep = s]
      OBVIOUS
    <3> HIDE DEF s, new
    <3>3. new \in Jobs /\ new.next = j.next + 1 /\ new.picked = j.picked /\ new.pc = j.pc
          /\ new.dev = j.dev
      BY <1>0, <3>1, <3>2 DEF JobOK, Jobs
    <3> QED
      BY <1>0, <2>2, <3>3 DEF JobOK, Jobs
  <2>5. JobsOK'
    BY <1>0, <2>1, <2>4, OneJob
  <2>6. TableOK'
    BY <1>0, <1>9, <2>3 DEF Apply, TableOK
  <2> QED
    BY <2>5, <2>6 DEF TypeInv
<1>10. CASE EndApply(h)
  <2> DEFINE s == IF j.batt < LowBatteryPct THEN LowBatterySleep ELSE j.sleep
             new == [j EXCEPT !.pc = "reply", !.sleep = s]
  <2>1. job' = [job EXCEPT ![h] = new]
    BY <1>10 DEF EndApply
  <2>2. j.pc = "apply"
    BY <1>10 DEF EndApply
  <2>3. JobOK(new)
    <3>1. s \in Nat
      BY <1>0 DEF JobOK, Jobs, LowBatterySleep
    <3> HIDE DEF s
    <3>2. /\ new \in Jobs
          /\ new.pc = "reply" /\ new.dev = j.dev
          /\ new.next = j.next /\ new.picked = j.picked
      BY <1>0, <3>1 DEF JobOK, Jobs, Steps
    <3> HIDE DEF new
    <3> QED
      BY <1>0, <2>2, <3>2 DEF JobOK
  <2>4. JobsOK'
    BY <1>0, <2>1, <2>3, OneJob
  <2>5. TableOK'
    BY <1>0, <1>10 DEF EndApply, TableOK
  <2> QED
    BY <2>4, <2>5 DEF TypeInv
<1>11. CASE RowsFail(h)
  <2>1. PICK n \in 0 .. Len(j.picked) - 1 :
          job' = [job EXCEPT ![h].pc = "mark", ![h].picked = SubSeq(@, 1, n)]
    BY <1>11 DEF RowsFail
  <2> DEFINE list == SubSeq(j.picked, 1, n)
             new == [j EXCEPT !.pc = "mark", !.picked = list]
  <2>2. j.pc = "rows" /\ j.next = 1 /\ j.picked \in Seq(Commands)
    BY <1>0, <1>11 DEF RowsFail, JobOK, Jobs
  <2>3. list \in Seq(Commands) /\ Len(list) = n
    BY <2>2, PrefixType
  <2>4. job' = [job EXCEPT ![h] = new]
    BY <2>1
  <2>5. JobOK(new)
    <3> HIDE DEF list
    <3>1. 1 \in 1 .. Len(list) + 1
      BY <2>3
    <3> QED
      BY <1>0, <2>2, <2>3, <3>1 DEF JobOK, Jobs, Steps
  <2>6. JobsOK'
    BY <1>0, <2>4, <2>5, OneJob
  <2>7. TableOK'
    BY <1>0, <1>11, GoAssumption DEF RowsFail, Fault, TableOK
  <2> QED
    BY <2>6, <2>7 DEF TypeInv
<1> QED
  BY <1>1, <1>2, <1>3, <1>4, <1>5, <1>6, <1>7, <1>8, <1>9, <1>10, <1>11 DEF Work

(* Every step of the server keeps the types.                               *)
LEMMA NextType == TypeInv /\ [Next]_goVars => TypeInv'
<1> SUFFICES ASSUME TypeInv, [Next]_goVars PROVE TypeInv'
  OBVIOUS
<1>0. TableOK /\ JobsOK
  BY DEF TypeInv
<1>1. ASSUME NEW h \in Handlers, NEW d \in Devices, NEW b \in Batteries, Receive(h, d, b)
      PROVE  TypeInv'
  <2> DEFINE new == [IdleJob EXCEPT !.pc = "config", !.dev = d, !.batt = b]
  <2>1. job' = [job EXCEPT ![h] = new]
    BY <1>1 DEF Receive
  <2>2. b \in Nat
    BY GoAssumption
  <2>3. JobOK(new)
    BY <2>2, IdleJobOK DEF JobOK, IdleJob, Jobs, Steps
  <2>4. JobsOK'
    BY <1>0, <2>1, <2>3, OneJob
  <2>5. TableOK'
    BY <1>0, <1>1 DEF Receive, TableOK
  <2> QED
    BY <2>4, <2>5 DEF TypeInv
<1>2. ASSUME NEW h \in Handlers, Work(h) PROVE TypeInv'
  BY <1>2, WorkType
<1>3. ASSUME NEW h \in Handlers, Respond(h) PROVE TypeInv'
  <2>1. JobsOK'
    BY <1>0, <1>3, IdleJobOK, OneJob DEF Respond
  <2>2. TableOK'
    BY <1>0, <1>3 DEF Respond, TableOK
  <2> QED
    BY <2>1, <2>2 DEF TypeInv
<1>4. ASSUME NEW c \in Commands, QueueConfig(c) PROVE TypeInv'
  <2>1. Request[c].dev \in Devices /\ Seconds(c) \in Nat
    BY RequestType
  <2>2. TableOK'
    BY <1>0, <1>4, <2>1 DEF QueueConfig, TableOK, Statuses
  <2>3. JobsOK'
    BY <1>0, <1>4 DEF QueueConfig, JobsOK
  <2> QED
    BY <2>2, <2>3 DEF TypeInv
<1>5. ASSUME NEW c \in Commands, QueueInsert(c) PROVE TypeInv'
  <2>1. rows' \in Seq(Commands)
    BY <1>0, <1>5 DEF QueueInsert, TableOK
  <2>2. TableOK'
    BY <1>0, <1>5, <2>1 DEF QueueInsert, TableOK, Statuses
  <2>3. JobsOK'
    BY <1>0, <1>5 DEF QueueInsert, JobsOK
  <2> QED
    BY <2>2, <2>3 DEF TypeInv
<1>6. ASSUME NEW c \in Commands, QueueFails(c) PROVE TypeInv'
  <2>1. TableOK'
    BY <1>0, <1>6, GoAssumption DEF QueueFails, Fault, TableOK, Statuses
  <2>2. JobsOK'
    BY <1>0, <1>6 DEF QueueFails, JobsOK
  <2> QED
    BY <2>1, <2>2 DEF TypeInv
<1>7. ASSUME NEW c \in Commands, Ack(c) PROVE TypeInv'
  <2>1. TableOK'
    BY <1>0, <1>7 DEF Ack, TableOK, Statuses
  <2>2. JobsOK'
    BY <1>0, <1>7 DEF Ack, JobsOK
  <2> QED
    BY <2>1, <2>2 DEF TypeInv
<1>10. ASSUME NEW c \in Commands, QueueStamp(c) PROVE TypeInv'
  <2>1. order' \in Seq(Commands)
    BY <1>0, <1>10 DEF QueueStamp, TableOK
  <2>2. TableOK'
    BY <1>0, <1>10, <2>1 DEF QueueStamp, TableOK, Statuses
  <2>3. JobsOK'
    BY <1>0, <1>10 DEF QueueStamp, JobsOK
  <2> QED
    BY <2>2, <2>3 DEF TypeInv
<1>11. ASSUME NEW c \in Commands, QueueAppend(c) PROVE TypeInv'
  <2>1. order' \in Seq(Commands) /\ rows' \in Seq(Commands)
    BY <1>0, <1>11 DEF QueueAppend, TableOK
  <2>2. TableOK'
    BY <1>0, <1>11, <2>1 DEF QueueAppend, TableOK, Statuses
  <2>3. JobsOK'
    BY <1>0, <1>11 DEF QueueAppend, JobsOK
  <2> QED
    BY <2>2, <2>3 DEF TypeInv
<1>8. CASE Restart
  <2>1. status' \in [Commands -> Statuses]
    BY <1>0, <1>8 DEF Restart, TableOK, Statuses
  <2>2. TableOK'
    BY <1>0, <1>8, <2>1, GoAssumption DEF Restart, TableOK
  <2>3. JobsOK'
    BY <1>8, IdleJobOK DEF Restart, JobsOK, JobOK
  <2> QED
    BY <2>2, <2>3 DEF TypeInv
<1>9. CASE UNCHANGED goVars
  BY <1>0, <1>9 DEF goVars, TypeInv, TableOK, JobsOK
<1> QED
  BY <1>1, <1>2, <1>3, <1>4, <1>5, <1>6, <1>7, <1>8, <1>9, <1>10, <1>11
   DEF Next, Queue

(* Every reachable state of the server is well-typed.                      *)
THEOREM TypeCorrect == Spec => []TypeOK
<1>1. Spec => []TypeInv
  BY InitType, NextType, PTL DEF Spec
<1> QED
  BY <1>1, TypeInvGivesTypeOK, PTL

-----------------------------------------------------------------------------
(* The connection pool.  NoHoldAndWait follows from an equality that is    *)
(* inductive: the connections kept are those of the open SELECTs.          *)

ConnsHeld == conns = {h \in Handlers : job[h].pc = "rows"}

LEMMA ConnsStep == TypeInv /\ ConnsHeld /\ [Next]_goVars => ConnsHeld'
<1> SUFFICES ASSUME TypeInv, ConnsHeld, [Next]_goVars PROVE ConnsHeld'
  OBVIOUS
<1>0. job \in [Handlers -> Jobs]
  BY DEF TypeInv, JobsOK
<1>1. ASSUME NEW h \in Handlers, NEW d \in Devices, NEW b \in Batteries, Receive(h, d, b)
      PROVE  ConnsHeld'
  BY <1>0, <1>1 DEF Receive, ConnsHeld, IdleJob
<1>2. ASSUME NEW h \in Handlers, Work(h) PROVE ConnsHeld'
  <2>1. CASE ReadConfig(h)
    BY <1>0, <2>1 DEF ReadConfig, ConnsHeld, Jobs
  <2>2. CASE Select(h)
    BY <1>0, <2>2 DEF Select, ConnsHeld, Jobs
  <2>3. CASE SelectFails(h)
    BY <1>0, <2>3 DEF SelectFails, ConnsHeld, Jobs
  <2>4. CASE CloseRows(h)
    BY <1>0, <2>4 DEF CloseRows, ConnsHeld, Jobs
  <2>5. CASE Mark(h)
    BY <1>0, <2>5 DEF Mark, ConnsHeld, Jobs
  <2>6. CASE MarkFails(h)
    BY <1>0, <2>6 DEF MarkFails, ConnsHeld, Jobs
  <2>7. CASE EndMark(h)
    BY <1>0, <2>7 DEF EndMark, ConnsHeld, Jobs
  <2>8. CASE CopyPending(h)
    BY <1>0, <2>8 DEF CopyPending, ConnsHeld, Jobs
  <2>9. CASE Apply(h)
    BY <1>0, <2>9 DEF Apply, ConnsHeld, Jobs
  <2>10. CASE EndApply(h)
    BY <1>0, <2>10 DEF EndApply, ConnsHeld, Jobs
  <2>11. CASE RowsFail(h)
    <3>1. /\ conns' = conns \ {h} /\ job'[h].pc = "mark"
          /\ \A g \in Handlers : g # h => job'[g] = job[g]
      BY <1>0, <2>11 DEF RowsFail, Jobs
    <3> QED
      BY <3>1 DEF ConnsHeld
  <2> QED
    BY <1>2, <2>1, <2>2, <2>3, <2>4, <2>5, <2>6, <2>7, <2>8, <2>9, <2>10, <2>11 DEF Work
<1>3. ASSUME NEW h \in Handlers, Respond(h) PROVE ConnsHeld'
  BY <1>0, <1>3 DEF Respond, ConnsHeld, IdleJob
<1>4. ASSUME NEW c \in Commands, Queue(c) \/ Ack(c) PROVE ConnsHeld'
  BY <1>4 DEF Queue, QueueConfig, QueueStamp, QueueInsert, QueueFails, QueueAppend, Ack, ConnsHeld
<1>5. CASE Restart
  BY <1>5 DEF Restart, ConnsHeld, IdleJob
<1>6. CASE UNCHANGED goVars
  BY <1>6 DEF goVars, ConnsHeld
<1> QED
  BY <1>1, <1>2, <1>3, <1>4, <1>5, <1>6 DEF Next

(* A handler that asks the pool for a connection keeps none.               *)
THEOREM NeverHoldAndWait == Spec => []NoHoldAndWait
<1>1. Init => ConnsHeld
  BY DEF Init, ConnsHeld, IdleJob
<1>2. Spec => [](TypeInv /\ ConnsHeld)
  BY <1>1, InitType, NextType, ConnsStep, PTL DEF Spec
<1>3. ConnsHeld => NoHoldAndWait
  BY DEF ConnsHeld, NoHoldAndWait
<1> QED
  BY <1>2, <1>3, PTL

-----------------------------------------------------------------------------
(* The steps of one goroutine, seen from its variables.                    *)

LEMMA JobStep ==
  ASSUME TypeInv, [Next]_goVars, NEW g \in Handlers
  PROVE  \/ job'[g] = job[g]
         \/ job'[g] = IdleJob
         \/ \E d \in Devices, b \in Batteries : Receive(g, d, b)
         \/ Work(g)
<1>0. job \in [Handlers -> Jobs]
  BY DEF TypeInv, JobsOK
<1>1. ASSUME NEW h \in Handlers, NEW d \in Devices, NEW b \in Batteries, Receive(h, d, b), g # h
      PROVE  job'[g] = job[g]
  BY <1>0, <1>1 DEF Receive
<1>2. ASSUME NEW h \in Handlers, Work(h), g # h
      PROVE  job'[g] = job[g]
  BY <1>0, <1>2 DEF Work, ReadConfig, Select, SelectFails, CloseRows, RowsFail, Mark,
                    MarkFails, EndMark, CopyPending, Apply, EndApply
<1>3. ASSUME NEW h \in Handlers, Respond(h)
      PROVE  job'[g] = job[g] \/ job'[g] = IdleJob
  BY <1>0, <1>3 DEF Respond
<1>4. ASSUME NEW c \in Commands, Queue(c) \/ Ack(c) PROVE job'[g] = job[g]
  BY <1>4 DEF Queue, QueueConfig, QueueStamp, QueueInsert, QueueFails, QueueAppend, Ack
<1>5. CASE Restart
  BY <1>5 DEF Restart
<1>6. CASE UNCHANGED goVars
  BY <1>6 DEF goVars
<1> QED
  BY <1>1, <1>2, <1>3, <1>4, <1>5, <1>6 DEF Next

(* A row that was handed over stays SENT or ACKED, and the rows of the     *)
(* table keep their positions.                                             *)
LEMMA TableStep ==
  ASSUME TypeInv, [Next]_goVars
  PROVE  /\ repo' = repo
         /\ \A c \in Commands : status[c] \in {"SENT", "ACKED"} => status'[c] \in {"SENT", "ACKED"}
         /\ Len(order) <= Len(order')
         /\ \A i \in 1 .. Len(order) : order'[i] = order[i]
<1>0. status \in [Commands -> Statuses] /\ order \in Seq(Commands)
  BY DEF TypeInv, TableOK
<1> DEFINE Goal == /\ repo' = repo
                   /\ \A c \in Commands :
                        status[c] \in {"SENT", "ACKED"} => status'[c] \in {"SENT", "ACKED"}
                   /\ Len(order) <= Len(order')
                   /\ \A i \in 1 .. Len(order) : order'[i] = order[i]
<1>1. ASSUME UNCHANGED <<repo, status, order>> PROVE Goal
  BY <1>0, <1>1
<1>2. ASSUME NEW h \in Handlers, Mark(h) PROVE Goal
  BY <1>0, <1>2 DEF Mark
<1>3. ASSUME NEW c \in Commands, QueueConfig(c) \/ QueueInsert(c) \/ QueueFails(c) \/ Ack(c)
      PROVE  Goal
  BY <1>0, <1>3 DEF QueueConfig, QueueInsert, QueueFails, Ack
<1>4. ASSUME NEW c \in Commands, QueueStamp(c) \/ QueueAppend(c) PROVE Goal
  <2>1. order' = Append(order, c) /\ Len(order') = Len(order) + 1
    BY <1>0, <1>4 DEF QueueStamp, QueueAppend
  <2> QED
    BY <1>0, <1>4, <2>1 DEF QueueStamp, QueueAppend
<1>5. ASSUME Restart PROVE Goal
  BY <1>0, <1>5 DEF Restart
<1>6. ASSUME NEW h \in Handlers, Work(h), ~ Mark(h) PROVE UNCHANGED <<repo, status, order>>
  BY <1>6 DEF Work, ReadConfig, Select, SelectFails, CloseRows, RowsFail, MarkFails,
              EndMark, CopyPending, Apply, EndApply
<1>7. ASSUME NEW h \in Handlers, Respond(h) \/ \E d \in Devices, b \in Batteries : Receive(h, d, b)
      PROVE  UNCHANGED <<repo, status, order>>
  BY <1>7 DEF Respond, Receive
<1>8. ASSUME UNCHANGED goVars PROVE UNCHANGED <<repo, status, order>>
  BY <1>8 DEF goVars
<1> HIDE DEF Goal
<1>9. Goal
  BY <1>1, <1>2, <1>3, <1>4, <1>5, <1>6, <1>7, <1>8 DEF Next, Queue
<1> QED
  BY <1>9 DEF Goal

-----------------------------------------------------------------------------
(* The order of an answer.                                                 *)

OrderOK(g) ==
  LET picked == job[g].picked IN
  /\ \A i \in 1 .. Len(picked) : Request[picked[i]].dev = job[g].dev
  /\ \A i \in 1 .. Len(picked), k \in 1 .. Len(picked) :
       i < k => \E m \in 1 .. Len(order), n \in 1 .. Len(order) :
                  m < n /\ order[m] = picked[i] /\ order[n] = picked[k]

LEMMA OrderStep ==
  ASSUME TypeInv, [Next]_goVars, NEW g \in Handlers, OrderOK(g)
  PROVE  OrderOK(g)'
<1>0. /\ job \in [Handlers -> Jobs] /\ order \in Seq(Commands) /\ JobOK(job[g])
      /\ JobOK(job[g])'
  BY NextType DEF TypeInv, TableOK, JobsOK
<1>1. /\ Len(order) \in Nat /\ Len(order') \in Nat /\ Len(order) <= Len(order')
      /\ \A i \in 1 .. Len(order) : order'[i] = order[i]
  BY <1>0, NextType, TableStep DEF TypeInv, TableOK
<1>2. ASSUME job'[g].picked = job[g].picked, job'[g].dev = job[g].dev
      PROVE  OrderOK(g)'
  <2> DEFINE picked == job[g].picked
  <2>1. \A i \in 1 .. Len(picked) : Request[picked[i]].dev = job'[g].dev
    BY <1>2 DEF OrderOK
  <2>2. ASSUME NEW i \in 1 .. Len(picked), NEW k \in 1 .. Len(picked), i < k
        PROVE  \E m \in 1 .. Len(order'), n \in 1 .. Len(order') :
                 m < n /\ order'[m] = picked[i] /\ order'[n] = picked[k]
    <3>1. PICK m \in 1 .. Len(order), n \in 1 .. Len(order) :
                 m < n /\ order[m] = picked[i] /\ order[n] = picked[k]
      BY <2>2 DEF OrderOK
    <3>2. m \in 1 .. Len(order') /\ n \in 1 .. Len(order')
      BY <1>1
    <3> QED
      BY <1>1, <3>1, <3>2
  <2>3. picked = job'[g].picked
    BY <1>2
  <2> HIDE DEF picked
  <2> QED
    BY <2>1, <2>2, <2>3 DEF OrderOK
<1>3. ASSUME job'[g].picked = <<>> PROVE OrderOK(g)'
  BY <1>3 DEF OrderOK
<1>4. CASE job'[g] = job[g]
  BY <1>2, <1>4
<1>5. CASE job'[g] = IdleJob
  BY <1>3, <1>5 DEF IdleJob
<1>6. CASE \E d \in Devices, b \in Batteries : Receive(g, d, b)
  BY <1>0, <1>3, <1>6 DEF Receive, IdleJob
<1>7. CASE Work(g)
  <2>1. ASSUME job[g].dev \in Devices, UNCHANGED order,
               NEW list \in PendingLists(job[g].dev),
               job'[g].picked = list, job'[g].dev = job[g].dev
        PROVE  OrderOK(g)'
    <3>1. /\ \A i \in 1 .. Len(list) : Request[list[i]].dev = job[g].dev
          /\ \A i \in 1 .. Len(list), k \in 1 .. Len(list) :
               i < k => \E m \in 1 .. Len(order), n \in 1 .. Len(order) :
                          m < n /\ order[m] = list[i] /\ order[n] = list[k]
      BY <1>0, <2>1, PendingListType
    <3>2. list = job'[g].picked /\ job'[g].dev = job[g].dev /\ order' = order
      BY <2>1
    <3> DEFINE picked == job'[g].picked
    <3>3. \A i \in 1 .. Len(picked) : Request[picked[i]].dev = job'[g].dev
      BY ONLY <3>1, <3>2, Zenon
    <3>4. \A i \in 1 .. Len(picked), k \in 1 .. Len(picked) :
            i < k => \E m \in 1 .. Len(order'), n \in 1 .. Len(order') :
                       m < n /\ order'[m] = picked[i] /\ order'[n] = picked[k]
      <4> SUFFICES ASSUME NEW i \in 1 .. Len(picked), NEW k \in 1 .. Len(picked), i < k
                   PROVE  \E m \in 1 .. Len(order'), n \in 1 .. Len(order') :
                            m < n /\ order'[m] = picked[i] /\ order'[n] = picked[k]
        OBVIOUS
      <4>1. \E m \in 1 .. Len(order), n \in 1 .. Len(order) :
              m < n /\ order[m] = list[i] /\ order[n] = list[k]
        BY ONLY <3>1, <3>2, i \in 1 .. Len(picked), k \in 1 .. Len(picked), i < k, Zenon
      <4> QED
        BY ONLY <3>2, <4>1, Zenon
    <3> QED
      BY ONLY <3>3, <3>4, Zenon DEF OrderOK
  <2>2. CASE Select(g)
    <3>1. PICK list \in PendingLists(job[g].dev) :
            job' = [job EXCEPT ![g].pc = "rows", ![g].picked = list]
      BY <2>2 DEF Select
    <3>2. job[g].dev \in Devices /\ UNCHANGED order
      BY <1>0, <2>2 DEF Select, JobOK
    <3>3. job'[g].picked = list /\ job'[g].dev = job[g].dev
      BY <1>0, <3>1 DEF Jobs
    <3> QED
      BY <2>1, <3>2, <3>3
  <2>3. CASE CopyPending(g)
    <3>1. PICK list \in PendingLists(job[g].dev) :
            job' = [job EXCEPT ![g].pc = "apply", ![g].picked = list]
      BY <2>3 DEF CopyPending
    <3>2. job[g].dev \in Devices /\ UNCHANGED order
      BY <1>0, <2>3 DEF CopyPending, JobOK
    <3>3. job'[g].picked = list /\ job'[g].dev = job[g].dev
      BY <1>0, <3>1 DEF Jobs
    <3> QED
      BY <2>1, <3>2, <3>3
  <2>4. CASE RowsFail(g)
    <3>1. PICK n \in 0 .. Len(job[g].picked) - 1 :
            job' = [job EXCEPT ![g].pc = "mark", ![g].picked = SubSeq(@, 1, n)]
      BY <2>4 DEF RowsFail
    <3> DEFINE list == SubSeq(job[g].picked, 1, n)
    <3>2. job[g].picked \in Seq(Commands) /\ UNCHANGED order
      BY <1>0, <2>4 DEF RowsFail, JobOK, Jobs
    <3>3. job'[g].picked = list /\ job'[g].dev = job[g].dev
      BY <1>0, <3>1 DEF Jobs
    <3>4. /\ list \in Seq(Commands) /\ Len(list) = n
          /\ \A i \in 1 .. n : list[i] = job[g].picked[i] /\ i \in 1 .. Len(job[g].picked)
      BY <3>2, PrefixType
    <3> HIDE DEF list
    <3>5. ASSUME NEW i \in 1 .. Len(list)
          PROVE  Request[list[i]].dev = job'[g].dev
      <4>1. list[i] = job[g].picked[i] /\ i \in 1 .. Len(job[g].picked)
        BY <3>4
      <4> QED
        BY <3>3, <4>1 DEF OrderOK
    <3>6. ASSUME NEW i \in 1 .. Len(list), NEW k \in 1 .. Len(list), i < k
          PROVE  \E m \in 1 .. Len(order'), l \in 1 .. Len(order') :
                   m < l /\ order'[m] = list[i] /\ order'[l] = list[k]
      <4>1. PICK m \in 1 .. Len(order), l \in 1 .. Len(order) :
              m < l /\ order[m] = job[g].picked[i] /\ order[l] = job[g].picked[k]
        BY <3>4, <3>6 DEF OrderOK
      <4> QED
        BY <3>2, <3>4, <4>1
    <3> QED
      BY <3>3, <3>5, <3>6 DEF OrderOK
  <2>5. ASSUME ~ Select(g), ~ CopyPending(g), ~ RowsFail(g)
        PROVE  job'[g].picked = job[g].picked /\ job'[g].dev = job[g].dev
    BY <1>0, <1>7, <2>5 DEF Work, ReadConfig, SelectFails, CloseRows, Mark, MarkFails, EndMark,
                            Apply, EndApply, Jobs
  <2> QED
    BY <1>2, <2>2, <2>3, <2>4, <2>5
<1> QED
  BY <1>4, <1>5, <1>6, <1>7, JobStep

(* An answer has only commands of its own device, in the order in which    *)
(* they were queued.                                                       *)
THEOREM AnswersAreOrdered == Spec => []AnswerKeepsOrder
<1> DEFINE OrderInv == \A g \in Handlers : OrderOK(g)
<1>1. Init => OrderInv
  BY DEF Init, OrderOK, IdleJob
<1>2. TypeInv /\ OrderInv /\ [Next]_goVars => OrderInv'
  BY OrderStep
<1>3. OrderInv => AnswerKeepsOrder
  BY DEF OrderOK, AnswerKeepsOrder
<1> HIDE DEF OrderInv
<1>4. Spec => [](TypeInv /\ OrderInv)
  BY <1>1, <1>2, InitType, NextType, PTL DEF Spec
<1> QED
  BY <1>3, <1>4, PTL

-----------------------------------------------------------------------------
(* What was answered is no longer PENDING.                                 *)

MarkedUpTo(g, n) ==
  \A i \in 1 .. n :
    \/ status[job[g].picked[i]] \in {"SENT", "ACKED"}
    \/ job[g].picked[i] \in job[g].missed

MarkedOK(g) ==
  repo = "sql" =>
    /\ job[g].pc = "mark" => MarkedUpTo(g, job[g].next - 1)
    /\ job[g].pc \in {"apply", "reply"} => MarkedUpTo(g, Len(job[g].picked))

LEMMA MarkedStep ==
  ASSUME TypeInv, [Next]_goVars, NEW g \in Handlers, MarkedOK(g)
  PROVE  MarkedOK(g)'
<1>0. /\ job \in [Handlers -> Jobs] /\ status \in [Commands -> Statuses]
      /\ JobOK(job[g])
  BY DEF TypeInv, TableOK, JobsOK
<1>1. /\ repo' = repo
      /\ \A c \in Commands : status[c] \in {"SENT", "ACKED"} => status'[c] \in {"SENT", "ACKED"}
  BY TableStep
<1>2. /\ job[g].picked \in Seq(Commands) /\ job[g].next \in Nat
      /\ job[g].next \in 1 .. Len(job[g].picked) + 1
      /\ \A i \in 1 .. Len(job[g].picked) : job[g].picked[i] \in Commands
  BY <1>0 DEF JobOK, Jobs
<1>3. ASSUME NEW n \in 0 .. Len(job[g].picked), MarkedUpTo(g, n),
             job'[g].picked = job[g].picked, job[g].missed \subseteq job'[g].missed
      PROVE  MarkedUpTo(g, n)'
  BY <1>1, <1>2, <1>3 DEF MarkedUpTo
<1>4. CASE job'[g] = job[g]
  BY <1>1, <1>2, <1>3, <1>4 DEF MarkedOK
<1>5. CASE job'[g] = IdleJob
  BY <1>5 DEF MarkedOK, IdleJob
<1>6. CASE \E d \in Devices, b \in Batteries : Receive(g, d, b)
  BY <1>0, <1>6 DEF Receive, MarkedOK, IdleJob
<1>7. CASE Work(g)
  <2>1. CASE ReadConfig(g)
    BY <1>0, <2>1 DEF ReadConfig, MarkedOK, Jobs
  <2>2. CASE Select(g)
    BY <1>0, <2>2 DEF Select, MarkedOK, Jobs
  <2>3. CASE SelectFails(g)
    BY <1>0, <2>3 DEF SelectFails, MarkedOK, MarkedUpTo, JobOK, Jobs
  <2>4. CASE CloseRows(g)
    <3>1. job'[g].pc = "mark" /\ job'[g].next = job[g].next
      BY <1>0, <2>4 DEF CloseRows, Jobs
    <3>2. job[g].next = 1
      BY <1>0, <2>4 DEF CloseRows, JobOK
    <3> QED
      BY <3>1, <3>2 DEF MarkedOK, MarkedUpTo
  <2>5. CASE Mark(g)
    BY <1>0, <2>5 DEF Mark, MarkedOK, MarkedUpTo, Jobs
  <2>6. CASE MarkFails(g)
    <3>1. /\ job'[g].pc = "mark" /\ job'[g].picked = job[g].picked
          /\ job'[g].next = job[g].next + 1
          /\ job'[g].missed = job[g].missed \cup {job[g].picked[job[g].next]}
          /\ UNCHANGED <<repo, status>>
      BY <1>0, <2>6 DEF MarkFails, Jobs
    <3>2. job[g].pc = "mark"
      BY <2>6 DEF MarkFails
    <3>3. ASSUME repo = "sql", NEW i \in 1 .. job[g].next
          PROVE  \/ status[job[g].picked[i]] \in {"SENT", "ACKED"}
                 \/ job[g].picked[i] \in job'[g].missed
      <4>1. CASE i = job[g].next
        BY <3>1, <4>1
      <4>2. CASE i # job[g].next
        <5>1. i \in 1 .. job[g].next - 1
          BY <1>2, <4>2
        <5> QED
          BY <3>1, <3>2, <3>3, <5>1 DEF MarkedOK, MarkedUpTo
      <4> QED
        BY <4>1, <4>2
    <3>4. job'[g].next - 1 = job[g].next
      BY <1>2, <3>1
    <3> QED
      BY <3>1, <3>3, <3>4 DEF MarkedOK, MarkedUpTo
  <2>7. CASE EndMark(g)
    BY <1>0, <1>2, <2>7 DEF EndMark, MarkedOK, MarkedUpTo, Jobs
  <2>8. CASE CopyPending(g)
    BY <1>0, <2>8 DEF CopyPending, MarkedOK
  <2>9. CASE Apply(g)
    BY <1>0, <2>9 DEF Apply, MarkedOK, MarkedUpTo, Jobs
  <2>10. CASE EndApply(g)
    BY <1>0, <2>10 DEF EndApply, MarkedOK, MarkedUpTo, Jobs
  <2>11. CASE RowsFail(g)
    <3>1. job'[g].pc = "mark" /\ job'[g].next = job[g].next
      BY <1>0, <2>11 DEF RowsFail, Jobs
    <3>2. job[g].next = 1
      BY <1>0, <2>11 DEF RowsFail, JobOK
    <3> QED
      BY <3>1, <3>2 DEF MarkedOK, MarkedUpTo
  <2> QED
    BY <1>7, <2>1, <2>2, <2>3, <2>4, <2>5, <2>6, <2>7, <2>8, <2>9, <2>10, <2>11 DEF Work
<1> QED
  BY <1>4, <1>5, <1>6, <1>7, JobStep

(* With SQLRepository what a handler answers is marked SENT (or was        *)
(* acknowledged), unless the UPDATE of that row failed.                    *)
THEOREM AnswersAreMarked == Spec => []AnsweredIsMarked
<1> DEFINE MarkedInv == \A g \in Handlers : MarkedOK(g)
<1>1. Init => MarkedInv
  BY DEF Init, MarkedOK, IdleJob
<1>2. TypeInv /\ MarkedInv /\ [Next]_goVars => MarkedInv'
  BY MarkedStep
<1>3. MarkedInv => AnsweredIsMarked
  BY DEF MarkedOK, MarkedUpTo, AnsweredIsMarked
<1> HIDE DEF MarkedInv
<1>4. Spec => [](TypeInv /\ MarkedInv)
  BY <1>1, <1>2, InitType, NextType, PTL DEF Spec
<1> QED
  BY <1>3, <1>4, PTL

-----------------------------------------------------------------------------
(* The interval of an answer agrees with its commands.                     *)

SettingUpTo(g, n) ==
  \A i \in 1 .. n : LastSetting(g, i, n) => job[g].sleep = Seconds(job[g].picked[i])

SettingOK(g) ==
  /\ job[g].pc = "apply" => SettingUpTo(g, job[g].next - 1)
  /\ job[g].pc = "reply" => IF job[g].batt < LowBatteryPct
                              THEN job[g].sleep = LowBatterySleep
                              ELSE SettingUpTo(g, Len(job[g].picked))

LEMMA SettingStep ==
  ASSUME TypeInv, [Next]_goVars, NEW g \in Handlers, SettingOK(g)
  PROVE  SettingOK(g)'
<1>0. job \in [Handlers -> Jobs] /\ JobOK(job[g])
  BY DEF TypeInv, JobsOK
<1>1. /\ job[g].picked \in Seq(Commands) /\ job[g].next \in Nat
      /\ job[g].next \in 1 .. Len(job[g].picked) + 1
  BY <1>0 DEF JobOK, Jobs
<1>2. CASE job'[g] = job[g]
  BY <1>2 DEF SettingOK, SettingUpTo, LastSetting
<1>3. CASE job'[g] = IdleJob
  BY <1>3 DEF SettingOK, IdleJob
<1>4. CASE \E d \in Devices, b \in Batteries : Receive(g, d, b)
  BY <1>0, <1>4 DEF Receive, SettingOK, IdleJob
<1>5. CASE Work(g)
  <2>1. CASE ReadConfig(g)
    BY <1>0, <2>1 DEF ReadConfig, SettingOK, Jobs
  <2>2. CASE Select(g)
    BY <1>0, <2>2 DEF Select, SettingOK, Jobs
  <2>3. CASE SelectFails(g)
    <3>1. job'[g].pc = "apply" /\ job'[g].next = 1
      BY <1>0, <2>3 DEF SelectFails, JobOK, Jobs
    <3> QED
      BY <3>1 DEF SettingOK, SettingUpTo
  <2>4. CASE CloseRows(g)
    BY <1>0, <2>4 DEF CloseRows, SettingOK, Jobs
  <2>5. CASE Mark(g)
    BY <1>0, <2>5 DEF Mark, SettingOK, Jobs
  <2>6. CASE MarkFails(g)
    BY <1>0, <2>6 DEF MarkFails, SettingOK, Jobs
  <2>7. CASE EndMark(g)
    <3>1. job'[g].pc = "apply" /\ job'[g].next = 1
      BY <1>0, <2>7 DEF EndMark, Jobs
    <3> QED
      BY <3>1 DEF SettingOK, SettingUpTo
  <2>8. CASE CopyPending(g)
    <3>1. job'[g].pc = "apply" /\ job'[g].next = 1
      BY <1>0, <2>8 DEF CopyPending, JobOK, Jobs
    <3> QED
      BY <3>1 DEF SettingOK, SettingUpTo
  <2>9. CASE Apply(g)
    <3> DEFINE c == job[g].picked[job[g].next]
    <3>1. /\ job'[g].pc = "apply" /\ job'[g].next = job[g].next + 1
          /\ job'[g].picked = job[g].picked
          /\ job'[g].sleep = IF HasInterval(c) THEN Seconds(c) ELSE job[g].sleep
      BY <1>0, <2>9 DEF Apply, Jobs
    <3>2. SettingUpTo(g, job[g].next - 1)
      BY <2>9 DEF Apply, SettingOK
    <3>3. ASSUME NEW i \in 1 .. job[g].next, LastSetting(g, i, job[g].next - 1)'
          PROVE  job'[g].sleep = Seconds(job[g].picked[i])
      <4>1. HasInterval(job[g].picked[i])
        BY <3>1, <3>3 DEF LastSetting
      <4>2. CASE i = job[g].next
        BY <3>1, <4>1, <4>2
      <4>3. CASE i # job[g].next
        <5>1. ~ HasInterval(c)
          <6>1. \A k \in i + 1 .. job[g].next : ~ HasInterval(job[g].picked[k])
            BY <1>1, <3>1, <3>3 DEF LastSetting
          <6>2. job[g].next \in i + 1 .. job[g].next
            BY <1>1, <3>3, <4>3
          <6> QED
            BY <6>1, <6>2
        <5>2. i \in 1 .. job[g].next - 1
          BY <1>1, <4>3
        <5>3. LastSetting(g, i, job[g].next - 1)
          BY <1>1, <3>1, <3>3, <5>2 DEF LastSetting
        <5> QED
          BY <3>1, <3>2, <5>1, <5>2, <5>3 DEF SettingUpTo
      <4> QED
        BY <4>2, <4>3
    <3>4. SettingUpTo(g, job[g].next - 1)'
      BY <1>1, <3>1, <3>3 DEF SettingUpTo
    <3> QED
      BY <3>1, <3>4 DEF SettingOK
  <2>10. CASE EndApply(g)
    <3>1. /\ job'[g].pc = "reply" /\ job'[g].picked = job[g].picked
          /\ job'[g].batt = job[g].batt
          /\ job'[g].sleep = IF job[g].batt < LowBatteryPct THEN LowBatterySleep
                             ELSE job[g].sleep
      BY <1>0, <2>10 DEF EndApply, Jobs
    <3>2. SettingUpTo(g, Len(job[g].picked))
      <4>1. job[g].next - 1 = Len(job[g].picked)
        BY <1>1, <2>10 DEF EndApply
      <4> QED
        BY <2>10, <4>1 DEF EndApply, SettingOK
    <3> QED
      BY <3>1, <3>2 DEF SettingOK, SettingUpTo, LastSetting
  <2>11. CASE RowsFail(g)
    <3>1. job'[g].pc = "mark"
      BY <1>0, <2>11 DEF RowsFail, Jobs
    <3> QED
      BY <3>1 DEF SettingOK
  <2> QED
    BY <1>5, <2>1, <2>2, <2>3, <2>4, <2>5, <2>6, <2>7, <2>8, <2>9, <2>10, <2>11 DEF Work
<1> QED
  BY <1>2, <1>3, <1>4, <1>5, JobStep

(* The interval of every answer is the one its last setting asks for, or   *)
(* the low-battery interval.                                               *)
THEOREM AnswersAreConsistent == Spec => []AnswerIsConsistent
<1> DEFINE SettingInv == \A g \in Handlers : SettingOK(g)
<1>1. Init => SettingInv
  BY DEF Init, SettingOK, IdleJob
<1>2. TypeInv /\ SettingInv /\ [Next]_goVars => SettingInv'
  BY SettingStep
<1>3. SettingInv => AnswerIsConsistent
  BY DEF SettingOK, SettingUpTo, AnswerIsConsistent
<1> HIDE DEF SettingInv
<1>4. Spec => [](TypeInv /\ SettingInv)
  BY <1>1, <1>2, InitType, NextType, PTL DEF Spec
<1> QED
  BY <1>3, <1>4, PTL
=============================================================================
