-------------------------- MODULE OsalQueueProofs --------------------------
(***************************************************************************)
(* The message queue of the OSAL, for any number of threads and slots: its *)
(* types, that no wake-up is lost, and that it is a FIFO channel.          *)
(***************************************************************************)
EXTENDS OsalQueue, FiniteSetTheorems, TLAPS

(* The remainder of a number below twice the divisor.                      *)
LEMMA ModOnce ==
  ASSUME NEW a \in 0 .. 2 * Capacity - 1
  PROVE  a % Capacity = IF a < Capacity THEN a ELSE a - Capacity
<1>1. Capacity \in Nat \ {0}
  BY QueueAssumption
<1>2. CASE a < Capacity
  BY <1>1, <1>2
<1>3. CASE ~ a < Capacity
  <2>1. a - Capacity \in 0 .. Capacity - 1
    BY <1>1, <1>3
  <2> QED
    BY <1>1, <1>3, <2>1
<1> QED
  BY <1>2, <1>3

LEMMA AfterSlot ==
  ASSUME NEW h \in Slots
  PROVE  /\ After(h) = IF h + 1 = Capacity THEN 0 ELSE h + 1
         /\ After(h) \in Slots
<1>1. Capacity \in Nat \ {0}
  BY QueueAssumption
<1>2. h + 1 \in 0 .. 2 * Capacity - 1
  BY <1>1 DEF Slots
<1> QED
  BY <1>1, <1>2, ModOnce DEF After, Slots

(* Where the next message goes.                                            *)
LEMMA TailSlot ==
  ASSUME NEW h \in Slots, NEW n \in 0 .. Capacity
  PROVE  /\ (h + n) % Capacity = IF h + n < Capacity THEN h + n ELSE h + n - Capacity
         /\ (h + n) % Capacity \in Slots
<1>1. Capacity \in Nat \ {0}
  BY QueueAssumption
<1>2. h + n \in 0 .. 2 * Capacity - 1
  BY <1>1 DEF Slots
<1> QED
  BY <1>1, <1>2, ModOnce DEF Slots

(* One slot further at the end, or at the beginning.                       *)
LEMMA TailAfter ==
  ASSUME NEW h \in Slots, NEW n \in 0 .. Capacity - 1
  PROVE  /\ After((h + n) % Capacity) = (h + (n + 1)) % Capacity
         /\ (After(h) + n) % Capacity = (h + (n + 1)) % Capacity
<1>1. Capacity \in Nat \ {0}
  BY QueueAssumption
<1>2. n \in 0 .. Capacity /\ n + 1 \in 0 .. Capacity
  BY <1>1
<1>3. /\ (h + n) % Capacity = IF h + n < Capacity THEN h + n ELSE h + n - Capacity
      /\ (h + n) % Capacity \in Slots
  BY <1>2, TailSlot
<1>4. (h + (n + 1)) % Capacity
        = IF h + (n + 1) < Capacity THEN h + (n + 1) ELSE h + (n + 1) - Capacity
  BY <1>2, TailSlot
<1>5. After(h) = (IF h + 1 = Capacity THEN 0 ELSE h + 1) /\ After(h) \in Slots
  BY AfterSlot
<1>6. (After(h) + n) % Capacity
        = IF After(h) + n < Capacity THEN After(h) + n ELSE After(h) + n - Capacity
  BY <1>2, <1>5, TailSlot
<1>7. After((h + n) % Capacity)
        = IF ((h + n) % Capacity) + 1 = Capacity THEN 0 ELSE ((h + n) % Capacity) + 1
  BY <1>3, AfterSlot
<1> QED
  BY <1>1, <1>3, <1>4, <1>5, <1>6, <1>7 DEF Slots

-----------------------------------------------------------------------------
(* Types.                                                                  *)

LEMMA InitTypeOK == Init => TypeOK
<1> SUFFICES ASSUME Init PROVE TypeOK
  OBVIOUS
<1>1. Capacity \in Nat \ {0} /\ 0 \in Slots /\ 0 \in 0 .. Capacity
  BY QueueAssumption DEF Slots
<1>2. (0 + 0) % Capacity = 0
  BY <1>1, TailSlot
<1>3. NoCall \in Calls
  BY DEF NoCall, Calls, Timeouts
<1>4. At("not_full") = {} /\ At("not_empty") = {}
  BY DEF Init, At
<1> QED
  BY <1>1, <1>2, <1>3, <1>4 DEF Init, TypeOK, Steps

(* A thread that returns, and the one its signal wakes.                    *)
LEMMA ReturnTypes ==
  ASSUME TypeOK, NEW t \in Threads, NEW condition,
         \/ ReturnAndWake(t, condition)
         \/ /\ pc' = [pc EXCEPT ![t] = "idle"]
            /\ call' = [call EXCEPT ![t] = NoCall]
  PROVE  /\ pc' \in [Threads -> Steps]
         /\ call' \in [Threads -> Calls]
         /\ \A u \in At("not_full")' : call'[u].op = "send"
         /\ \A u \in At("not_empty")' : call'[u].op = "receive"
<1>1. NoCall \in Calls
  BY DEF NoCall, Calls, Timeouts
<1>2. call' = [call EXCEPT ![t] = NoCall] /\ call' \in [Threads -> Calls]
  BY <1>1 DEF TypeOK, ReturnAndWake
<1>3. pc' \in [Threads -> Steps]
  BY DEF TypeOK, ReturnAndWake, Steps, At
<1>4. \A u \in Threads : pc'[u] \in {"not_full", "not_empty"} => u # t /\ pc'[u] = pc[u]
  BY DEF TypeOK, ReturnAndWake, At
<1> QED
  BY <1>2, <1>3, <1>4 DEF TypeOK, At

LEMMA SendTypes ==
  ASSUME TypeOK, NEW t \in Threads, Send(t)
  PROVE  TypeOK'
<1>1. /\ Capacity \in Nat \ {0} /\ head \in Slots /\ count \in 0 .. Capacity - 1
      /\ tail = (head + count) % Capacity
  BY QueueAssumption DEF TypeOK, Send
<1>2. /\ tail' = After(tail) /\ count' = count + 1
      /\ UNCHANGED <<build, head, received>>
  BY DEF Send
<1>3. tail' = (head' + count') % Capacity
  BY <1>1, <1>2, TailAfter
<1>4. count' \in 0 .. Capacity /\ tail \in Slots
  <2>1. count \in 0 .. Capacity
    BY <1>1
  <2> QED
    BY <1>1, <1>2, <2>1, TailSlot
<1>5. call[t].item \in Messages
  BY DEF TypeOK, Send, Locked, Calls
<1>6. buffer' \in [Slots -> Messages]
  BY <1>4, <1>5 DEF TypeOK, Send
<1>7. ReturnAndWake(t, "not_empty")
  BY DEF Send
<1>8. /\ pc' \in [Threads -> Steps] /\ call' \in [Threads -> Calls]
      /\ \A u \in At("not_full")' : call'[u].op = "send"
      /\ \A u \in At("not_empty")' : call'[u].op = "receive"
  BY <1>7, ReturnTypes
<1> QED
  BY <1>1, <1>2, <1>3, <1>4, <1>6, <1>8 DEF TypeOK

LEMMA ReceiveTypes ==
  ASSUME TypeOK, NEW t \in Threads, Receive(t)
  PROVE  TypeOK'
<1>1. /\ Capacity \in Nat \ {0} /\ head \in Slots /\ count \in 1 .. Capacity
      /\ tail = (head + count) % Capacity
  BY QueueAssumption DEF TypeOK, Receive
<1>2. /\ head' = After(head) /\ count' = count - 1
      /\ UNCHANGED <<build, buffer, tail>>
      /\ received' = [received EXCEPT ![t] = buffer[head]]
  BY DEF Receive
<1>3. head' \in Slots /\ count' \in 0 .. Capacity - 1 /\ count' + 1 = count
  BY <1>1, <1>2, AfterSlot
<1>4. tail' = (head' + count') % Capacity
  BY <1>1, <1>2, <1>3, TailAfter
<1>5. received' \in [Threads -> Messages \cup {NoMessage}]
  BY <1>1, <1>2 DEF TypeOK
<1>6. ReturnAndWake(t, "not_full")
  BY DEF Receive
<1>7. /\ pc' \in [Threads -> Steps] /\ call' \in [Threads -> Calls]
      /\ \A u \in At("not_full")' : call'[u].op = "send"
      /\ \A u \in At("not_empty")' : call'[u].op = "receive"
  BY <1>6, ReturnTypes
<1>8. count' \in 0 .. Capacity
  BY <1>1, <1>3
<1> QED
  BY <1>2, <1>3, <1>4, <1>5, <1>7, <1>8 DEF TypeOK

(* The steps that leave the ring as it is.                                 *)
Ring == <<build, buffer, head, tail, count, received>>

LEMMA QuietTypes ==
  ASSUME TypeOK, UNCHANGED Ring,
         pc' \in [Threads -> Steps], call' \in [Threads -> Calls],
         \A u \in At("not_full")' : call'[u].op = "send",
         \A u \in At("not_empty")' : call'[u].op = "receive"
  PROVE  TypeOK'
BY DEF TypeOK, Ring, Slots

LEMMA CallTypes ==
  ASSUME TypeOK, NEW t \in Threads, NEW c \in Calls, Call(t, c)
  PROVE  TypeOK'
<1>1. UNCHANGED Ring
  BY DEF Call, Ring
<1>2. pc' \in [Threads -> Steps] /\ call' \in [Threads -> Calls]
  BY DEF Call, TypeOK, Steps
<1>3. \A u \in Threads : pc'[u] \in {"not_full", "not_empty"}
                           => pc'[u] = pc[u] /\ call'[u] = call[u]
  BY DEF Call, TypeOK
<1>4. /\ \A u \in At("not_full")' : call'[u].op = "send"
      /\ \A u \in At("not_empty")' : call'[u].op = "receive"
  BY <1>3 DEF At, TypeOK
<1> QED
  BY <1>1, <1>2, <1>4, QuietTypes

LEMMA WaitTypes ==
  ASSUME TypeOK, NEW t \in Threads, SendWaits(t) \/ ReceiveWaits(t) \/ SpuriousWakeup(t)
  PROVE  TypeOK'
<1>1. UNCHANGED Ring /\ call' = call
  BY DEF SendWaits, ReceiveWaits, SpuriousWakeup, Wait, Ring
<1>2. pc' \in [Threads -> Steps] /\ call' \in [Threads -> Calls]
  BY <1>1 DEF SendWaits, ReceiveWaits, SpuriousWakeup, Wait, TypeOK, Steps
<1>3. /\ \A u \in At("not_full")' : call'[u].op = "send"
      /\ \A u \in At("not_empty")' : call'[u].op = "receive"
  BY <1>1 DEF SendWaits, ReceiveWaits, SpuriousWakeup, Wait, TypeOK, At, Locked
<1> QED
  BY <1>1, <1>2, <1>3, QuietTypes

LEMMA ReturnsTypes ==
  ASSUME TypeOK, NEW t \in Threads, SendBusy(t) \/ ReceiveEmpty(t) \/ Timeout(t)
  PROVE  TypeOK'
<1>1. Return(t)
  BY DEF SendBusy, ReceiveEmpty, Timeout
<1>2. UNCHANGED Ring
  BY <1>1 DEF Return, Ring
<1> QED
  BY <1>1, <1>2, ReturnTypes, QuietTypes DEF Return

LEMMA NextTypeOK == TypeOK /\ [Next]_vars => TypeOK'
<1> SUFFICES ASSUME TypeOK, [Next]_vars PROVE TypeOK'
  OBVIOUS
<1>1. CASE UNCHANGED vars
  BY <1>1 DEF vars, TypeOK, At
<1>2. ASSUME NEW t \in Threads, NEW m \in Messages, CallFromIsr(t, m)
      PROVE  TypeOK'
  <2>1. [op |-> "send", item |-> m, timeout |-> "none"] \in Calls
    BY DEF Calls, Timeouts
  <2> QED
    BY <1>2, <2>1, CallTypes DEF CallFromIsr
<1>3. ASSUME NEW t \in Threads, Work(t) \/ Timeout(t) \/ SpuriousWakeup(t)
      PROVE  TypeOK'
  BY <1>3, SendTypes, ReceiveTypes, WaitTypes, ReturnsTypes DEF Work
<1> QED
  BY <1>1, <1>2, <1>3, CallTypes DEF Next

(* osal_queue_create, send and receive: the indices agree and a thread     *)
(* waits only on the condition of its own call.                            *)
THEOREM TypeCorrect == Spec => []TypeOK
BY InitTypeOK, NextTypeOK, PTL DEF Spec

-----------------------------------------------------------------------------
(* Wake-ups.                                                               *)

Ready(op) == {t \in Threads : Locked(t, op)}

LEMMA ReadyFinite ==
  \A op : IsFiniteSet(Ready(op)) /\ Cardinality(Ready(op)) \in Nat
<1>1. ASSUME NEW op
      PROVE  IsFiniteSet(Ready(op)) /\ Cardinality(Ready(op)) \in Nat
  <2>1. Ready(op) \in SUBSET Threads
    BY DEF Ready
  <2> QED
    BY <2>1, QueueAssumption, FS_Subset, FS_CardinalityType
<1> QED
  BY <1>1

LEMMA ReadyFinitePrime ==
  \A op : IsFiniteSet(Ready(op)') /\ Cardinality(Ready(op)') \in Nat
<1>1. ASSUME NEW op
      PROVE  IsFiniteSet(Ready(op)') /\ Cardinality(Ready(op)') \in Nat
  <2>1. Ready(op)' \in SUBSET Threads
    BY DEF Ready
  <2> QED
    BY <2>1, QueueAssumption, FS_Subset, FS_CardinalityType
<1> QED
  BY <1>1

LEMMA ReadyGrows ==
  ASSUME NEW op, Ready(op) \subseteq Ready(op)'
  PROVE  Cardinality(Ready(op)) <= Cardinality(Ready(op)')
BY ReadyFinitePrime, FS_Subset

LEMMA WakeupsIs ==
  NoLostWakeup <=>
    /\ At("not_full") # {} => Capacity - count <= Cardinality(Ready("send"))
    /\ At("not_empty") # {} => count <= Cardinality(Ready("receive"))
BY DEF NoLostWakeup, Ready

LEMMA WakeupsIsPrime ==
  NoLostWakeup' <=>
    /\ At("not_full")' # {} => Capacity - count' <= Cardinality(Ready("send")')
    /\ At("not_empty")' # {} => count' <= Cardinality(Ready("receive")')
BY DEF NoLostWakeup, Ready

LEMMA InitWakeups == Init => NoLostWakeup
BY DEF Init, NoLostWakeup, At

(* A thread t that did its work at the ring.  Those that are ready for the *)
(* same work lose only t; those that wait on the condition it signals go   *)
(* on one by one.                                                          *)
LEMMA WorkWakes ==
  ASSUME TypeOK, NEW t \in Threads, NEW op \in {"send", "receive"}, Locked(t, op),
         NEW other \in {"send", "receive"}, other # op,
         NEW condition \in {"not_full", "not_empty"},
         \A u \in At(condition) : call[u].op = other,
         ReturnAndWake(t, condition)
  PROVE  /\ Cardinality(Ready(op)) - 1 <= Cardinality(Ready(op)')
         /\ At(condition)' # {} => Cardinality(Ready(other)) + 1 <= Cardinality(Ready(other)')
         /\ \A c \in {"not_full", "not_empty"} : At(c)' \subseteq At(c)
<1>1. \A u \in Threads : u # t => call'[u] = call[u]
  BY DEF ReturnAndWake, TypeOK
<1>2. \A u \in Threads : u # t => pc'[u] = pc[u] \/ (pc[u] = condition /\ pc'[u] = "lock")
  BY DEF ReturnAndWake, TypeOK, At
<1>3. pc'[t] = "idle" \/ (pc'[t] = "lock" /\ t \in At(condition))
  BY DEF ReturnAndWake, TypeOK, At
<1>4. pc'[t] = "idle"
  BY <1>3 DEF At, Locked
<1>5. Ready(op) \ {t} \subseteq Ready(op)'
  BY <1>1, <1>2 DEF Ready, Locked
<1>6. Cardinality(Ready(op)) - 1 <= Cardinality(Ready(op)')
  <2>1. /\ IsFiniteSet(Ready(op) \ {t})
        /\ Cardinality(Ready(op) \ {t}) \in {Cardinality(Ready(op)) - 1, Cardinality(Ready(op))}
    BY ReadyFinite, FS_RemoveElement
  <2>2. Cardinality(Ready(op) \ {t}) <= Cardinality(Ready(op)')
    BY <1>5, ReadyFinitePrime, FS_Subset
  <2> QED
    BY <2>1, <2>2, ReadyFinite, ReadyFinitePrime
<1>7. \A c \in {"not_full", "not_empty"} : At(c)' \subseteq At(c)
  BY <1>2, <1>4 DEF At
<1>8. ASSUME At(condition)' # {}
      PROVE  Cardinality(Ready(other)) + 1 <= Cardinality(Ready(other)')
  <2>1. At(condition) # {}
    BY <1>7, <1>8
  <2>2. PICK u \in At(condition) : pc' = [pc EXCEPT ![t] = "idle", ![u] = "lock"]
    BY <2>1 DEF ReturnAndWake
  <2>3. u \in Threads /\ u # t /\ pc[u] = condition /\ pc'[u] = "lock" /\ call'[u].op = other
    BY <1>1, <2>2 DEF At, TypeOK, Locked
  <2>4. u \notin Ready(other) /\ u \in Ready(other)'
    BY <2>3 DEF Ready, Locked
  <2>5. Ready(other) \cup {u} \subseteq Ready(other)'
    BY <1>1, <1>2, <2>4 DEF Ready, Locked
  <2>6. Cardinality(Ready(other) \cup {u}) = Cardinality(Ready(other)) + 1
    BY <2>4, ReadyFinite, FS_AddElement
  <2> QED
    BY <2>5, <2>6, ReadyFinitePrime, FS_Subset
<1> QED
  BY <1>6, <1>7, <1>8

LEMMA SendWakeups ==
  ASSUME TypeOK, NoLostWakeup, NEW t \in Threads, Send(t)
  PROVE  NoLostWakeup'
<1>1. Capacity \in Nat /\ count \in Nat /\ count' = count + 1
  BY QueueAssumption DEF TypeOK, Send
<1>2. /\ Cardinality(Ready("send")) - 1 <= Cardinality(Ready("send")')
      /\ At("not_empty")' # {} =>
           Cardinality(Ready("receive")) + 1 <= Cardinality(Ready("receive")')
      /\ \A c \in {"not_full", "not_empty"} : At(c)' \subseteq At(c)
  <2>1. \A u \in At("not_empty") : call[u].op = "receive"
    BY DEF TypeOK
  <2>2. Locked(t, "send") /\ ReturnAndWake(t, "not_empty")
    BY DEF Send
  <2> QED
    BY <2>1, <2>2, WorkWakes
<1>3. ASSUME At("not_full")' # {}
      PROVE  Capacity - count' <= Cardinality(Ready("send")')
  <2>1. Capacity - count <= Cardinality(Ready("send"))
    BY <1>2, <1>3, WakeupsIs
  <2> QED
    BY <1>1, <1>2, <2>1, ReadyFinite, ReadyFinitePrime
<1>4. ASSUME At("not_empty")' # {}
      PROVE  count' <= Cardinality(Ready("receive")')
  <2>1. count <= Cardinality(Ready("receive"))
    BY <1>2, <1>4, WakeupsIs
  <2> QED
    BY <1>1, <1>2, <1>4, <2>1, ReadyFinite, ReadyFinitePrime
<1> QED
  BY <1>3, <1>4, WakeupsIsPrime

LEMMA ReceiveWakeups ==
  ASSUME TypeOK, NoLostWakeup, NEW t \in Threads, Receive(t)
  PROVE  NoLostWakeup'
<1>1. Capacity \in Nat /\ count \in Nat /\ count' = count - 1
  BY QueueAssumption DEF TypeOK, Receive
<1>2. /\ Cardinality(Ready("receive")) - 1 <= Cardinality(Ready("receive")')
      /\ At("not_full")' # {} =>
           Cardinality(Ready("send")) + 1 <= Cardinality(Ready("send")')
      /\ \A c \in {"not_full", "not_empty"} : At(c)' \subseteq At(c)
  <2>1. \A u \in At("not_full") : call[u].op = "send"
    BY DEF TypeOK
  <2>2. Locked(t, "receive") /\ ReturnAndWake(t, "not_full")
    BY DEF Receive
  <2> QED
    BY <2>1, <2>2, WorkWakes
<1>3. ASSUME At("not_full")' # {}
      PROVE  Capacity - count' <= Cardinality(Ready("send")')
  <2>1. Capacity - count <= Cardinality(Ready("send"))
    BY <1>2, <1>3, WakeupsIs
  <2> QED
    BY <1>1, <1>2, <1>3, <2>1, ReadyFinite, ReadyFinitePrime
<1>4. ASSUME At("not_empty")' # {}
      PROVE  count' <= Cardinality(Ready("receive")')
  <2>1. count <= Cardinality(Ready("receive"))
    BY <1>2, <1>4, WakeupsIs
  <2> QED
    BY <1>1, <1>2, <2>1, ReadyFinite, ReadyFinitePrime
<1> QED
  BY <1>3, <1>4, WakeupsIsPrime

(* Who finds the ring full or empty waits beside no slot and no message.   *)
LEMMA WaitWakeups ==
  ASSUME TypeOK, NoLostWakeup, NEW t \in Threads, SendWaits(t) \/ ReceiveWaits(t)
  PROVE  NoLostWakeup'
<1>1. Capacity \in Nat /\ count \in Nat /\ count' = count /\ call' = call
  BY QueueAssumption DEF TypeOK, SendWaits, ReceiveWaits, Wait
<1>2. CASE SendWaits(t)
  <2>1. count = Capacity /\ Locked(t, "send") /\ pc' = [pc EXCEPT ![t] = "not_full"]
    BY <1>2 DEF SendWaits, Wait
  <2>2. At("not_empty")' = At("not_empty")
    BY <2>1 DEF At, TypeOK, Locked
  <2>3. Ready("receive") \subseteq Ready("receive")'
    BY <1>1, <2>1 DEF Ready, Locked, TypeOK
  <2> QED
    BY <1>1, <2>1, <2>2, <2>3, ReadyGrows, ReadyFinite, ReadyFinitePrime, WakeupsIs,
       WakeupsIsPrime
<1>3. CASE ReceiveWaits(t)
  <2>1. count = 0 /\ Locked(t, "receive") /\ pc' = [pc EXCEPT ![t] = "not_empty"]
    BY <1>3 DEF ReceiveWaits, Wait
  <2>2. At("not_full")' = At("not_full")
    BY <2>1 DEF At, TypeOK, Locked
  <2>3. Ready("send") \subseteq Ready("send")'
    BY <1>1, <2>1 DEF Ready, Locked, TypeOK
  <2> QED
    BY <1>1, <2>1, <2>2, <2>3, ReadyGrows, ReadyFinite, ReadyFinitePrime, WakeupsIs,
       WakeupsIsPrime
<1> QED
  BY <1>2, <1>3

LEMMA BusyWakeups ==
  ASSUME TypeOK, NoLostWakeup, NEW t \in Threads, SendBusy(t) \/ ReceiveEmpty(t)
  PROVE  NoLostWakeup'
<1>1. /\ Capacity \in Nat /\ count \in Nat /\ count' = count
      /\ pc' = [pc EXCEPT ![t] = "idle"] /\ call' = [call EXCEPT ![t] = NoCall]
  BY QueueAssumption DEF TypeOK, SendBusy, ReceiveEmpty, Return
<1>2. \A c \in {"not_full", "not_empty"} : At(c)' \subseteq At(c)
  BY <1>1 DEF At, TypeOK
<1>3. CASE SendBusy(t)
  <2>1. count = Capacity /\ Locked(t, "send")
    BY <1>3 DEF SendBusy
  <2>2. Ready("receive") \subseteq Ready("receive")'
    BY <1>1, <2>1 DEF Ready, Locked, TypeOK
  <2> QED
    BY <1>1, <1>2, <2>1, <2>2, ReadyGrows, ReadyFinite, ReadyFinitePrime, WakeupsIs,
       WakeupsIsPrime
<1>4. CASE ReceiveEmpty(t)
  <2>1. count = 0 /\ Locked(t, "receive")
    BY <1>4 DEF ReceiveEmpty
  <2>2. Ready("send") \subseteq Ready("send")'
    BY <1>1, <2>1 DEF Ready, Locked, TypeOK
  <2> QED
    BY <1>1, <1>2, <2>1, <2>2, ReadyGrows, ReadyFinite, ReadyFinitePrime, WakeupsIs,
       WakeupsIsPrime
<1> QED
  BY <1>3, <1>4

(* A call, a timeout or a spurious wake-up takes nobody from the mutex and *)
(* adds nobody to those that wait.                                         *)
LEMMA OtherWakeups ==
  ASSUME TypeOK, NoLostWakeup, NEW t \in Threads,
         (\E c \in Calls : Call(t, c)) \/ Timeout(t) \/ SpuriousWakeup(t)
  PROVE  NoLostWakeup'
<1>1. Capacity \in Nat /\ count \in Nat /\ count' = count
  BY QueueAssumption DEF TypeOK, Call, Timeout, Return, SpuriousWakeup
<1>2. \A u \in Threads : u # t => pc'[u] = pc[u] /\ call'[u] = call[u]
  BY DEF Call, Timeout, Return, SpuriousWakeup, TypeOK
<1>3. pc[t] # "lock" /\ pc'[t] \in {"lock", "idle"}
  BY DEF Call, Timeout, Return, SpuriousWakeup, TypeOK
<1>4. \A c \in {"not_full", "not_empty"} : At(c)' \subseteq At(c)
  BY <1>2, <1>3 DEF At
<1>5. Ready("send") \subseteq Ready("send")' /\ Ready("receive") \subseteq Ready("receive")'
  BY <1>2, <1>3 DEF Ready, Locked
<1> QED
  BY <1>1, <1>4, <1>5, ReadyGrows, ReadyFinite, ReadyFinitePrime, WakeupsIs, WakeupsIsPrime

LEMMA NextWakeups == TypeOK /\ NoLostWakeup /\ [Next]_vars => NoLostWakeup'
<1> SUFFICES ASSUME TypeOK, NoLostWakeup, [Next]_vars PROVE NoLostWakeup'
  OBVIOUS
<1>1. CASE UNCHANGED vars
  BY <1>1 DEF vars, NoLostWakeup, At, Locked
<1>2. ASSUME NEW t \in Threads, NEW m \in Messages, CallFromIsr(t, m)
      PROVE  NoLostWakeup'
  <2>1. [op |-> "send", item |-> m, timeout |-> "none"] \in Calls
    BY DEF Calls, Timeouts
  <2> QED
    BY <1>2, <2>1, OtherWakeups DEF CallFromIsr
<1>3. ASSUME NEW t \in Threads, Work(t)
      PROVE  NoLostWakeup'
  BY <1>3, SendWakeups, ReceiveWakeups, WaitWakeups, BusyWakeups DEF Work
<1> QED
  BY <1>1, <1>2, <1>3, OtherWakeups DEF Next

(* The signals of osal_queue_send and osal_queue_receive: nobody sleeps    *)
(* beside a slot or a message that nobody else is about to take.           *)
THEOREM WakeupsAreKept == Spec => []NoLostWakeup
BY InitTypeOK, NextTypeOK, InitWakeups, NextWakeups, PTL DEF Spec

-----------------------------------------------------------------------------
(* The channel.  A thread that is in no call offers nothing.               *)

IdleCalls == \A t \in Threads : pc[t] = "idle" => call[t] = NoCall

LEMMA NextIdleCalls == TypeOK /\ IdleCalls /\ [Next]_vars => IdleCalls'
<1> SUFFICES ASSUME TypeOK, IdleCalls, [Next]_vars PROVE IdleCalls'
  OBVIOUS
<1>1. CASE UNCHANGED vars
  BY <1>1 DEF vars, IdleCalls
<1>2. ASSUME NEW t \in Threads, \A u \in Threads : u # t => call'[u] = call[u],
             \A u \in Threads : u # t => pc'[u] = pc[u] \/ pc'[u] = "lock",
             pc'[t] = "idle" => call'[t] = NoCall
      PROVE  IdleCalls'
  BY <1>2 DEF IdleCalls
<1>3. ASSUME NEW t \in Threads, NEW c \in Calls, Call(t, c) PROVE IdleCalls'
  <2>1. \A u \in Threads : u # t => call'[u] = call[u] /\ pc'[u] = pc[u]
    BY <1>3 DEF Call, TypeOK
  <2>2. pc'[t] = "lock"
    BY <1>3 DEF Call, TypeOK
  <2> QED
    BY <1>2, <2>1, <2>2
<1>4. ASSUME NEW t \in Threads, NEW m \in Messages, CallFromIsr(t, m) PROVE IdleCalls'
  <2>1. [op |-> "send", item |-> m, timeout |-> "none"] \in Calls
    BY DEF Calls, Timeouts
  <2> QED
    BY <1>3, <1>4, <2>1 DEF CallFromIsr
<1>5. ASSUME NEW t \in Threads, Send(t) \/ Receive(t) PROVE IdleCalls'
  <2>1. PICK condition \in {"not_full", "not_empty"} : ReturnAndWake(t, condition)
    BY <1>5 DEF Send, Receive
  <2>2. call' = [call EXCEPT ![t] = NoCall]
    BY <2>1 DEF ReturnAndWake
  <2>3. \A u \in Threads : u # t => pc'[u] = pc[u] \/ pc'[u] = "lock"
    BY <2>1 DEF ReturnAndWake, At, TypeOK
  <2> QED
    BY <1>2, <2>2, <2>3 DEF TypeOK
<1>6. ASSUME NEW t \in Threads, SendBusy(t) \/ ReceiveEmpty(t) \/ Timeout(t) PROVE IdleCalls'
  <2>1. Return(t)
    BY <1>6 DEF SendBusy, ReceiveEmpty, Timeout
  <2>2. \A u \in Threads : u # t => call'[u] = call[u] /\ pc'[u] = pc[u]
    BY <2>1 DEF Return, TypeOK
  <2>3. call'[t] = NoCall
    BY <2>1 DEF Return, TypeOK
  <2> QED
    BY <1>2, <2>2, <2>3
<1>7. ASSUME NEW t \in Threads, SendWaits(t) \/ ReceiveWaits(t) \/ SpuriousWakeup(t)
      PROVE  IdleCalls'
  <2>1. call' = call
    BY <1>7 DEF SendWaits, ReceiveWaits, SpuriousWakeup, Wait
  <2>2. \A u \in Threads : u # t => pc'[u] = pc[u]
    BY <1>7 DEF SendWaits, ReceiveWaits, SpuriousWakeup, Wait, TypeOK
  <2>3. pc'[t] # "idle"
    BY <1>7 DEF SendWaits, ReceiveWaits, SpuriousWakeup, Wait, TypeOK
  <2> QED
    BY <1>2, <2>1, <2>2, <2>3
<1> QED
  BY <1>1, <1>3, <1>4, <1>5, <1>6, <1>7 DEF Next, Work

(* What the refinement mapping shows as the channel and the offers.        *)
Waiting == [i \in 1 .. count |-> buffer[(head + i - 1) % Capacity]]
Offers == [t \in Threads |-> call[t].item]

(* The n messages of a ring b, the oldest at slot h.                       *)
LEMMA RingType ==
  ASSUME NEW h \in Slots, NEW n \in 0 .. Capacity, NEW b \in [Slots -> Messages],
         NEW w, w = [i \in 1 .. n |-> b[(h + i - 1) % Capacity]]
  PROVE  /\ w \in Seq(Messages) /\ Len(w) = n
         /\ \A i \in 1 .. n : w[i] = b[(h + (i - 1)) % Capacity]
                             /\ (h + (i - 1)) % Capacity \in Slots
<1>1. Capacity \in Nat \ {0} /\ h \in Nat /\ n \in Nat
  BY QueueAssumption DEF Slots
<1>2. ASSUME NEW i \in 1 .. n
      PROVE  h + i - 1 = h + (i - 1) /\ (h + (i - 1)) % Capacity \in Slots
  <2>1. i - 1 \in 0 .. Capacity /\ h + i - 1 = h + (i - 1)
    BY <1>1
  <2> QED
    BY <1>1, <2>1, TailSlot
<1>3. \A i \in 1 .. n : w[i] = b[(h + (i - 1)) % Capacity]
  BY <1>2
<1>4. \A i \in 1 .. n : w[i] \in Messages
  BY <1>1, <1>2, <1>3
<1>5. DOMAIN w = 1 .. n /\ w = [i \in 1 .. n |-> w[i]]
  OBVIOUS
<1>6. w \in Seq(Messages) /\ Len(w) = n
  BY <1>1, <1>4, <1>5
<1> QED
  BY <1>2, <1>3, <1>6

LEMMA WaitingType ==
  ASSUME TypeOK
  PROVE  /\ Waiting \in Seq(Messages) /\ Len(Waiting) = count
         /\ \A i \in 1 .. count : Waiting[i] = buffer[(head + (i - 1)) % Capacity]
                                   /\ (head + (i - 1)) % Capacity \in Slots
<1>1. head \in Slots /\ count \in 0 .. Capacity /\ buffer \in [Slots -> Messages]
  BY DEF TypeOK
<1> QED
  BY <1>1, RingType DEF Waiting

LEMMA WaitingTypePrime ==
  ASSUME TypeOK'
  PROVE  /\ Waiting' \in Seq(Messages) /\ Len(Waiting') = count'
         /\ \A i \in 1 .. count' : Waiting'[i] = buffer'[(head' + (i - 1)) % Capacity]
<1>1. head' \in Slots /\ count' \in 0 .. Capacity /\ buffer' \in [Slots -> Messages]
  BY DEF TypeOK, Slots
<1>2. Waiting' = [i \in 1 .. count' |-> buffer'[(head' + i - 1) % Capacity]]
  BY DEF Waiting
<1> QED
  BY <1>1, <1>2, RingType

(* Two messages of the ring are in two slots.                              *)
LEMMA SlotsDiffer ==
  ASSUME NEW h \in Slots, NEW n \in 0 .. Capacity - 1, NEW i \in 0 .. n - 1
  PROVE  (h + i) % Capacity # (h + n) % Capacity
<1>1. Capacity \in Nat \ {0} /\ h \in 0 .. Capacity - 1
  BY QueueAssumption DEF Slots
<1>2. i \in 0 .. Capacity /\ n \in 0 .. Capacity
  BY <1>1
<1>3. /\ (h + i) % Capacity = IF h + i < Capacity THEN h + i ELSE h + i - Capacity
      /\ (h + n) % Capacity = IF h + n < Capacity THEN h + n ELSE h + n - Capacity
  BY <1>2, TailSlot
<1> QED
  BY <1>1, <1>3

LEMMA SendAppends ==
  ASSUME TypeOK, NEW t \in Threads, Send(t)
  PROVE  Waiting' = Append(Waiting, call[t].item)
<1> DEFINE m == call[t].item
<1>1. /\ Capacity \in Nat \ {0} /\ head \in Slots /\ count \in 0 .. Capacity - 1 /\ head \in Nat
      /\ buffer \in [Slots -> Messages] /\ tail = (head + count) % Capacity /\ tail \in Slots
  <2>1. /\ Capacity \in Nat \ {0} /\ head \in Slots /\ count \in 0 .. Capacity - 1 /\ head \in Nat
        /\ buffer \in [Slots -> Messages] /\ tail = (head + count) % Capacity
    BY QueueAssumption DEF TypeOK, Send, Slots
  <2>2. count \in 0 .. Capacity
    BY <2>1
  <2> QED
    BY <2>1, <2>2, TailSlot
<1>2. /\ count' = count + 1 /\ head' = head
      /\ buffer' = [buffer EXCEPT ![tail] = m]
  BY DEF Send
<1>3. /\ Len(Waiting) = count /\ Waiting \in Seq(Messages)
      /\ \A i \in 1 .. count : Waiting[i] = buffer[(head + (i - 1)) % Capacity]
                                 /\ (head + (i - 1)) % Capacity \in Slots
  BY WaitingType
<1>4. /\ \A i \in 1 .. count' : Waiting'[i] = buffer'[(head + (i - 1)) % Capacity]
      /\ Len(Waiting') = count + 1 /\ Waiting' \in Seq(Messages)
  BY <1>1, <1>2, SendTypes, WaitingTypePrime
<1>5. ASSUME NEW i \in 1 .. count PROVE Waiting'[i] = Waiting[i]
  <2>1. i - 1 \in 0 .. count - 1 /\ i \in 1 .. count'
    BY <1>1, <1>2
  <2>2. (head + (i - 1)) % Capacity # tail
    BY <1>1, <2>1, SlotsDiffer
  <2> QED
    BY <1>1, <1>2, <1>3, <1>4, <2>1, <2>2
<1>6. Waiting'[count + 1] = m
  <2>1. count + 1 \in 1 .. count' /\ (count + 1) - 1 = count
    BY <1>1, <1>2
  <2> QED
    BY <1>1, <1>2, <1>4, <2>1
<1>7. m \in Messages
  BY DEF TypeOK, Send, Locked, Calls
<1> HIDE DEF m
<1>8. ASSUME NEW w \in Seq(Messages), NEW v \in Seq(Messages),
             Len(w) = count, Len(v) = count + 1, v[count + 1] = m,
             \A i \in 1 .. count : v[i] = w[i]
      PROVE  v = Append(w, m)
  BY <1>1, <1>7, <1>8
<1> QED
  BY <1>3, <1>4, <1>5, <1>6, <1>8 DEF m

LEMMA ReceiveTakesHead ==
  ASSUME TypeOK, NEW t \in Threads, Receive(t)
  PROVE  Waiting # <<>> /\ Waiting' = Tail(Waiting) /\ buffer[head] = Head(Waiting)
<1>1. /\ Capacity \in Nat \ {0} /\ head \in Slots /\ count \in 1 .. Capacity /\ head \in Nat
  BY QueueAssumption DEF TypeOK, Receive, Slots
<1>2. count' = count - 1 /\ head' = After(head) /\ buffer' = buffer
  BY DEF Receive
<1>3. /\ Len(Waiting) = count /\ Waiting \in Seq(Messages)
      /\ \A i \in 1 .. count : Waiting[i] = buffer[(head + (i - 1)) % Capacity]
  BY WaitingType
<1>4. /\ \A i \in 1 .. count' : Waiting'[i] = buffer[(After(head) + (i - 1)) % Capacity]
      /\ Len(Waiting') = count - 1 /\ Waiting' \in Seq(Messages)
  BY <1>1, <1>2, ReceiveTypes, WaitingTypePrime
<1>5. ASSUME NEW i \in 1 .. count - 1 PROVE Waiting'[i] = Waiting[i + 1]
  <2>1. i - 1 \in 0 .. Capacity - 1 /\ i \in 1 .. count' /\ i + 1 \in 1 .. count
        /\ (i - 1) + 1 = (i + 1) - 1
    BY <1>1, <1>2
  <2>2. (After(head) + (i - 1)) % Capacity = (head + ((i - 1) + 1)) % Capacity
    BY <1>1, <2>1, TailAfter
  <2> QED
    BY <1>3, <1>4, <2>1, <2>2
<1>6. buffer[head] = Waiting[1]
  <2>1. 1 - 1 = 0 /\ 0 \in 0 .. Capacity /\ 1 \in 1 .. count /\ head + 0 = head
        /\ head < Capacity
    BY <1>1 DEF Slots
  <2>2. (head + 0) % Capacity = head
    BY <1>1, <2>1, TailSlot
  <2> QED
    BY <1>3, <2>1, <2>2
<1>7. ASSUME NEW w \in Seq(Messages), NEW v \in Seq(Messages),
             Len(w) = count, Len(v) = count - 1,
             \A i \in 1 .. count - 1 : v[i] = w[i + 1]
      PROVE  w # <<>> /\ v = Tail(w) /\ w[1] = Head(w)
  BY <1>1, <1>7
<1> QED
  BY <1>3, <1>4, <1>5, <1>6, <1>7


LEMMA InitChannel == Init => Channel!Init
<1> SUFFICES ASSUME Init PROVE Channel!Init
  OBVIOUS
<1>1. Offers = [t \in Threads |-> NoMessage]
  BY DEF Init, Offers, NoCall
<1>2. Waiting = <<>>
  BY InitTypeOK, WaitingType DEF Init
<1> QED
  BY <1>1, <1>2 DEF Init, Channel!Init, Offers, Waiting

(* A call with item m makes the offer m.                                   *)
LEMMA OfferOf ==
  ASSUME TypeOK, NEW t \in Threads, NEW c, call' = [call EXCEPT ![t] = c]
  PROVE  Offers' = [Offers EXCEPT ![t] = c.item]
BY DEF Offers, TypeOK

LEMMA NoOffer ==
  ASSUME TypeOK, NEW t \in Threads, call' = [call EXCEPT ![t] = NoCall]
  PROVE  Offers' = [Offers EXCEPT ![t] = NoMessage]
<1>1. Offers' = [Offers EXCEPT ![t] = NoCall.item]
  BY OfferOf
<1>2. NoCall.item = NoMessage
  BY DEF NoCall
<1> QED
  BY <1>1, <1>2

LEMMA CallRefines ==
  ASSUME TypeOK, IdleCalls, NEW t \in Threads, NEW c \in Calls, Call(t, c)
  PROVE  [Channel!Next]_(Channel!channelVars)
<1>1. Offers[t] = NoMessage
  BY DEF Call, IdleCalls, NoCall, Offers
<1>2. Waiting' = Waiting /\ received' = received
  BY DEF Call, Waiting
<1>3. Offers' = [Offers EXCEPT ![t] = c.item]
  BY OfferOf DEF Call
<1>4. CASE c.item = NoMessage
  <2>1. Offers' = Offers
    BY <1>1, <1>3, <1>4 DEF Offers
  <2> QED
    BY <1>2, <2>1 DEF Channel!channelVars, Offers, Waiting
<1>5. CASE c.item # NoMessage
  <2>1. c.item \in Messages
    BY <1>5 DEF Calls
  <2>2. Channel!Offer(t, c.item)
    BY <1>1, <1>2, <1>3 DEF Channel!Offer, Offers, Waiting
  <2> QED
    BY <2>1, <2>2 DEF Channel!Next
<1> QED
  BY <1>4, <1>5

LEMMA SendRefines ==
  ASSUME TypeOK, NEW t \in Threads, Send(t)
  PROVE  Channel!Send(t)
<1>1. Waiting' = Append(Waiting, Offers[t]) /\ Len(Waiting) < Capacity
  BY SendAppends, WaitingType DEF Offers, Send
<1>2. Offers' = [Offers EXCEPT ![t] = NoMessage]
  BY NoOffer DEF Send, ReturnAndWake
<1>3. Offers[t] # NoMessage
  BY QueueAssumption DEF TypeOK, Send, Locked, Calls, Offers
<1>4. received' = received
  BY DEF Send
<1> QED
  BY <1>1, <1>2, <1>3, <1>4 DEF Channel!Send, Offers, Waiting

LEMMA ReceiveRefines ==
  ASSUME TypeOK, NEW t \in Threads, Receive(t)
  PROVE  Channel!Receive(t)
<1>1. Waiting # <<>> /\ Waiting' = Tail(Waiting)
      /\ received' = [received EXCEPT ![t] = Head(Waiting)]
  BY ReceiveTakesHead DEF Receive
<1>2. Offers[t] = NoMessage
  BY DEF TypeOK, Receive, Locked, Calls, Offers
<1>3. Offers' = Offers
  <2>1. Offers' = [Offers EXCEPT ![t] = NoMessage]
    BY NoOffer DEF Receive, ReturnAndWake
  <2> QED
    BY <1>2, <2>1 DEF Offers
<1> QED
  BY <1>1, <1>3 DEF Channel!Receive, Offers, Waiting

(* A return with nothing done gives a message up, or the call was a        *)
(* receive.                                                                *)
LEMMA ReturnRefines ==
  ASSUME TypeOK, NEW t \in Threads, Return(t)
  PROVE  [Channel!Next]_(Channel!channelVars)
<1>1. Waiting' = Waiting /\ received' = received
  BY DEF Return, Waiting
<1>2. Offers' = [Offers EXCEPT ![t] = NoMessage]
  BY NoOffer DEF Return
<1>3. CASE Offers[t] = NoMessage
  <2>1. Offers' = Offers
    BY <1>2, <1>3 DEF Offers
  <2> QED
    BY <1>1, <2>1 DEF Channel!channelVars, Offers, Waiting
<1>4. CASE Offers[t] # NoMessage
  <2>1. Channel!GiveUp(t)
    BY <1>1, <1>2, <1>4 DEF Channel!GiveUp, Offers, Waiting
  <2> QED
    BY <2>1 DEF Channel!Next
<1> QED
  BY <1>3, <1>4

(* The queue implements the channel: with any number of senders and        *)
(* receivers, and however the indices wrap, no message is lost, received   *)
(* twice or overtaken, and a failed send has sent nothing.                 *)
THEOREM QueueIsChannel == Spec => IsChannel
<1>1. TypeOK /\ IdleCalls /\ [Next]_vars => [Channel!Next]_(Channel!channelVars)
  <2> SUFFICES ASSUME TypeOK, IdleCalls, [Next]_vars
               PROVE  [Channel!Next]_(Channel!channelVars)
    OBVIOUS
  <2>1. ASSUME NEW t \in Threads, NEW c \in Calls, Call(t, c)
        PROVE  [Channel!Next]_(Channel!channelVars)
    BY <2>1, CallRefines
  <2>2. ASSUME NEW t \in Threads, NEW m \in Messages, CallFromIsr(t, m)
        PROVE  [Channel!Next]_(Channel!channelVars)
    <3>1. [op |-> "send", item |-> m, timeout |-> "none"] \in Calls
      BY DEF Calls, Timeouts
    <3> QED
      BY <2>1, <2>2, <3>1 DEF CallFromIsr
  <2>3. ASSUME NEW t \in Threads, Send(t) \/ Receive(t)
        PROVE  Channel!Next
    BY <2>3, SendRefines, ReceiveRefines DEF Channel!Next
  <2>4. ASSUME NEW t \in Threads, SendBusy(t) \/ ReceiveEmpty(t) \/ Timeout(t)
        PROVE  [Channel!Next]_(Channel!channelVars)
    <3>1. Return(t)
      BY <2>4 DEF SendBusy, ReceiveEmpty, Timeout
    <3> QED
      BY <3>1, ReturnRefines
  <2>5. ASSUME NEW t \in Threads, SendWaits(t) \/ ReceiveWaits(t) \/ SpuriousWakeup(t)
        PROVE  UNCHANGED Channel!channelVars
    BY <2>5 DEF SendWaits, ReceiveWaits, SpuriousWakeup, Wait, Channel!channelVars
  <2>6. CASE UNCHANGED vars
    BY <2>6 DEF vars, Channel!channelVars
  <2> QED
    BY <2>1, <2>2, <2>3, <2>4, <2>5, <2>6 DEF Next, Work
<1>2. Init => IdleCalls
  BY DEF Init, IdleCalls
<1> QED
  BY <1>1, <1>2, NextIdleCalls, InitChannel, InitTypeOK, NextTypeOK,
     PTL DEF Spec, Channel!Spec, IsChannel
=============================================================================
