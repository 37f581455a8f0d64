----------------------------- MODULE OsalQueue -----------------------------
(***************************************************************************)
(* The message queue of edge/osal/mock: a ring of slots behind one mutex   *)
(* and two condition variables.  Everything between the lock and the       *)
(* unlock, or the wait that releases the lock, is one action.  Threads are *)
(* arbitrary: each may send and receive at any time, with any timeout.     *)
(***************************************************************************)
EXTENDS Naturals, Sequences, FiniteSets

CONSTANTS
  Threads,
  Messages,
  NoMessage, \* what a thread has that has received nothing
  Capacity   \* queue_length

ASSUME QueueAssumption ==
  /\ IsFiniteSet(Threads)
  /\ NoMessage \notin Messages
  /\ Capacity \in Nat \ {0}

VARIABLES
  build,    \* which branch of the #if was compiled
  buffer,
  head,
  tail,
  count,
  pc,       \* "lock": at the mutex, for the first time or after a wake-up
  call,     \* the call each thread is in
  received  \* *buffer of the last receive of each thread

vars == <<build, buffer, head, tail, count, pc, call, received>>

Slots == 0 .. Capacity - 1
After(slot) == (slot + 1) % Capacity

(* OSAL_NO_WAIT, some milliseconds, OSAL_WAIT_FOREVER. *)
Timeouts == {"none", "finite", "forever"}

Steps == {"idle", "lock", "not_full", "not_empty"}

Calls == [op: {"send"}, item: Messages, timeout: Timeouts]
           \cup [op: {"receive"}, item: {NoMessage}, timeout: Timeouts]

NoCall == [op |-> "receive", item |-> NoMessage, timeout |-> "none"]

At(step) == {t \in Threads : pc[t] = step}

(* malloc: the slots hold anything until they are written.                 *)
Init ==
  /\ build \in {"posix", "windows"}
  /\ buffer \in [Slots -> Messages]
  /\ head = 0 /\ tail = 0 /\ count = 0
  /\ pc = [t \in Threads |-> "idle"]
  /\ call = [t \in Threads |-> NoCall]
  /\ received = [t \in Threads |-> NoMessage]

-----------------------------------------------------------------------------

(* osal_queue_send, osal_queue_receive: a thread comes to the mutex.       *)
Call(t, c) ==
  /\ pc[t] = "idle"
  /\ pc' = [pc EXCEPT ![t] = "lock"]
  /\ call' = [call EXCEPT ![t] = c]
  /\ UNCHANGED <<build, buffer, head, tail, count, received>>

(* osal_queue_send_from_isr is osal_queue_send with OSAL_NO_WAIT.          *)
CallFromIsr(t, m) == Call(t, [op |-> "send", item |-> m, timeout |-> "none"])

(* t returns, after pthread_cond_signal or WakeConditionVariable: one of   *)
(* the threads that wait, if any, goes for the mutex again.                *)
ReturnAndWake(t, condition) ==
  /\ call' = [call EXCEPT ![t] = NoCall]
  /\ \/ /\ At(condition) = {}
        /\ pc' = [pc EXCEPT ![t] = "idle"]
     \/ \E u \in At(condition) : pc' = [pc EXCEPT ![t] = "idle", ![u] = "lock"]

Return(t) ==
  /\ pc' = [pc EXCEPT ![t] = "idle"]
  /\ call' = [call EXCEPT ![t] = NoCall]
  /\ UNCHANGED <<build, buffer, head, tail, count, received>>

(* pthread_cond_wait, SleepConditionVariableCS.                            *)
Wait(t, condition) ==
  /\ pc' = [pc EXCEPT ![t] = condition]
  /\ UNCHANGED <<build, buffer, head, tail, count, call, received>>

Locked(t, op) == pc[t] = "lock" /\ call[t].op = op

(* Mutant: the receivers are signalled only when the queue was empty.      *)
SendWakesOnce(t) ==
  /\ Locked(t, "send") /\ count < Capacity
  /\ buffer' = [buffer EXCEPT ![tail] = call[t].item]
  /\ tail' = After(tail)
  /\ count' = count + 1
  /\ IF count = 0 THEN ReturnAndWake(t, "not_empty")
     ELSE pc' = [pc EXCEPT ![t] = "idle"] /\ call' = [call EXCEPT ![t] = NoCall]
  /\ UNCHANGED <<build, head, received>>

(* Mutant: `if` instead of `while`: a woken thread does not test again.    *)
SendUntested(t) ==
  /\ Locked(t, "send")
  /\ buffer' = [buffer EXCEPT ![tail] = call[t].item]
  /\ tail' = After(tail)
  /\ count' = count + 1
  /\ ReturnAndWake(t, "not_empty")
  /\ UNCHANGED <<build, head, received>>

Send(t) ==
  /\ Locked(t, "send") /\ count < Capacity
  /\ buffer' = [buffer EXCEPT ![tail] = call[t].item]
  /\ tail' = After(tail)
  /\ count' = count + 1
  /\ ReturnAndWake(t, "not_empty")
  /\ UNCHANGED <<build, head, received>>

(* OSAL_ERR_RESOURCE_BUSY.                                                 *)
SendBusy(t) ==
  /\ Locked(t, "send") /\ count = Capacity
  /\ call[t].timeout = "none"
  /\ Return(t)

SendWaits(t) ==
  /\ Locked(t, "send") /\ count = Capacity
  /\ call[t].timeout # "none"
  /\ Wait(t, "not_full")

(* Mutant: the slot is read after the index has moved on.                  *)
ReceiveNext(t) ==
  /\ Locked(t, "receive") /\ count > 0
  /\ received' = [received EXCEPT ![t] = buffer[After(head)]]
  /\ head' = After(head)
  /\ count' = count - 1
  /\ ReturnAndWake(t, "not_full")
  /\ UNCHANGED <<build, buffer, tail>>

Receive(t) ==
  /\ Locked(t, "receive") /\ count > 0
  /\ received' = [received EXCEPT ![t] = buffer[head]]
  /\ head' = After(head)
  /\ count' = count - 1
  /\ ReturnAndWake(t, "not_full")
  /\ UNCHANGED <<build, buffer, tail>>

(* OSAL_ERR_TIMEOUT, at once.                                              *)
ReceiveEmpty(t) ==
  /\ Locked(t, "receive") /\ count = 0
  /\ call[t].timeout = "none"
  /\ Return(t)

ReceiveWaits(t) ==
  /\ Locked(t, "receive") /\ count = 0
  /\ call[t].timeout # "none"
  /\ Wait(t, "not_empty")

(* SleepConditionVariableCS runs out of time.  The POSIX branch has no     *)
(* timed wait: there a finite timeout waits for ever.                      *)
Timeout(t) ==
  /\ build = "windows"
  /\ pc[t] \in {"not_full", "not_empty"}
  /\ call[t].timeout = "finite"
  /\ Return(t)

(* Both condition variables may wake a thread for no reason.               *)
SpuriousWakeup(t) ==
  /\ pc[t] \in {"not_full", "not_empty"}
  /\ pc' = [pc EXCEPT ![t] = "lock"]
  /\ UNCHANGED <<build, buffer, head, tail, count, call, received>>

Work(t) ==
  \/ Send(t) \/ SendBusy(t) \/ SendWaits(t)
  \/ Receive(t) \/ ReceiveEmpty(t) \/ ReceiveWaits(t)

Next ==
  \E t \in Threads :
    \/ \E c \in Calls : Call(t, c)
    \/ \E m \in Messages : CallFromIsr(t, m)
    \/ Work(t) \/ Timeout(t) \/ SpuriousWakeup(t)

Spec == Init /\ [][Next]_vars

-----------------------------------------------------------------------------
(* Properties.                                                             *)

(* Every variable has its type, the indices agree, and a thread waits only *)
(* on the condition of its own call.                                       *)
TypeOK ==
  /\ build \in {"posix", "windows"}
  /\ buffer \in [Slots -> Messages]
  /\ head \in Slots
  /\ count \in 0 .. Capacity
  /\ tail = (head + count) % Capacity
  /\ pc \in [Threads -> Steps]
  /\ call \in [Threads -> Calls]
  /\ received \in [Threads -> Messages \cup {NoMessage}]
  /\ \A t \in At("not_full") : call[t].op = "send"
  /\ \A t \in At("not_empty") : call[t].op = "receive"

(* No wake-up is lost: while a thread waits for room, every free slot has  *)
(* a sender on its way to the mutex, and while a thread waits for a        *)
(* message, every message has a receiver on its way.  So nobody sleeps for *)
(* ever beside a slot or a message that nobody else will take, although    *)
(* each signal wakes one thread only, woken threads may find that another  *)
(* was faster, and waits time out.                                         *)
NoLostWakeup ==
  /\ At("not_full") # {} =>
       Capacity - count <= Cardinality({t \in Threads : Locked(t, "send")})
  /\ At("not_empty") # {} =>
       count <= Cardinality({t \in Threads : Locked(t, "receive")})

(* NoCall and the receives carry NoMessage.                                *)
Channel == INSTANCE MessageChannel
             WITH offered <- [t \in Threads |-> call[t].item],
                  channel <- [i \in 1 .. count |-> buffer[(head + i - 1) % Capacity]]

(* osal_queue_send and osal_queue_receive are a FIFO channel of bounded    *)
(* length: what a thread asked to send is sent once or reported as not     *)
(* sent, and no message is lost, received twice or overtaken by a later    *)
(* one, with any number of senders and receivers and however the indices   *)
(* wrap.                                                                   *)
IsChannel == Channel!Spec
=============================================================================
