--------------------------- MODULE MessageChannel ---------------------------
(***************************************************************************)
(* What a message queue of the OSAL promises: each message a thread offers *)
(* is sent once or given up, each message sent is received once, by one    *)
(* thread, in the order of sending, and never more than Capacity wait.     *)
(***************************************************************************)
EXTENDS Naturals, Sequences

CONSTANTS Threads, Messages, NoMessage, Capacity

VARIABLES
  offered,  \* the message each thread has asked to send
  channel,  \* the messages that wait
  received  \* the message each thread received last

channelVars == <<offered, channel, received>>

Init ==
  /\ offered = [t \in Threads |-> NoMessage]
  /\ channel = <<>>
  /\ received = [t \in Threads |-> NoMessage]

Offer(t, m) ==
  /\ offered[t] = NoMessage
  /\ offered' = [offered EXCEPT ![t] = m]
  /\ UNCHANGED <<channel, received>>

GiveUp(t) ==
  /\ offered[t] # NoMessage
  /\ offered' = [offered EXCEPT ![t] = NoMessage]
  /\ UNCHANGED <<channel, received>>

Send(t) ==
  /\ offered[t] # NoMessage
  /\ Len(channel) < Capacity
  /\ channel' = Append(channel, offered[t])
  /\ offered' = [offered EXCEPT ![t] = NoMessage]
  /\ UNCHANGED received

Receive(t) ==
  /\ channel # <<>>
  /\ received' = [received EXCEPT ![t] = Head(channel)]
  /\ channel' = Tail(channel)
  /\ UNCHANGED offered

Next ==
  \E t \in Threads :
    (\E m \in Messages : Offer(t, m)) \/ GiveUp(t) \/ Send(t) \/ Receive(t)

Spec == Init /\ [][Next]_channelVars
=============================================================================
