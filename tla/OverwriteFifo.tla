--------------------------- MODULE OverwriteFifo ---------------------------
(***************************************************************************)
(* What the offline buffer of a device promises: a queue of bounded length *)
(* that gives up its oldest record when a new one finds it full, and whose *)
(* oldest record can be read and read again until it is removed.           *)
(***************************************************************************)
EXTENDS Naturals, Sequences

CONSTANTS
  Records,  \* the records a client may put in
  Nothing,  \* what a client holds that has read no record
  Kept,     \* Kept[r]: what the buffer keeps of a record
  Capacity

VARIABLES
  given, \* the record the client put in last
  queue, \* the records in the buffer, the oldest first
  held   \* the record the client read, as long as it is the oldest

fifoVars == <<given, queue, held>>

Init == given = Nothing /\ queue = <<>> /\ held = Nothing

Clear == queue' = <<>> /\ held' = Nothing /\ UNCHANGED given

Push(r) ==
  /\ given' = r
  /\ IF Len(queue) < Capacity
       THEN queue' = Append(queue, Kept[r]) /\ UNCHANGED held
       ELSE queue' = Append(Tail(queue), Kept[r]) /\ held' = Nothing

Peek == queue # <<>> /\ held' = Head(queue) /\ UNCHANGED <<given, queue>>

Pop == queue # <<>> /\ queue' = Tail(queue) /\ held' = Nothing /\ UNCHANGED given

Next == Clear \/ (\E r \in Records : Push(r)) \/ Peek \/ Pop

Spec == Init /\ [][Next]_fifoVars
=============================================================================
