-------------------------- MODULE TelemetryBuffer --------------------------
(***************************************************************************)
(* The ring buffer of edge/middleware/telemetry: the records that could    *)
(* not be sent.  A record has fields held by value (seq stands for them)   *)
(* and strings held by pointer (text stands for device_id,                 *)
(* firmware_version and state): a push copies the strings into storage of  *)
(* the slot and points the copy there, a peek hands out that pointer.  The *)
(* client is arbitrary: it may call any function at any time.              *)
(***************************************************************************)
EXTENDS Naturals, Sequences

CONSTANTS
  Seqs,     \* the values of the fields held by value
  Texts,    \* strings
  NoText,   \* a NULL pointer
  Cut,      \* Cut[t]: what strncpy copies of t, at most 15 or 31 characters
  Nothing,  \* no record
  Capacity  \* TELEMETRY_BUFFER_CAPACITY

ASSUME BufferAssumption ==
  /\ Capacity \in Nat \ {0}
  /\ NoText \notin Texts
  /\ Cut \in [Texts -> Texts]
  /\ Nothing \notin [seq: Seqs, text: Texts \cup {NoText}]
  /\ Nothing \notin [seq: Seqs, named: BOOLEAN, slot: Nat]

VARIABLES
  given,  \* the argument of the last push
  items,  \* buf->items: seq, and whether the string pointers are set
  stored, \* the string storage of each slot, NoText where it is blank
  head,
  tail,
  count,
  peeked  \* out_data of the last peek and the slot it points into, until
          \* that slot is given up and the copy is no longer of use

vars == <<given, items, stored, head, tail, count, peeked>>

Slots == 0 .. Capacity - 1
Records == [seq: Seqs, text: Texts \cup {NoText}]

After(slot) == (slot + 1) % Capacity

(* telemetry_buffer_init: memset to zero.  Blank is a zeroed item.         *)
Blank == [seq |-> Nothing, named |-> FALSE]

Init ==
  /\ given = Nothing
  /\ items = [i \in Slots |-> Blank]
  /\ stored = [i \in Slots |-> NoText]
  /\ head = 0 /\ tail = 0 /\ count = 0
  /\ peeked = Nothing

Clear ==
  /\ items' = [i \in Slots |-> Blank]
  /\ stored' = [i \in Slots |-> NoText]
  /\ head' = 0 /\ tail' = 0 /\ count' = 0
  /\ peeked' = Nothing
  /\ UNCHANGED given

(* Mutant: a full buffer drops its oldest record but counts it still.      *)
PushMiscounts(r) ==
  /\ given' = r
  /\ head' = IF count = Capacity THEN After(head) ELSE head
  /\ items' = [items EXCEPT ![tail] = [seq |-> r.seq, named |-> r.text # NoText]]
  /\ stored' = [stored EXCEPT ![tail] = IF r.text # NoText THEN Cut[r.text] ELSE @]
  /\ tail' = After(tail)
  /\ count' = count + 1
  /\ peeked' = IF count = Capacity THEN Nothing ELSE peeked

(* Mutant: the strings are not copied when the slot has some already.      *)
PushKeepsOldText(r) ==
  /\ given' = r
  /\ head' = IF count = Capacity THEN After(head) ELSE head
  /\ items' = [items EXCEPT ![tail] = [seq |-> r.seq, named |-> r.text # NoText]]
  /\ stored' = [stored EXCEPT ![tail] = IF r.text # NoText /\ @ = NoText THEN Cut[r.text] ELSE @]
  /\ tail' = After(tail)
  /\ count' = IF count = Capacity THEN count ELSE count + 1
  /\ peeked' = IF count = Capacity THEN Nothing ELSE peeked

(* telemetry_buffer_push: a full buffer overwrites its oldest record.      *)
Push(r) ==
  /\ given' = r
  /\ head' = IF count = Capacity THEN After(head) ELSE head
  /\ items' = [items EXCEPT ![tail] = [seq |-> r.seq, named |-> r.text # NoText]]
  /\ stored' = [stored EXCEPT ![tail] = IF r.text # NoText THEN Cut[r.text] ELSE @]
  /\ tail' = After(tail)
  /\ count' = IF count = Capacity THEN count ELSE count + 1
  /\ peeked' = IF count = Capacity THEN Nothing ELSE peeked

(* telemetry_buffer_peek: the struct is copied, its pointers with it.      *)
Peek ==
  /\ count # 0
  /\ peeked' = [seq |-> items[head].seq, named |-> items[head].named, slot |-> head]
  /\ UNCHANGED <<given, items, stored, head, tail, count>>

(* telemetry_buffer_pop: the slot is not cleared.                          *)
Pop ==
  /\ count # 0
  /\ head' = After(head)
  /\ count' = count - 1
  /\ peeked' = Nothing
  /\ UNCHANGED <<given, items, stored, tail>>

Next == Clear \/ (\E r \in Records : Push(r)) \/ Peek \/ Pop

Spec == Init /\ [][Next]_vars

-----------------------------------------------------------------------------
(* Properties.                                                             *)

(* Every variable has its type, and the three indices agree.               *)
TypeOK ==
  /\ given \in Records \cup {Nothing}
  /\ items \in [Slots -> [seq: Seqs \cup {Nothing}, named: BOOLEAN]]
  /\ stored \in [Slots -> Texts \cup {NoText}]
  /\ head \in Slots
  /\ count \in 0 .. Capacity
  /\ tail = (head + count) % Capacity
  /\ \/ peeked = Nothing
     \/ peeked \in [seq: Seqs, named: BOOLEAN, slot: Slots]

(* What a client reads through a copy of an item whose strings are kept in *)
(* a slot.                                                                 *)
Read(item, slot) ==
  [seq |-> item.seq, text |-> IF item.named THEN stored[slot] ELSE NoText]

Slot(i) == (head + i - 1) % Capacity

Content == [i \in 1 .. count |-> Read(items[Slot(i)], Slot(i))]

HeldRecord == IF peeked = Nothing THEN Nothing ELSE Read(peeked, peeked.slot)

(* A record as the buffer keeps it: with strings that fit the storage.     *)
Fitted == [r \in Records |-> [r EXCEPT !.text = IF @ = NoText THEN NoText ELSE Cut[@]]]

Fifo == INSTANCE OverwriteFifo
          WITH queue <- Content, held <- HeldRecord, Kept <- Fitted

(* The ring of slots, with its strings copied slot by slot, is a FIFO that *)
(* overwrites: nothing is reordered, repeated or mixed up with the strings *)
(* of another record when the indices wrap around and slots are reused,    *)
(* and a peeked record does not change until it is popped or overwritten.  *)
IsOverwriteFifo == Fifo!Spec
=============================================================================
