----------------------- MODULE TelemetryBufferProofs -----------------------
(***************************************************************************)
(* The ring buffer implements the overwriting FIFO, for every capacity and *)
(* every set of records and strings.  The inductive invariant adds to the  *)
(* types that the slots in use hold records and that a peeked copy is a    *)
(* copy of the oldest one.                                                 *)
(***************************************************************************)
EXTENDS TelemetryBuffer, TLAPS

(* The remainder of a number below twice the divisor.                      *)
LEMMA ModOnce ==
  ASSUME NEW a \in 0 .. 2 * Capacity - 1
  PROVE  a % Capacity = IF a < Capacity THEN a ELSE a - Capacity
<1>1. Capacity \in Nat \ {0}
  BY BufferAssumption
<1>2. CASE a < Capacity
  BY <1>1, <1>2
<1>3. CASE ~ a < Capacity
  <2>1. a - Capacity \in 0 .. Capacity - 1
    BY <1>1, <1>3
  <2> QED
    BY <1>1, <1>3, <2>1
<1> QED
  BY <1>2, <1>3

(* The slot that holds the i-th oldest record when the oldest is at h.     *)
SlotFrom(h, i) == IF h + i - 1 < Capacity THEN h + i - 1 ELSE h + i - 1 - Capacity

LEMMA SlotFromMod ==
  ASSUME NEW h \in Slots, NEW i \in 1 .. Capacity
  PROVE  /\ (h + i - 1) % Capacity = SlotFrom(h, i)
         /\ SlotFrom(h, i) \in Slots
<1>1. Capacity \in Nat \ {0}
  BY BufferAssumption
<1>2. h + i - 1 \in 0 .. 2 * Capacity - 1
  BY <1>1 DEF Slots
<1> QED
  BY <1>1, <1>2, ModOnce DEF SlotFrom, Slots

LEMMA AfterSlot ==
  ASSUME NEW h \in Slots
  PROVE  /\ After(h) = IF h + 1 = Capacity THEN 0 ELSE h + 1
         /\ After(h) \in Slots
<1>1. Capacity \in Nat \ {0}
  BY BufferAssumption
<1>2. h + 1 \in 0 .. 2 * Capacity - 1
  BY <1>1 DEF Slots
<1> QED
  BY <1>1, <1>2, ModOnce DEF After, Slots

(* No two records share a slot; one slot further is one record later; and  *)
(* in a full ring the slot after the newest record is that of the oldest.  *)
LEMMA SlotFacts ==
  ASSUME NEW h \in Slots
  PROVE  /\ SlotFrom(h, 1) = h
         /\ \A i, k \in 1 .. Capacity : i # k => SlotFrom(h, i) # SlotFrom(h, k)
         /\ \A i \in 1 .. Capacity - 1 : SlotFrom(After(h), i) = SlotFrom(h, i + 1)
         /\ SlotFrom(After(h), Capacity) = h
<1>1. Capacity \in Nat \ {0}
  BY BufferAssumption
<1>2. After(h) = IF h + 1 = Capacity THEN 0 ELSE h + 1
  BY AfterSlot
<1> QED
  BY <1>1, <1>2 DEF SlotFrom, Slots

(* Where the next record goes.                                             *)
LEMMA TailSlot ==
  ASSUME NEW h \in Slots, NEW n \in 0 .. Capacity
  PROVE  (h + n) % Capacity = IF n = Capacity THEN h ELSE SlotFrom(h, n + 1)
<1>1. Capacity \in Nat \ {0}
  BY BufferAssumption
<1>2. h + n \in 0 .. 2 * Capacity - 1
  BY <1>1 DEF Slots
<1> QED
  BY <1>1, <1>2, ModOnce DEF SlotFrom, Slots

-----------------------------------------------------------------------------
(* The inductive invariant.                                                *)

InUse == \A i \in 1 .. count : items[Slot(i)].seq \in Seqs

PeekedIsOldest ==
  peeked # Nothing =>
    /\ count # 0
    /\ peeked.slot = head
    /\ peeked.seq = items[head].seq
    /\ peeked.named = items[head].named

IInv == TypeOK /\ InUse /\ PeekedIsOldest

LEMMA SlotIs ==
  ASSUME TypeOK
  PROVE  \A i \in 1 .. count : Slot(i) = SlotFrom(head, i) /\ Slot(i) \in Slots
<1>1. Capacity \in Nat \ {0} /\ head \in Slots /\ count \in 0 .. Capacity
  BY BufferAssumption DEF TypeOK
<1>2. \A i \in 1 .. count : i \in 1 .. Capacity
  BY <1>1
<1> QED
  BY <1>1, <1>2, SlotFromMod DEF Slot

LEMMA InitIInv == Init => IInv
<1>1. Capacity \in Nat \ {0}
  BY BufferAssumption
<1>2. 0 \in Slots
  BY <1>1 DEF Slots
<1>3. (0 + 0) % Capacity = 0
  BY <1>1, ModOnce
<1> QED
  BY <1>1, <1>2, <1>3 DEF Init, IInv, TypeOK, InUse, PeekedIsOldest, Blank

LEMMA ClearIInv ==
  ASSUME IInv, Clear
  PROVE  IInv'
<1>1. Capacity \in Nat \ {0}
  BY BufferAssumption
<1>2. 0 \in Slots
  BY <1>1 DEF Slots
<1>3. (0 + 0) % Capacity = 0
  BY <1>1, ModOnce
<1>4. items' \in [Slots -> [seq: Seqs \cup {Nothing}, named: BOOLEAN]]
  BY DEF Clear, IInv, TypeOK, Blank
<1>5. stored' \in [Slots -> Texts \cup {NoText}] /\ given' \in Records \cup {Nothing}
  BY DEF Clear, IInv, TypeOK
<1>6. head' \in Slots /\ count' \in 0 .. Capacity /\ tail' = (head' + count') % Capacity
  BY <1>1, <1>2, <1>3 DEF Clear
<1>7. peeked' = Nothing /\ count' = 0
  BY DEF Clear
<1>8. TypeOK'
  BY <1>4, <1>5, <1>6, <1>7 DEF TypeOK
<1> QED
  BY <1>7, <1>8 DEF IInv, InUse, PeekedIsOldest

(* A push into a buffer that is not full.  The slot it writes is not one   *)
(* of those in use.                                                        *)
LEMMA PushRoom ==
  ASSUME IInv, NEW r \in Records, Push(r), count # Capacity
  PROVE  /\ IInv'
         /\ head' = head /\ count' = count + 1 /\ peeked' = peeked
         /\ tail = SlotFrom(head, count + 1)
         /\ \A i \in 1 .. count : SlotFrom(head, i) # tail
<1>1. /\ Capacity \in Nat \ {0} /\ head \in Slots /\ count \in 0 .. Capacity - 1
      /\ tail = (head + count) % Capacity /\ TypeOK
  BY BufferAssumption DEF IInv, TypeOK
<1>2. head' = head /\ count' = count + 1 /\ peeked' = peeked
  BY DEF Push
<1>3. tail = SlotFrom(head, count + 1)
  BY <1>1, TailSlot
<1>4. tail \in Slots
  BY <1>1, <1>3, SlotFromMod
<1>5. \A i \in 1 .. count : SlotFrom(head, i) # tail
  BY <1>1, <1>3, SlotFacts
<1>6. tail' = (head' + count') % Capacity
  <2>1. tail' = After(tail) /\ After(tail) = IF tail + 1 = Capacity THEN 0 ELSE tail + 1
    BY <1>4, AfterSlot DEF Push
  <2>2. (head + (count + 1)) % Capacity
          = IF count + 1 = Capacity THEN head ELSE SlotFrom(head, count + 1 + 1)
    BY <1>1, TailSlot
  <2> QED
    BY <1>1, <1>2, <1>3, <2>1, <2>2 DEF SlotFrom, Slots
<1>7. TypeOK'
  <2>1. r.seq \in Seqs /\ r.text \in Texts \cup {NoText}
    BY DEF Records
  <2>2. items' \in [Slots -> [seq: Seqs \cup {Nothing}, named: BOOLEAN]]
    BY <1>1, <2>1 DEF Push, TypeOK
  <2>3. stored' \in [Slots -> Texts \cup {NoText}]
    BY <1>1, <2>1, BufferAssumption DEF Push, TypeOK
  <2>4. given' \in (Records \cup {Nothing})'
    BY DEF Push, Records
  <2> QED
    BY <1>1, <1>2, <1>6, <2>2, <2>3, <2>4 DEF TypeOK
<1>8. InUse'
  <2>1. ASSUME NEW i \in 1 .. count + 1
        PROVE  items'[SlotFrom(head, i)].seq \in Seqs
    <3>1. CASE i = count + 1
      BY <1>1, <1>3, <1>4, <3>1 DEF Push, TypeOK, Records
    <3>2. CASE i # count + 1
      <4>1. i \in 1 .. count
        BY <1>1, <3>2
      <4>2. items[SlotFrom(head, i)].seq \in Seqs /\ SlotFrom(head, i) \in Slots
        BY <1>1, <4>1, SlotIs DEF IInv, InUse
      <4> QED
        BY <1>1, <1>5, <4>1, <4>2 DEF Push, TypeOK
    <3> QED
      BY <3>1, <3>2
  <2>2. \A i \in 1 .. count' : Slot(i)' = SlotFrom(head, i)
    <3>1. \A i \in 1 .. count + 1 : i \in 1 .. Capacity
      BY <1>1
    <3> QED
      BY <1>1, <1>2, <3>1, SlotFromMod DEF Slot
  <2> QED
    BY <1>2, <2>1, <2>2 DEF InUse
<1>9. PeekedIsOldest'
  <2>1. peeked # Nothing => head # tail
    BY <1>1, <1>5, SlotFacts DEF IInv, PeekedIsOldest
  <2> QED
    BY <1>1, <1>2, <2>1 DEF IInv, PeekedIsOldest, Push, TypeOK
<1> QED
  BY <1>2, <1>3, <1>5, <1>7, <1>8, <1>9 DEF IInv

(* A push into a full buffer writes the slot of the oldest record, which   *)
(* the head leaves.                                                        *)
LEMMA PushFull ==
  ASSUME IInv, NEW r \in Records, Push(r), count = Capacity
  PROVE  /\ IInv'
         /\ head' = After(head) /\ count' = count /\ peeked' = Nothing
         /\ tail = head
<1>1. /\ Capacity \in Nat \ {0} /\ head \in Slots
      /\ tail = (head + count) % Capacity /\ TypeOK
  BY BufferAssumption DEF IInv, TypeOK
<1>2. head' = After(head) /\ count' = count /\ peeked' = Nothing
  BY DEF Push
<1>3. tail = head
  BY <1>1, TailSlot
<1>4. head' \in Slots
  BY <1>1, <1>2, AfterSlot
<1>5. tail' = (head' + count') % Capacity
  <2>1. (head' + Capacity) % Capacity = head'
    BY <1>1, <1>4, TailSlot
  <2> QED
    BY <1>2, <1>3, <2>1 DEF Push
<1>6. TypeOK'
  <2>1. r.seq \in Seqs /\ r.text \in Texts \cup {NoText}
    BY DEF Records
  <2>2. items' \in [Slots -> [seq: Seqs \cup {Nothing}, named: BOOLEAN]]
    BY <1>1, <2>1 DEF Push, TypeOK
  <2>3. stored' \in [Slots -> Texts \cup {NoText}]
    BY <1>1, <2>1, BufferAssumption DEF Push, TypeOK
  <2>4. given' \in (Records \cup {Nothing})'
    BY DEF Push, Records
  <2> QED
    BY <1>1, <1>2, <1>4, <1>5, <2>2, <2>3, <2>4 DEF TypeOK
<1>7. InUse'
  <2>1. ASSUME NEW i \in 1 .. Capacity
        PROVE  items'[SlotFrom(head', i)].seq \in Seqs
    <3>1. CASE i = Capacity
      <4>1. SlotFrom(head', i) = head
        BY <1>1, <1>2, <3>1, SlotFacts
      <4> QED
        BY <1>1, <1>3, <4>1 DEF Push, TypeOK, Records
    <3>2. CASE i # Capacity
      <4>1. SlotFrom(head', i) = SlotFrom(head, i + 1) /\ i + 1 \in 1 .. count
        BY <1>1, <1>2, <3>2, SlotFacts
      <4>2. SlotFrom(head, i + 1) # head
        BY <1>1, <4>1, SlotFacts
      <4>3. items[SlotFrom(head, i + 1)].seq \in Seqs /\ SlotFrom(head, i + 1) \in Slots
        BY <1>1, <4>1, SlotIs DEF IInv, InUse
      <4> QED
        BY <1>1, <1>3, <4>1, <4>2, <4>3 DEF Push, TypeOK
    <3> QED
      BY <3>1, <3>2
  <2>2. \A i \in 1 .. count' : Slot(i)' = SlotFrom(head', i)
    BY <1>1, <1>2, <1>4, SlotFromMod DEF Slot
  <2> QED
    BY <1>2, <2>1, <2>2 DEF InUse
<1> QED
  BY <1>2, <1>3, <1>6, <1>7 DEF IInv, PeekedIsOldest

LEMMA PeekIInv == IInv /\ Peek => IInv'
<1> SUFFICES ASSUME IInv, Peek PROVE IInv'
  OBVIOUS
<1>1. /\ Capacity \in Nat \ {0} /\ head \in Slots /\ count \in 1 .. Capacity /\ TypeOK
  BY BufferAssumption DEF IInv, TypeOK, Peek
<1>2. items[head].seq \in Seqs
  <2>1. Slot(1) = head
    BY <1>1, SlotIs, SlotFacts
  <2> QED
    BY <1>1, <2>1 DEF IInv, InUse
<1>3. peeked' = [seq |-> items[head].seq, named |-> items[head].named, slot |-> head]
      /\ UNCHANGED <<given, items, stored, head, tail, count>>
  BY DEF Peek
<1>4. peeked' \in [seq: Seqs, named: BOOLEAN, slot: Slots]
  BY <1>1, <1>2, <1>3 DEF TypeOK
<1> QED
  BY <1>1, <1>3, <1>4 DEF IInv, TypeOK, InUse, PeekedIsOldest, Slot, Slots, Records

LEMMA PopFacts ==
  ASSUME IInv, Pop
  PROVE  /\ IInv'
         /\ head' = After(head) /\ count' = count - 1 /\ peeked' = Nothing
         /\ UNCHANGED <<given, items, stored>>
<1>1. /\ Capacity \in Nat \ {0} /\ head \in Slots /\ count \in 1 .. Capacity /\ TypeOK
      /\ tail = (head + count) % Capacity
  BY BufferAssumption DEF IInv, TypeOK, Pop
<1>2. /\ head' = After(head) /\ count' = count - 1 /\ peeked' = Nothing
      /\ UNCHANGED <<given, items, stored, tail>>
  BY DEF Pop
<1>3. head' \in Slots
  BY <1>1, <1>2, AfterSlot
<1>4. tail' = (head' + count') % Capacity
  <2>1. (head + count) % Capacity = IF count = Capacity THEN head ELSE SlotFrom(head, count + 1)
    BY <1>1, TailSlot
  <2>2. (head' + count') % Capacity = SlotFrom(head', count)
    <3>1. count' \in 0 .. Capacity /\ count' # Capacity /\ count' + 1 = count
      BY <1>1, <1>2
    <3> QED
      BY <1>3, <3>1, TailSlot
  <2>3. SlotFrom(head', count) = IF count = Capacity THEN head ELSE SlotFrom(head, count + 1)
    BY <1>1, <1>2, SlotFacts
  <2> QED
    BY <1>1, <1>2, <2>1, <2>2, <2>3
<1>5. InUse'
  <2>1. ASSUME NEW i \in 1 .. count' PROVE items'[Slot(i)'].seq \in Seqs
    <3>1. i \in 1 .. Capacity - 1 /\ i + 1 \in 1 .. count
      BY <1>1, <1>2
    <3>2. Slot(i)' = SlotFrom(head', i)
      <4>1. i \in 1 .. Capacity
        BY <1>1, <3>1
      <4> QED
        BY <1>3, <4>1, SlotFromMod DEF Slot
    <3>3. SlotFrom(head', i) = SlotFrom(head, i + 1)
      BY <1>1, <1>2, <3>1, SlotFacts
    <3>4. items[SlotFrom(head, i + 1)].seq \in Seqs
      BY <1>1, <3>1, SlotIs DEF IInv, InUse
    <3> QED
      BY <1>2, <3>2, <3>3, <3>4
  <2> QED
    BY <2>1 DEF InUse
<1> QED
  BY <1>1, <1>2, <1>3, <1>4, <1>5 DEF IInv, TypeOK, PeekedIsOldest

LEMMA NextIInv == IInv /\ [Next]_vars => IInv'
<1> SUFFICES ASSUME IInv, [Next]_vars PROVE IInv'
  OBVIOUS
<1>1. ASSUME NEW r \in Records, Push(r) PROVE IInv'
  BY <1>1, PushRoom, PushFull
<1>2. CASE UNCHANGED vars
  BY <1>2 DEF vars, IInv, TypeOK, InUse, PeekedIsOldest, Slot
<1> QED
  BY <1>1, <1>2, ClearIInv, PeekIInv, PopFacts DEF Next

(* The buffer's variables keep their types, and its tail is where head and *)
(* count say.                                                              *)
THEOREM TypeCorrect == Spec => []TypeOK
<1>1. Spec => []IInv
  BY InitIInv, NextIInv, PTL DEF Spec
<1>2. IInv => TypeOK
  BY DEF IInv
<1> QED
  BY <1>1, <1>2, PTL

-----------------------------------------------------------------------------
(* The refinement.                                                         *)

Entry(i) == Read(items[SlotFrom(head, i)], SlotFrom(head, i))

LEMMA ContentIs ==
  ASSUME IInv
  PROVE  /\ count \in Nat
         /\ Content = [i \in 1 .. count |-> Entry(i)]
         /\ Content \in Seq(Records)
         /\ Len(Content) = count
<1>1. /\ Capacity \in Nat \ {0} /\ head \in Slots /\ count \in 0 .. Capacity /\ TypeOK
  BY BufferAssumption DEF IInv, TypeOK
<1>2. \A i \in 1 .. count : Slot(i) = SlotFrom(head, i) /\ Slot(i) \in Slots
  BY <1>1, SlotIs
<1>3. Content = [i \in 1 .. count |-> Entry(i)]
  BY <1>2 DEF Content, Entry
<1>4. \A i \in 1 .. count : Entry(i) \in Records
  BY <1>1, <1>2 DEF Entry, Read, Records, IInv, InUse, TypeOK
<1> QED
  BY <1>1, <1>3, <1>4

LEMMA InitRefines == Init => Fifo!Init
<1> SUFFICES ASSUME Init PROVE Fifo!Init
  OBVIOUS
<1>1. count = 0 /\ peeked = Nothing /\ given = Nothing
  BY DEF Init
<1>2. Content = <<>> /\ HeldRecord = Nothing
  BY <1>1 DEF Content, HeldRecord
<1> QED
  BY <1>1, <1>2 DEF Fifo!Init

(* What is kept of a record is a record.                                   *)
LEMMA FittedRecord ==
  ASSUME NEW r \in Records
  PROVE  /\ Fitted[r] \in Records
         /\ Fitted[r] = [seq |-> r.seq,
                         text |-> IF r.text = NoText THEN NoText ELSE Cut[r.text]]
  BY BufferAssumption DEF Fitted, Records

LEMMA PushRefines ==
  ASSUME IInv, NEW r \in Records, Push(r)
  PROVE  Fifo!Push(r)
<1>1. /\ Capacity \in Nat \ {0} /\ head \in Slots /\ count \in 0 .. Capacity /\ TypeOK
  BY BufferAssumption DEF IInv, TypeOK
<1>2. /\ Content = [i \in 1 .. count |-> Entry(i)] /\ Len(Content) = count
      /\ Content \in Seq(Records)
  BY ContentIs
<1>3. \A i \in 1 .. count : SlotFrom(head, i) \in Slots
  BY <1>1, SlotIs
<1>4. /\ r.seq \in Seqs /\ r.text \in Texts \cup {NoText}
      /\ Fitted[r] = [seq |-> r.seq, text |-> IF r.text = NoText THEN NoText ELSE Cut[r.text]]
      /\ Fitted[r] \in Records
  BY FittedRecord DEF Records
<1>5. ASSUME tail \in Slots
      PROVE  /\ items'[tail].seq = Fitted[r].seq
             /\ (IF items'[tail].named THEN stored'[tail] ELSE NoText) = Fitted[r].text
             /\ \A slot \in Slots \ {tail} : items'[slot] = items[slot] /\ stored'[slot] = stored[slot]
  <2>1. items'[tail] = [seq |-> r.seq, named |-> r.text # NoText]
        /\ stored'[tail] = (IF r.text # NoText THEN Cut[r.text] ELSE stored[tail])
    BY <1>1, <1>5 DEF Push, TypeOK
  <2>2. items'[tail].seq = r.seq /\ items'[tail].named = (r.text # NoText)
    BY <2>1
  <2>3. Fitted[r].seq = r.seq
        /\ Fitted[r].text = (IF r.text = NoText THEN NoText ELSE Cut[r.text])
    BY <1>4
  <2>4. (IF items'[tail].named THEN stored'[tail] ELSE NoText) = Fitted[r].text
    BY <2>1, <2>2, <2>3
  <2>5. \A slot \in Slots \ {tail} : items'[slot] = items[slot] /\ stored'[slot] = stored[slot]
    BY <1>1 DEF Push, TypeOK
  <2> QED
    BY <2>2, <2>4, <2>5, <2>3
<1>6. head' \in Slots /\ count' \in 0 .. Capacity
  BY <1>1, PushRoom, PushFull DEF IInv, TypeOK
<1>7. Content' = [i \in 1 .. count' |-> Entry(i)']
  <2>1. \A i \in 1 .. count' : i \in 1 .. Capacity
    BY <1>1, <1>6
  <2>2. \A i \in 1 .. count' : Slot(i)' = SlotFrom(head', i)
    BY <1>6, <2>1, SlotFromMod DEF Slot
  <2> QED
    BY <2>2 DEF Content, Entry
<1>8. given' = r
  BY DEF Push
<1>9. CASE count # Capacity
  <2>1. /\ head' = head /\ count' = count + 1 /\ peeked' = peeked
        /\ tail = SlotFrom(head, count + 1)
        /\ \A i \in 1 .. count : SlotFrom(head, i) # tail
    BY <1>9, PushRoom
  <2>2. tail \in Slots
    <3>1. count + 1 \in 1 .. Capacity
      BY <1>1, <1>9
    <3> QED
      BY <1>1, <2>1, <3>1, SlotFromMod
  <2>3. \A i \in 1 .. count : Entry(i)' = Entry(i)
    BY <1>3, <1>5, <2>1, <2>2 DEF Entry, Read
  <2>4. ASSUME NEW i, i = count + 1 PROVE Entry(i)' = Fitted[r]
    BY <1>4, <1>5, <2>1, <2>2, <2>4 DEF Entry, Read
  <2>5. Content' = Append(Content, Fitted[r])
    <3> DEFINE longer == Append(Content, Fitted[r])
    <3>1. /\ longer \in Seq(Records) /\ Len(longer) = count + 1
          /\ longer[count + 1] = Fitted[r]
          /\ \A i \in 1 .. count : longer[i] = Entry(i)
      BY <1>1, <1>2, <1>4
    <3>2. \A i \in 1 .. count + 1 : Entry(i)' = longer[i]
      BY <1>1, <2>3, <2>4, <3>1
    <3> HIDE DEF longer
    <3>3. longer = [i \in 1 .. count + 1 |-> longer[i]]
      BY <3>1
    <3>4. Content' = [i \in 1 .. count + 1 |-> longer[i]]
      BY <1>7, <2>1, <3>2
    <3> QED
      BY <3>3, <3>4 DEF longer
  <2>6. HeldRecord' = HeldRecord
    <3>1. CASE peeked = Nothing
      BY <2>1, <3>1 DEF HeldRecord
    <3>2. CASE peeked # Nothing
      <4>1. peeked.slot = head /\ head # tail /\ head \in Slots
        BY <1>1, <2>1, <3>2, SlotFacts DEF IInv, PeekedIsOldest
      <4>2. stored'[peeked.slot] = stored[peeked.slot]
        BY <1>5, <2>2, <4>1
      <4> QED
        BY <2>1, <4>2 DEF HeldRecord, Read
    <3> QED
      BY <3>1, <3>2
  <2> QED
    BY <1>1, <1>2, <1>9, <1>8, <2>5, <2>6 DEF Fifo!Push
<1>10. CASE count = Capacity
  <2>1. head' = After(head) /\ count' = count /\ peeked' = Nothing /\ tail = head
    BY <1>10, PushFull
  <2>2. \A i \in 1 .. Capacity - 1 : Entry(i)' = Entry(i + 1)
    <3>1. ASSUME NEW i \in 1 .. Capacity - 1 PROVE Entry(i)' = Entry(i + 1)
      <4>1. SlotFrom(head', i) = SlotFrom(head, i + 1)
        BY <1>1, <2>1, SlotFacts
      <4>2. SlotFrom(head, i + 1) # head /\ SlotFrom(head, i + 1) \in Slots
        BY <1>1, <1>3, <1>10, SlotFacts
      <4> QED
        BY <1>1, <1>5, <2>1, <4>1, <4>2 DEF Entry, Read
    <3> QED
      BY <3>1
  <2>3. Entry(Capacity)' = Fitted[r]
    <3>1. SlotFrom(head', Capacity) = tail
      BY <1>1, <2>1, SlotFacts
    <3> QED
      BY <1>1, <1>4, <1>5, <2>1, <3>1 DEF Entry, Read
  <2>4. Content' = Append(Tail(Content), Fitted[r])
    <3>1. /\ Tail(Content) \in Seq(Records) /\ Len(Tail(Content)) = Capacity - 1
          /\ \A i \in 1 .. Capacity - 1 : Tail(Content)[i] = Entry(i + 1)
      BY <1>1, <1>2, <1>10
    <3> DEFINE shifted == Append(Tail(Content), Fitted[r])
    <3>2. /\ shifted \in Seq(Records) /\ Len(shifted) = Capacity
          /\ shifted[Capacity] = Fitted[r]
          /\ \A i \in 1 .. Capacity - 1 : shifted[i] = Entry(i + 1)
      BY <1>1, <1>4, <3>1
    <3>3. \A i \in 1 .. Capacity : Entry(i)' = shifted[i]
      <4>1. \A i \in 1 .. Capacity : i = Capacity \/ i \in 1 .. Capacity - 1
        BY <1>1
      <4> QED
        BY <2>2, <2>3, <3>2, <4>1
    <3> HIDE DEF shifted
    <3>4. shifted = [i \in 1 .. Capacity |-> shifted[i]]
      BY <3>2
    <3>5. Content' = [i \in 1 .. Capacity |-> shifted[i]]
      BY <1>7, <1>10, <2>1, <3>3
    <3> QED
      BY <3>4, <3>5 DEF shifted
  <2>5. HeldRecord' = Nothing
    BY <2>1 DEF HeldRecord
  <2> QED
    BY <1>1, <1>2, <1>10, <1>8, <2>4, <2>5 DEF Fifo!Push
<1> QED
  BY <1>9, <1>10

LEMMA PopRefines ==
  ASSUME IInv, Pop
  PROVE  Fifo!Pop
<1>1. /\ Capacity \in Nat \ {0} /\ head \in Slots /\ count \in 1 .. Capacity /\ TypeOK
  BY BufferAssumption DEF IInv, TypeOK, Pop
<1>2. /\ Content = [i \in 1 .. count |-> Entry(i)] /\ Len(Content) = count
      /\ Content \in Seq(Records)
  BY ContentIs
<1>3. /\ head' = After(head) /\ count' = count - 1 /\ peeked' = Nothing
      /\ UNCHANGED <<given, items, stored>>
  BY PopFacts
<1>4. \A i \in 1 .. count - 1 : i \in 1 .. Capacity - 1 /\ i \in 1 .. Capacity
  BY <1>1
<1>5. \A i \in 1 .. count - 1 : Slot(i)' = SlotFrom(head, i + 1)
  <2>1. head' \in Slots
    BY <1>1, <1>3, AfterSlot
  <2> QED
    BY <1>1, <1>3, <1>4, <2>1, SlotFromMod, SlotFacts DEF Slot
<1>6. Content' = [i \in 1 .. count - 1 |-> Entry(i + 1)]
  BY <1>3, <1>5 DEF Content, Entry, Read
<1>7. /\ Tail(Content) \in Seq(Records) /\ Len(Tail(Content)) = count - 1
      /\ \A i \in 1 .. count - 1 : Tail(Content)[i] = Entry(i + 1)
  BY <1>1, <1>2
<1>8. Content' = Tail(Content)
  <2> DEFINE rest == Tail(Content)
  <2> HIDE DEF rest
  <2>1. /\ rest \in Seq(Records) /\ Len(rest) = count - 1
        /\ \A i \in 1 .. count - 1 : rest[i] = Entry(i + 1)
    BY <1>7 DEF rest
  <2>2. rest = [i \in 1 .. count - 1 |-> rest[i]]
    BY <2>1
  <2>3. Content' = [i \in 1 .. count - 1 |-> rest[i]]
    BY <1>6, <2>1
  <2> QED
    BY <2>2, <2>3 DEF rest
<1>9. Content # <<>>
  BY <1>1, <1>2
<1> QED
  BY <1>3, <1>8, <1>9 DEF Fifo!Pop, HeldRecord

LEMMA PeekRefines ==
  ASSUME IInv, Peek
  PROVE  Fifo!Peek
<1>1. /\ Capacity \in Nat \ {0} /\ head \in Slots /\ count \in 1 .. Capacity /\ TypeOK
  BY BufferAssumption DEF IInv, TypeOK, Peek
<1>2. /\ Content = [i \in 1 .. count |-> Entry(i)] /\ Len(Content) = count
      /\ Content \in Seq(Records)
  BY ContentIs
<1>3. peeked' = [seq |-> items[head].seq, named |-> items[head].named, slot |-> head]
      /\ UNCHANGED <<given, items, stored, head, tail, count>>
  BY DEF Peek
<1>4. Head(Content) = Read(items[head], head)
  <2>1. Head(Content) = Entry(1)
    BY <1>1, <1>2
  <2> QED
    BY <1>1, <2>1, SlotFacts DEF Entry
<1>5. peeked' # Nothing
  <2>1. Slot(1) = head
    BY <1>1, SlotIs, SlotFacts
  <2>2. items[head].seq \in Seqs /\ items[head].named \in BOOLEAN /\ head \in Nat
    BY <1>1, <2>1 DEF IInv, InUse, TypeOK, Slots
  <2>3. peeked' \in [seq: Seqs, named: BOOLEAN, slot: Nat]
    BY <1>3, <2>2
  <2> QED
    BY <2>3, BufferAssumption
<1>6. HeldRecord' = Read(items[head], head)
  BY <1>3, <1>5 DEF HeldRecord, Read
<1>7. Content' = Content /\ given' = given
  BY <1>3 DEF Content, Slot, Read
<1>8. Content # <<>>
  BY <1>1, <1>2
<1> QED
  BY <1>4, <1>6, <1>7, <1>8 DEF Fifo!Peek

LEMMA ClearRefines == Clear => Fifo!Clear
<1> SUFFICES ASSUME Clear PROVE Fifo!Clear
  OBVIOUS
<1>1. count' = 0 /\ peeked' = Nothing /\ given' = given
  BY DEF Clear
<1>2. Content' = <<>> /\ HeldRecord' = Nothing
  BY <1>1 DEF Content, HeldRecord
<1> QED
  BY <1>1, <1>2 DEF Fifo!Clear

(* The ring buffer implements the overwriting FIFO: order, contents and    *)
(* strings survive every wrap-around and reuse of a slot.                  *)
THEOREM RingIsFifo == Spec => IsOverwriteFifo
<1>1. IInv /\ [Next]_vars => [Fifo!Next]_(Fifo!fifoVars)
  <2> SUFFICES ASSUME IInv, [Next]_vars PROVE [Fifo!Next]_(Fifo!fifoVars)
    OBVIOUS
  <2>1. ASSUME NEW r \in Records, Push(r) PROVE Fifo!Next
    BY <2>1, PushRefines DEF Fifo!Next
  <2>2. ASSUME Pop PROVE Fifo!Next
    BY <2>2, PopRefines DEF Fifo!Next
  <2>3. ASSUME Peek PROVE Fifo!Next
    BY <2>3, PeekRefines DEF Fifo!Next
  <2>4. ASSUME Clear PROVE Fifo!Next
    BY <2>4, ClearRefines DEF Fifo!Next
  <2>5. CASE UNCHANGED vars
    BY <2>5 DEF vars, Fifo!fifoVars, Content, HeldRecord, Slot, Read
  <2> QED
    BY <2>1, <2>2, <2>3, <2>4, <2>5 DEF Next
<1>2. Spec => []IInv
  BY InitIInv, NextIInv, PTL DEF Spec
<1> QED
  BY <1>1, <1>2, InitRefines, PTL DEF Spec, Fifo!Spec, IsOverwriteFifo
=============================================================================
