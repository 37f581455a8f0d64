\* Three threads and two messages over a queue of three slots.
CONSTANTS
  t1 = t1
  t2 = t2
  t3 = t3
  m1 = m1
  m2 = m2
  Threads = {t1, t2, t3}
  Messages = {m1, m2}
  NoMessage = NoMessage
  Capacity = 3
SYMMETRY Symmetry
SPECIFICATION Spec
INVARIANTS
  TypeOK
  NoLostWakeup
PROPERTY IsChannel
