\* Three slots, records with two values, three strings or none.
CONSTANTS
  s1 = s1
  s2 = s2
  t1 = t1
  t2 = t2
  t3 = t3
  Seqs = {s1, s2}
  Texts = {t1, t2, t3}
  NoText = NoText
  Cut <- MCCut
  Nothing = Nothing
  Capacity = 3
SPECIFICATION Spec
INVARIANT TypeOK
PROPERTY IsOverwriteFifo
