SPECIFICATION Spec
CONSTANTS
  t1 = t1
  t2 = t2
  t3 = t3
  i1 = i1
  i2 = i2
  Threads = {t1, t2, t3}
  Instances = {i1, i2}
  Owner <- TwoOwners
  MaxEntries = 3
  MaxTime = 3
SYMMETRY SameOwner
INVARIANTS
  VerifiesUnaltered
  AckedDurable
  LinksToEarlierRow
