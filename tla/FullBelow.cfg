SPECIFICATION Spec
CONSTANTS
  m1 = m1
  r1 = r1
  a = a
  i = i
  j = j
  t1 = t1
  t2 = t2
  Node = {r1, a, i, j}
  Leaf = {i, j}
  Kids <- MCKids
  Below <- MCBelow
  Map = {m1}
  Root <- MCRoot
  Walker = {t1, t2}
  Of <- MCOf
  Own = {a}
  PackNode = {a}
  Filters = {TRUE}
INVARIANT FullBelowIsResident
