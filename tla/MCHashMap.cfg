SPECIFICATION Spec
CONSTANTS
  k1 = k1
  k2 = k2
  k3 = k3
  k4 = k4
  Keys = {k1, k2, k3, k4}
  NoKey = NoKey
  Pages = {5}
  NoPage = NoPage
  Absent = Absent
  Hash <- MCHash
  Buckets = {1, 2, 4}
  Factors = {1, 2}
  MaxCapa = 4
  MaxPages = 1
INVARIANTS
  TypeOK
  NoDuplicates
  ChainsUnbroken
  FindIsExact
  CntIsOccupied
  ExtendCountsKeys
  NeverAborts
  RehashProgress
  ReturnedIndex
PROPERTIES
  IndexStable
