SPECIFICATION FairSpec
CONSTANTS
  k1 = k1
  k2 = k2
  k3 = k3
  k4 = k4
  Keys = {k1, k3}
  NoKey = NoKey
  Pages = {5, 6}
  NoPage = NoPage
  Absent = Absent
  Hash <- MCHash
  Buckets = {1, 2}
  Factors = {1, 2}
  MaxCapa = 4
  MaxPages = 2
PROPERTIES
  ImplementsDictionary
  AppendCompletes
