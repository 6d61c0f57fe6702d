SPECIFICATION DiskSpec
CONSTANTS
  k1 = k1
  k2 = k2
  Keys = {k1, k2}
  NoKey = NoKey
  Pages = {0, 5}
  NoPage = NoPage
  Absent = Absent
  NoFile = NoFile
  Hash <- MCHash
  Buckets = {1, 2}
  Factors = {1}
  MaxCapa = 2
  MaxPages = 1
SYMMETRY KeySymmetry
INVARIANTS
  NeverAborts
  SavedComesBack
  TornInventsNothing
  SoundUnlessTorn
