SPECIFICATION FairSpec
CONSTANTS
  s1 = s1
  j1 = j1
  j2 = j2
  c1 = c1
  c2 = c2
  c3 = c3
  c4 = c4
  Students = {s1}
  Jobs = {j1, j2}
  Columns = {c1, c2, c3, c4}
  MaxScore = 2
  MaxFaults = 3
INVARIANTS
  TypeOK
  OneColumn
  OneScorePerStamp
  NothingDueIsHeld
PROPERTY
  GradebookKept
