SPECIFICATION FairSpec
CONSTANTS
  q1 = q1
  q2 = q2
  r1 = r1
  r2 = r2
  w1 = w1
  w2 = w2
  Questions = {q1, q2}
  Requests = {r1, r2}
  Sweeps = {w1}
  MaxFaults = 1
INVARIANTS
  OneSubmissionWhole
  SweepsApartKeepValidity
PROPERTY
  FlooredIsJudged
CHECK_DEADLOCK FALSE
