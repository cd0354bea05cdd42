SPECIFICATION AccessSpec
CONSTANTS
  d1 = d1
  d2 = d2
  x = x
  y = y
  r1 = r1
  r2 = r2
  a1 = a1
  a2 = a2
  p1 = p1
  p2 = p2
  q1 = q1
  q2 = q2
  g1 = g1
  g2 = g2
  n1 = n1
  n2 = n2
  st1 = st1
  st2 = st2
  v1 = v1
  v2 = v2
  Unstated = Unstated
  Launches = {1, 2, 3, 4}
  Deliveries = {d1, d2}
  ContextOf <- MCContextOf
  CourseOf <- MCCourseOf
  CodeOf <- MCCodeOf
  AddressOf <- MCAddressOf
  LimbOf <- MCLimbOf
  Unreadable = {}
  Underivable = {4}
  InFlight = 1
  Remembered = 3
  Patience = 1
  MaxNow = 4
  Logins = {1}
  Calls = {r1, r2}
  Lifetime = 2
  LastMoment = 4
  MaxSwitches = 3
  m1 = m1
  m2 = m2
  m3 = m3
  sa = sa
  sb = sb
  b1 = b1
  k1 = k1
  Sections = {sa, sb}
  Members = {m1, m2, m3}
  SectionOf <- MCSectionOf
  PageSize = 1
  EndDate <- MCEndDate
  Listings <- MCListings
  Beats = {b1}
  Tasks = {k1}
  LastDay = 2
  MaxChanges = 2
  MaxSyncs = 2
  Desks = {a1, a2}
  Faculty = {p1, p2}
  Catalog = {q1, q2}
  Unled = Unled
  Files <- MCFiles
  MaxCommits = 4
  CareStaff = {g1, g2}
  Notes = {n1, n2}
  Students = {st1, st2}
  WriterOf <- MCWriterOf
  Reveals = {v1, v2}
SYMMETRY AccessSymmetry
INVARIANTS
  AdmittedOnce
  NoHalfProvisioned
  OneLiveSession
  NobodyListedIsEnded
  MappedLeadsHoldTheRole
  EveryNameIsOnRecord
PROPERTIES
  ClassIsAsRead
  ApplyChangesWhatWasPreviewed
CHECK_DEADLOCK FALSE
