SPECIFICATION RosterSpec
CONSTANTS
  m1 = m1
  m2 = m2
  m3 = m3
  sa = sa
  sb = sb
  b1 = b1
  k1 = k1
  Sections = {sa, sb}
  Members = {m1, m2, m3}
  SectionOf <- MCSectionOf
  PageSize = 1
  EndDate <- MCEndDate
  Listings <- DatedListings
  Beats = {b1}
  Tasks = {k1}
  LastDay = 2
  MaxChanges = 1
  MaxSyncs = 2
PROPERTY
  DropsEndEnrollment
CHECK_DEADLOCK FALSE
