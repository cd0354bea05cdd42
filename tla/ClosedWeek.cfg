SPECIFICATION ClosedWeekSpec
CONSTANTS
  c1 = c1
  c2 = c2
  t1 = t1
  l1 = l1
  l2 = l2
  h1 = h1
  s1 = s1
  s2 = s2
  w1 = w1
  w2 = w2
  d1 = d1
  d2 = d2
  Nobody = Nobody
  NoLead = NoLead
  Comments = {c1, c2}
  Instructors = {t1}
  Leaders = {l1, l2}
  LeadingAs <- MCLeadingAs
  Slots = {s1, s2}
  ReportStreams <- MCReportStreams
  StreamOf <- MCStreamOf
  Walkers = {w1, w2}
  Flaggings <- MCFlaggings
  MaxDecisions = 3
  Teachers = {t1}
  LeadPool = {l1}
  Chairs = {h1}
  Doors = {d1, d2}
  LastWeek = 2
  OpensAt <- MCOpensAt
  LastTime = 3
  MaxAnswers = 2
  MaxPolicies = 2
  q1 = q1
  q2 = q2
  Readers = {q1, q2}
  Comparable = {1, 2, 3, 4, 5, 6}
  ThisTerm = {1, 2, 3, 4, 5}
  NoOne = NoOne
  LeadMaps <- MCLeadMaps
  Grants <- MCGrants
  Purviews <- MCPurviews
  Turnouts <- MCTurnouts
  MinSections = 2
  MinRespondents = 3
  u1 = u1
  u2 = u2
  Pupils = {u1, u2}
  PageFor <- MCPageFor
  Pages = 2
  Sayings <- MCSayings
  LengthWeeks = 2
  TermStart = 1
  SectionStart = 1
  DaysPerWeek = 3
  OpensAfter = 0
  ClosesAfter = 1
  Items = 1
  LastDay = 6
  MaxSayings = 3
SYMMETRY Interchangeable
INVARIANTS
  DecisionsFollowTheLog
  ServedSummariesOmitTheRemoved
  SummariesAreOneWalks
  OneRightfulAuthor
  ShownWeeksStayShown
  NothingThinCanBeComputed
  WhoAnsweredIsCounted
  OnlyLateAddsAreExcused
PROPERTIES
  OnlyAnAnswerMovesTheHold
  LedgersMoveOn
CHECK_DEADLOCK FALSE
