SPECIFICATION Spec
CONSTANTS
  ann = ann
  bob = bob
  cat = cat
  c1 = c1
  c2 = c2
  c3 = c3
  i1 = i1
  i2 = i2
  i3 = i3
  course = course
  instructor = instructor
  k1 = k1
  k2 = k2
  w1 = w1
  w2 = w2
  Comments = {c1, c2}
  Authors = {ann, bob, cat}
  Streams = {course, instructor}
  LastWeek = 2
  AuthorOf <- MCAuthorOf
  WeekOf <- MCWeekOf
  StreamOf <- MCStreamOf
  Threshold = 2
  AttemptCap = 1
  MaxText = 2
  Sweepers = {w1}
  Cutters = {k1}
  InFlightDrains = FALSE
INVARIANT
  ReadTextWasModerated
