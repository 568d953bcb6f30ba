\* Two pages, a control of each kind, two changes and two calls, two seconds.
CONSTANTS
  p1 = p1
  p2 = p2
  status = status
  dropOffs = dropOffs
  title = title
  notes = notes
  a = a
  b = b
  blank = blank
  unavailable = unavailable
  NoTimer = NoTimer
  Status = status
  Blank = blank
  Unavailable = unavailable
  Page = {p1, p2}
  Choice = {status}
  Switch = {dropOffs}
  Text = {title}
  Required = {title}
  Rewritten = {title}
  Value = {a, blank, unavailable}
  LinkLife = 0
  MaxClock = 1
  MaxEdits = 2
  MaxRequests = 2
SPECIFICATION EditSpec
INVARIANTS
  PatientOwnerSeesSaved
PROPERTIES
  OvertakenNeverWrites
CHECK_DEADLOCK FALSE
