\* Two requests of one or two gleaners (or of the owner) over two days.
CONSTANTS
  r1 = r1
  r2 = r2
  r3 = r3
  ann = ann
  bob = bob
  olga = olga
  i1 = i1
  i2 = i2
  i3 = i3
  Request = {r1, r2}
  User = {ann, bob, olga}
  Owner = olga
  NoUser = NoUser
  Row = {i1, i2}
  NoRow = NoRow
  DayLength = 2
  MaxClock = 3
  MaxSends = 2
SPECIFICATION Spec
INVARIANTS
  OkMeansDone
  RefusedAfterContact
  OneInquiryPerDay
SYMMETRY Interchangeable
CHECK_DEADLOCK FALSE
