\* Two places, two texts, three requests on the wire.
CONSTANTS
  p1 = p1
  p2 = p2
  t1 = t1
  t2 = t2
  Place = {p1, p2}
  Text = {t1, t2}
  Empty = Empty
  Nothing = Nothing
  MaxRequests = 3
SPECIFICATION AddressSpec
INVARIANTS
  SelectionIsShown
  SearchInv
PROPERTIES
  TheirsOnceTouched
SYMMETRY Names
CHECK_DEADLOCK FALSE
