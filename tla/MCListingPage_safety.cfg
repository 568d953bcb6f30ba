\* Two photos, a limit of two, two calls at a time; any viewer.
CONSTANTS
  p1 = p1
  p2 = p2
  Photo = {p1, p2}
  None = None
  MaxPhotos = 2
  MaxTasks = 2
SPECIFICATION Spec
INVARIANTS
  PageInv
PROPERTIES
  OnlyCountedDownDeleted
  NothingHangs
CHECK_DEADLOCK FALSE
