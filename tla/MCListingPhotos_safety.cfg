\* Three uploads to two listings of at most two photos, a queue of two, one
\* crash.
CONSTANTS
  u1 = u1
  u2 = u2
  u3 = u3
  l1 = l1
  l2 = l2
  Upload = {u1, u2, u3}
  NoUpload = NoUpload
  Listing = {l1, l2}
  MaxPhotos = 2
  MaxQueueDepth = 2
  MaxCrashes = 1
SPECIFICATION Spec
INVARIANTS
  RowsHaveObjects
  NoSilentOrphans
  PlacesKept
  QueueInv
SYMMETRY Interchangeable
CHECK_DEADLOCK FALSE
