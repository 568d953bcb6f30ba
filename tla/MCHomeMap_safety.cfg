\* Two listings in one coarse cell, zoom levels of two resolutions, two mounts.
CONSTANTS
  l1 = l1
  l2 = l2
  wide = wide
  here = here
  there = there
  None = None
  Listing <- MCListing
  Cell <- MCCell
  Res <- MCRes
  CellAt <- MCCellAt
  Zoom <- MCZoom
  Position = {"q1", "q2"}
  MaxMounts = 2
SPECIFICATION Spec
INVARIANTS
  MapInv
PROPERTIES
  SkeletonEnds
  ReloadsStop
CHECK_DEADLOCK FALSE
