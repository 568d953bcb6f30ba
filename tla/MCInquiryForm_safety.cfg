\* Two listings, two tasks at a time, one link opened in the tab.
CONSTANTS
  l1 = l1
  l2 = l2
  Listing = {l1, l2}
  None = None
  MaxTasks = 2
  MaxClicks = 1
SPECIFICATION Spec
INVARIANTS
  EndTellsTruth
  FormInv
PROPERTIES
  CancelWithdraws
CHECK_DEADLOCK FALSE
