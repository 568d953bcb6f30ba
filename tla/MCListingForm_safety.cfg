\* Three mounts of the form, two submissions, three handlers, one link.
CONSTANTS
  MaxForms = 3
  MaxSubmissions = 2
  MaxTasks = 3
  MaxClicks = 1
SPECIFICATION Spec
INVARIANTS
  OnceEach
  ListingFormInv
PROPERTIES
  CancelWithdrawsListing
CHECK_DEADLOCK FALSE
