\* One line, three revisions of the order and one disturbance.
CONSTANTS
  Lines = {l1}
  Quantity = 1
  Mode = "reserve_until_fulfilled"
  Numbered = TRUE
  MaxRevisions = 3
  MaxFaults = 1
SPECIFICATION FairSpec
INVARIANTS
  TreatmentIsTrue
  DemandIsSettled
PROPERTIES
  ShippedIsNeverRestored
  StatusNeverGoesBack
  EveryChangeArrives
CHECK_DEADLOCK FALSE
