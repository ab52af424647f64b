\* The copy of an order arrives by webhook before its row is found.
CONSTANTS
  Lines = {l1}
  Quantity = 1
  Mode = "reserve_until_fulfilled"
  Numbered = TRUE
  MaxRevisions = 1
  MaxFaults = 0
SPECIFICATION Spec
INVARIANT CopyIsNotASale
CHECK_DEADLOCK FALSE
