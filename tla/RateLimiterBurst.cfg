\* One rule, whose script draws the same number for every call; clocks that agree.
SPECIFICATION Spec
CONSTANTS
  Limit = 2
  Unit = 2
  Draws = {1}
  MaxLag = 0
  MaxLead = 0
  MaxTime = 8
  MaxDenied = 1
  MaxRepeated = 2
INVARIANT NeverOverAdmits
CHECK_DEADLOCK FALSE
