\* The row epoch under a dispatch that is overtaken between check and UPDATE.
SPECIFICATION ElectionSpec
CONSTANTS
  Nodes = {n1, n2}
  Rows = {e1}
  NoNode = NoNode
  MaxEpoch = 3
PROPERTY StampsNeverRegress
CHECK_DEADLOCK FALSE
