SPECIFICATION Spec
CONSTANTS
  Requests = {q1, q2, q3}
  None = None
  GraphEdits <- MCGraphEdits
  ShareLimit = 2
  MaxPersists = 2
SYMMETRY Symmetric
INVARIANTS TypeOK NumbersContiguous ConfigInHistory AuditTrail
INVARIANTS NothingOrphaned ViewsCounted CyclesRefused
PROPERTIES RowsStayGone
CHECK_DEADLOCK FALSE
