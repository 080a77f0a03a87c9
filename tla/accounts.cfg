SPECIFICATION Spec
CONSTANTS
  Requests = {q1, q2, q3, q4}
  Emails = {e1, e2}
  None = None
  MaxTokens = 2
SYMMETRY Symmetric
INVARIANTS TypeOK EmailsUnique SingleUse
PROPERTIES ChangesAsked
CHECK_DEADLOCK FALSE
