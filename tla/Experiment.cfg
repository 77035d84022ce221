SPECIFICATION Spec
\* Every attempt ends.
CHECK_DEADLOCK FALSE
CONSTANTS
  Attempts = {1, 2, 3}
  Path <- SharedPath
  Policies <- TwoPolicies
  Runs = 2
INVARIANTS
  AcceptedReportsAreComplete
  NoServerLeftBehind
