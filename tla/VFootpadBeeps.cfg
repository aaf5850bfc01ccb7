CONSTANTS
  Alerts = {1, 3}
SPECIFICATION Spec
INVARIANT FootpadBeeps
