CONSTANTS
  Stream = {s1}
  Listings <- MCLong
  Kinds = {"readdirplus"}
  MinFit = 2
  Shared = FALSE
  Abandons = FALSE
  MaxGot = 6
  MaxOpens = 1
SPECIFICATION Spec
INVARIANTS
  Complete
CHECK_DEADLOCK FALSE
