CONSTANTS
  Stream = {s1, s2}
  Listings <- MCListings
  Kinds = {"readdir"}
  MinFit = 2
  Shared = FALSE
  Abandons = FALSE
  MaxGot = 6
  MaxOpens = 2
SPECIFICATION FairSpec
INVARIANTS
  TypeOK
  InOrder
  Complete
  SavedIsWanted
PROPERTIES
  ListingEnds
CHECK_DEADLOCK FALSE
