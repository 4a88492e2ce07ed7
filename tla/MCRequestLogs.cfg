SPECIFICATION LogSpec
CONSTANTS
  LogEntries = {1, 2}
  Writers = {w1, w2}
  FinalDay = 4
  DaysPerMonth = 2
  Policies <- MCPolicies
  PageSizes = {1, 2}
  MaxAccidents = 2
  MaxCleanups = 1
INVARIANTS NoLogVanishes   PagesAreSlices
CHECK_DEADLOCK FALSE
SYMMETRY WriterSymmetry
