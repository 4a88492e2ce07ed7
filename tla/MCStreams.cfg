SPECIFICATION Spec
CONSTANTS
  Directions <- MCDirections
  PlainTexts <- MCPlainTexts
  TaggedTexts <- MCTaggedTexts
  Filters = {TRUE, FALSE}
  MaxPlain = 4
  MaxTagged = 3
  MaxParts = 3
  MaxRecorded = 9
 
INVARIANT WellFormed
INVARIANT EndsTellTheWhole
INVARIANT OutcomeTold
CHECK_DEADLOCK FALSE
