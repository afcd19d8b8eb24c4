CONSTANTS
  MaxId = 3
  PageSize = 1
  MaxChanges = 5
SPECIFICATION FairListSpec
CONSTRAINT Focus
CHECK_DEADLOCK FALSE
INVARIANTS WalksComplete
PROPERTIES DescriptionsHidden Ends
