SPECIFICATION FairSpec
CONSTANTS
  MaxRows = 5
  PageSizes = {1, 2, 3, 7}
  OldLines <- MCOldLines
INVARIANTS
  WrittenInPages
  DeliveredInOrder
  StopsAtTheEnd
  ConnectionAsFound
PROPERTIES
  Ends
CHECK_DEADLOCK FALSE
