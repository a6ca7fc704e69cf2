SPECIFICATION PagesSpec
CONSTANTS
  MaxItems = 5
  MaxLimit = 3
CHECK_DEADLOCK FALSE
INVARIANTS EverythingSeen PageFits
