SPECIFICATION FairSpec
CONSTANTS
  Total = 5
  Opened = {1}
  Window = 1
  Loops <- OneAndAnother
  MaxFailures = 0
  MaxGestures = 1
PROPERTIES CurrentLoads
CHECK_DEADLOCK FALSE
