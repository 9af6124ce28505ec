SPECIFICATION FairSpec
CONSTANTS
  Total = 5
  Opened = {1}
  Window = 1
  Loops <- OneAndAnother
  MaxFailures = 1
  MaxGestures = 2
INVARIANTS TypeOK OneLoop QueueMarked
PROPERTIES CurrentFirst 
CHECK_DEADLOCK FALSE
