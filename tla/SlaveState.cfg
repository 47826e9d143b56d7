CONSTANTS
  Features = {{}, {"coe", "pdo_assign", "foe", "dc"}}
  Requests = {"BOOT"}
  SyncWaitCount = 1
SPECIFICATION FairSpec
INVARIANTS
  TypeOK
PROPERTIES
  
  ConfigEnds
  Converges
  StopEnds

\* A stop that waits with scan_lock and a scan thread that waits for the lock stop for good.
CHECK_DEADLOCK FALSE
