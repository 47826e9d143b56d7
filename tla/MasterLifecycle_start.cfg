CONSTANTS
  Users = {app}
  Scan = scan
  Nobody = nobody
  MaxSlaves = 2
SPECIFICATION Spec
INVARIANTS
  StartAfterScan
