CONSTANTS
  Users = {app}
  Scan = scan
  Nobody = nobody
  MaxSlaves = 2
SPECIFICATION FairSpec
INVARIANTS
  TypeOK
  TableMatchesBus
PROPERTIES
  StartProceeds
  ScanEnds
