CONSTANTS
  Users = {app, shell}
  Scan = scan
  Nobody = nobody
  MaxSlaves = 1
SPECIFICATION Spec
INVARIANTS
  OneSender
  SomeSender
  Settled
  TimerStartsOnce
