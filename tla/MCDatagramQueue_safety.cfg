CONSTANTS
  DcRef = dcref
  DcAll = dcall
  Pdo = pdo
  Fprd = fprd
  Frmw = frmw
  Lrw = lrw
  Requesters = {main, shell}
  RequestKinds = {fprd}
  Kinds <- MCKinds
  CyclicKind <- MCCyclicKind
  Size <- MCSize
  FrameCap = 4
  MaxNetdev = 0
  IndexMod = 5
  Lifetime = 3
  ExpiryWindow = 5
  DcClocks = {FALSE}
  SyncToRef = TRUE
SPECIFICATION Spec
INVARIANTS
  PdoUnlinkedWhenStopped
  TypeOK
  WaiterHandshake
  OwnAnswer
PROPERTIES
  ImplementsService
SYMMETRY MCSymmetry
VIEW MCView
