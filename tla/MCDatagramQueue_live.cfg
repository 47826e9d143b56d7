CONSTANTS
  DcRef = dcref
  DcAll = dcall
  Pdo = pdo
  Fprd = fprd
  Frmw = frmw
  Lrw = lrw
  Requesters = {main}
  RequestKinds = {fprd}
  Kinds <- MCKinds
  CyclicKind <- MCCyclicKind
  Size <- MCSize
  FrameCap = 4
  MaxNetdev = 0
  IndexMod = 5
  Lifetime = 0
  ExpiryWindow = 2
  DcClocks = {FALSE}
  SyncToRef = TRUE
SPECIFICATION FairSpec
PROPERTIES
  ImplementsFairService
