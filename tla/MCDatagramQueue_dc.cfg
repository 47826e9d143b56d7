CONSTANTS
  DcRef = dcref
  DcAll = dcall
  Pdo = pdo
  Fprd = fprd
  Frmw = frmw
  Lrw = lrw
  Requesters = {main}
  RequestKinds = {fprd}
  Kinds <- MCKinds
  CyclicKind <- MCCyclicKind
  Size <- MCSize
  FrameCap = 2
  MaxNetdev = 0
  IndexMod = 5
  Lifetime = 0
  ExpiryWindow = 2
  DcClocks = {TRUE, FALSE}
  SyncToRef = FALSE
SPECIFICATION Spec
INVARIANTS
  ListOrdered
PROPERTIES
  NoOvertaking
VIEW MCView
