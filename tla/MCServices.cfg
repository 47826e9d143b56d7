CONSTANTS
  Services = {"sii", "categories", "mailbox", "layout", "topology", "time", "list"}
  ListRequesters = {"main", "shell"}
  SiiWords = 4
  CatRange = 32
  CatFirst = 2
  CatMax = 14
  CatSizes = {0, 1, 4, 5, 12, 30}
  CatCount = 3
  MbxRxSize = 22
  MbxTxSize = 22
  MbxUsers = {"scan", "app"}
  MbxIndices = {1, 2}
  MbxLength <- MCMbxLength
  MbxCalls <- MCMbxCalls
  MbxBudget = 4
  PdoSlaves = 2
  PdoSms = {0, 2, 3}
  PdoConfigs <- MCPdoConfigs
  DcSlaves = 4
  DcModulus = 64
  DcDelays = {1, 3}
  DcClocks <- MCDcClocks
  TsModulus = 6
  TsReaders = 2
  TsHorizon = 14
SPECIFICATION MCSpec
INVARIANTS
  SiiTypeOK SiiImageFaithful SiiWrittenInOrder SiiSuccess
  MbxTypeOK MbxOwnExecution MbxUploadIntact MbxCleanSucceeds
  PdoDomains PdoWindows PdoGetters
  DcTopologyFound DcDelaysRight
  CatParsedInside
  TsArmNeverBehind TsArmExact TsRiscvExact
  ListSound ListSendsAll
CHECK_DEADLOCK FALSE
