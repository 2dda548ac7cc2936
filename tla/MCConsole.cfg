SPECIFICATION FairSpec
CONSTANTS
  strtol <- MCstrtol
  strtol16 <- MCstrtol16
  strtof <- MCstrtof
  aton <- Mcaton
  AclOf <- MCAclOf
  RangeOf <- MCRangeOf
  TimeOf <- MCTimeOf
  AuthNames = {"open"}
  I2cType <- MCI2cType
  KeyType <- MCKeyType
  Valid <- MCValid
  VSENSOR_COUNT = 2
  DNS_MAX_SERVERS = 2
  SNTP_MAX_SERVERS = 2
  MAX_ACL_ENTRIES = 2
  SSH_MAX_PUB_KEYS = 1
  Lines <- MCLines
  Documents <- MCDocuments
  IdOk <- MCIdOk
  Names <- MCNames
  Default <- MCDefault
  FlashFaults <- MCFaults
  MaxLines = 3
  MaxPasted = 3
  UploadTime = 2
  PemTime = 1
PROPERTIES
  RefusedChangesNothing
  OwnSensorOnly
  SavedSurvives
  UploadAllOrNothing
  PasteEnds
CHECK_DEADLOCK FALSE
