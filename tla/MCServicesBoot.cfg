SPECIFICATION BootSpec
CONSTANTS
  Configs <- MCSyncConfigs
  LogServer = {"log1", "log2"}
  Any = "any"
  RejoinDelay = 2
  ConnectTime = 3
  WatchdogDelay = 2
  VSENSOR_COUNT = 2
  Devices = {"a", "b"}
  Sources <- MCSources
  Boots <- MCBoots
  Written = {2}
  InternalTemp = 20
  DeviceTemp <- MCDeviceTemp
  MaxCommands = 2
  Conns = {c1, c2}
  TextLen = 3
  MaxPages = 4
PROPERTIES
  BootEnds
CHECK_DEADLOCK FALSE
