CONSTANTS
  SensorReadings <- MCRideReadings
  UserConfigs <- MCRideConfigs
  DefaultConfig <- MCDefault
  Commands = {"CHARGING_STATE"}
  EepromFails = FALSE
  Sec1 = 2
  Sec2 = 3
  Sec10 = 5
  Ms30 = 1
  Ms100 = 2
  Ms500 = 2
  ChargingTimeout = 2
  MaxDelay = 2
SPECIFICATION HistorySpec
INVARIANTS
  DeadMan
  DarkrideReverseStop
  DirtyLandingWindow
PROPERTIES
  DarkrideEngage
  ChargingBlocksEngage
