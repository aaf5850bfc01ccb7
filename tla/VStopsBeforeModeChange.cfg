CONSTANTS
  SensorReadings <- MCModeReadings
  UserConfigs <- MCConfigs
  DefaultConfig <- MCConfigDefault
  Commands = {"LOCK", "HANDTEST", "FLYWHEEL", "TUNE_OTHER", "TUNE_DEFAULTS", "RT_TUNE", "CFG_SAVE", "CFG_RESTORE", "SET_CFG", "RESTART"}
  EepromFails = FALSE
  Sec1 = 0
  Sec2 = 0
  Sec10 = 0
  Ms30 = 0
  Ms100 = 0
  Ms500 = 0
  ChargingTimeout = 0
  MaxDelay = 0
SPECIFICATION Spec
PROPERTY StopsBeforeModeChange
