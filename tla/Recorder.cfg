CONSTANTS
  Length = 2
  InitialDecimation = 1
  Settings <- MCSettings
  MaxTime = 3
SPECIFICATION Spec
INVARIANTS
  TypeOK
  TimesIncrease
PROPERTIES
  DownloadStable
