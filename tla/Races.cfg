CONSTANTS
  Commands = {"LOCK", "SET_CFG", "FLYWHEEL_OFF", "FLYWHEEL_ON"}
  MaxPitch = 90
SPECIFICATION Spec
INVARIANTS
  LockStored
  TempTuneNotStored
