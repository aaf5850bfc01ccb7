CONSTANTS
  Commands = {"FLYWHEEL_OFF", "FLYWHEEL_ON"}
  MaxPitch = 90
SPECIFICATION FairSpec
PROPERTY AbortEndsFlywheel
