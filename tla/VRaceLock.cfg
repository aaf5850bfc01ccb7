CONSTANTS
  Commands = {"LOCK"}
  MaxPitch = 90
SPECIFICATION Spec
INVARIANT DisabledDoesNotRide
