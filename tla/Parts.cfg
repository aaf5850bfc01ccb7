CONSTANTS
  a = a
  b = b
  c = c
  Items <- MCItems
  Length = 3
  WordSize = 8
  Alerts = {1, 3}
  Types = {"NONE", "DUTY_SPEED", "DUTY_CONTINUOUS", "ERROR_TEMPERATURE"}
  Byte = 4
  VibrateTicks = 2
  ClickTicks = 1
  MaxClicks = 2
  Angle = 3
  Slack = 1
  MaxBack = 3
  Shortest = 1
  Longest = 4
  Grace = 3
  BmsTimeout = 1
  Messages <- MCMessages
  Allocated = 3
  Targets = {0, 1}
  Prime = 5
  Configurers = {"aux", "command"}
  Frequencies = {1, 2, 3, 4}
  Tolerance = 2
  Components = 2
SPECIFICATION PartsSpec
INVARIANTS
  TypeOK
  IterateAgrees
  MoveHonoursGrace
  ValueIsMean
  FrequencyApplied
  BarsMatch
PROPERTIES
  ImplementsLog
  AlertsEnd
  Silence
  WantedIsPlayed
  FeedbackEnds
  StopIsEarned
  SequencesApart
  FaultsAreTold
  ChangesEndWhereTheyWent
  HeadlightsFollow
