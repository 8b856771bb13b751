SPECIFICATION GatesSpec
CONSTANTS
  NoSlot = NoSlot
  Slots = {r1, r2}
  Buildings = {1, 2}
  LastBuilding = 2
  People = {someone}
  z1 = z1
  z2 = z2
  DayMinutes = 3
  MonthDays = 2
  TicksPerMinute = 2
  Horizon = 15
  MaxVersions = 2
  Tariffs <- MCTariffs
  Starts = {0, 2}
  Packages <- MCPackages
  Zones = {z1, z2}
  CarriesCode = TRUE
  NoRate = NoRate
  NoCap = NoCap
  NoUntil = NoUntil
  NoZone = NoZone
  plateA = plateA
  plateB = plateB
  Plates = {plateA, plateB}
  Confidences = {1, 2}
  WindowSize = 3
  MaxPushes = 5
  Cameras = {cam}
  Predictions <- MCPredictions
  Threshold <- MCThreshold
  MinFrames = 3
  Window = 1
  Persistence = 2
  MaxHistory = 3
  Enough = 4
  Sure = 8
  Late = 1
  LastTick = 3
  MaxFrames = 4
  Nobody = Nobody
  Nothing = Nothing
  OcrEnabled = TRUE
  Boxes <- MCBoxes
  Readings <- MCReadings
  ClassThreshold <- MCClassThreshold
  ReviewThreshold = 7
  NoThreshold = NoThreshold
  NoBox = NoBox
  NoScene = NoScene
  NoReading = NoReading
  west = west
  east = east
  Gates = {west, east}
  Direction <- MCDirection
  Sessions = {s1, s2}
  PageSize = 1
  Simultaneous = FALSE
  LastInstant = 3
  MaxLog = 3
  NoSession = NoSession
  NoGate = NoGate
SYMMETRY MCSymmetry
INVARIANTS
  FeeByTheMinute
  VotedPlateStands
  UnreviewedPlateWasRead
  GateLogInTimeline
  PagesMissNone
PROPERTIES
  FeeNeverFalls
  AlarmsCountFrames
  FireRaisesAlarm
