SPECIFICATION Spec
CONSTANTS
  car = car
  bike = bike
  k1 = k1
  k2 = k2
  k3 = k3
  k4 = k4
  NoSlot = NoSlot
  NoSession = NoSession
  NoRequest = NoRequest
  Slots = {r1}
  SessionIds = {s1, s2}
  Vehicles <- MCVehicles
  Bicycles <- MCBicycles
  Keys <- MCKeys
  Fees <- MCFees
  CheckInRequests <- MCCheckIns
  CheckOutRequests <- MCCheckOuts
  SettingsChoices <- MCSettings
  AdjustDeltas <- NoDeltas
  MaxOccupied = 6
  MaxExits = 1
  Operations = {"payment", "emergency"}
SYMMETRY Symmetry
VIEW WithoutAnswers
INVARIANT
  CounterMatchesLedger
