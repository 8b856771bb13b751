SPECIFICATION FairSpec
CONSTANTS
  car = car
  bike = bike
  k1 = k1
  k2 = k2
  k3 = k3
  k4 = k4
  NoSlot = NoSlot
  NoSession = NoSession
  NoRequest = NoRequest
  Slots = {r1, r2}
  SessionIds = {s1, s2}
  Vehicles <- MCVehicles
  Bicycles <- MCBicycles
  Keys <- MCKeys
  Fees <- MCFees
  CheckInRequests <- FewCheckIns
  CheckOutRequests <- UnpaidCheckOuts
  SettingsChoices <- OneSetting
  AdjustDeltas <- TakeOff
  MaxOccupied = 3
  MaxExits = 1
  Operations = {"payment", "emergency", "adjust", "reconcile"}
VIEW WithoutAnswers
PROPERTIES
  RequestAnswered
  CounterFoundStands
