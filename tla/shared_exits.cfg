SPECIFICATION HistorySpec
CONSTANTS
  car = car
  bike = bike
  k1 = k1
  k2 = k2
  k3 = k3
  k4 = k4
  NoSlot = NoSlot
  NoSession = NoSession
  NoRequest = NoRequest
  Slots = {r1, r2}
  SessionIds = {s1, s2}
  Vehicles <- MCVehicles
  Bicycles <- MCBicycles
  Keys <- MCKeys
  Fees <- MCFees
  CheckInRequests <- TwoVehicles
  CheckOutRequests <- MCCheckOuts
  SettingsChoices <- TightSetting
  AdjustDeltas <- TakeOff
  MaxOccupied = 3
  MaxExits = 1
  Operations = {"payment", "emergency", "adjust", "reconcile"}
SYMMETRY Symmetry
VIEW HistoryWithoutAnswers
INVARIANT
  CounterCoversInside
PROPERTIES
  EntryWithinCapacity
  ParkingPromise
