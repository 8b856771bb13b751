SPECIFICATION PrSpec
CONSTANTS
  z1 = z1
  z2 = z2
  DayMinutes = 3
  MonthDays = 2
  TicksPerMinute = 2
  Horizon = 15
  MaxVersions = 2
  Tariffs <- MCTariffs
  Starts = {0, 2}
  Packages <- MCOnePackage
  Zones = {z1, z2}
  CarriesCode = TRUE
  NoRate = NoRate
  NoCap = NoCap
  NoUntil = NoUntil
  NoZone = NoZone
INVARIANT PassPaysOverageOnly
