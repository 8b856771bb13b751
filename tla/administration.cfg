SPECIFICATION AdministrationSpec
CONSTANTS
  NoSlot = NoSlot
  Slots = {r1, r2}
  Buildings = {1, 2}
  LastBuilding = 2
  anna = anna
  bert = bert
  People = {anna}
  Members = {anna, bert}
  Staff = {anna, bert}
  Assigned <- MCAssigned
  Capacities = {0, 1, 2}
  Physical = 2
  MaxRevision = 2
  Forms <- MCForms
  Copies <- MCCopies
  Busy = {1}
  p1 = p1
  p2 = p2
  Passwords = {p1, p2}
  TokenIds = {t1, t2}
  MaxVersion = 2
  Changes <- MCChanges
  Untouched = Untouched
  NoVersion = NoVersion
  LaneIds = {lane1, lane2}
  LaneNames = {north, south}
  Codes = {cam}
  Correlations = {x1}
  NoCorrelation = NoCorrelation
  ReportRate = 2
  MaxClock = 2
  MaxFacts = 2
  NoName = NoName
  SystemAdmins = {bert}
  OwnedIds = {row1, row2}
  DefaultBuilding = 1
  NoBuilding = NoBuilding
  NoRow = NoRow
  gift = gift
  staff = staff
  pass = pass
  v1 = v1
  v2 = v2
  Classes = {staff}
  Products = {pass}
  Vehicles = {v1, v2}
  Invites = {gift}
  ClassOf <- MCClassOf
  RefersTo <- MCRefersTo
  Imports <- MCImports
  Limits = {1, 2}
  Offers <- MCOffers
  LastDay = 2
  MaxSales = 3
  NoClass = NoClass
  NoLimit = NoLimit
SYMMETRY MCSymmetry
INVARIANTS
  OneCounterRow
  NoLockCycle
  RevivedByLostUpdate
  OneRowPerKey
  ReportsLimited
  NoForeignReference
  NoOverlappingPackages
PROPERTIES
  NoUnseenChange
  CapacityCoversParked
  EntryIntoOpenLot
  OnlyOwnRows
  SalesWithinLimits
