SPECIFICATION AcSpec
CONSTANTS
  anna = anna
  bert = bert
  p1 = p1
  p2 = p2
  NoSlot = NoSlot
  Slots = {r1, r2}
  Buildings = {1, 2}
  LastBuilding = 2
  People = {anna}
  Passwords = {p1, p2}
  TokenIds = {t1, t2}
  MaxVersion = 2
  Changes <- MCChanges
  Untouched = Untouched
  NoVersion = NoVersion
INVARIANT RevokedStaysRevoked
