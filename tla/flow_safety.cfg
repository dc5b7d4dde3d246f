SPECIFICATION Spec
CONSTANTS
  Own = {own}
  Lan = {lan}
  Wire = {lan}
  GraceRounds = 2
  ChanCap = 1
  MaxRounds = 4
  MaxLost = 0
INVARIANTS
  TypeOK
  NoRowIsLeftActive
  TrackedReachesTheRecord
PROPERTIES
  ClosedOnlyAfterGrace
