SPECIFICATION Spec
CONSTANTS
  Own = {}
  Lan = {lan}
  Wire = {lan}
  GraceRounds = 2
  ChanCap = 1
  MaxRounds = 2
  MaxLost = 0
INVARIANT OneRowPerFlow
