SPECIFICATION Spec
CONSTANTS
  f1 = f1
  f2 = f2
  d = d
  Flows = {f1}
  Dst <- OneDest
  HourLen = 2
  Raw = 2
  Keep = 3
  MaxNow = 6
INVARIANTS
  TypeOK
  NothingInvented
  RollupsAreWhole
  RecentFlowHasEndpoint
