SPECIFICATION FairSpec
CONSTANTS
  Machines = {a, b}
  Displays = {a}
  Exchanges = {x, y}
  MaxCodes = 2
  Nobody = Nobody
INVARIANT HandlesOK
PROPERTIES KeepsPromise JoinAnswered
CHECK_DEADLOCK FALSE
