SPECIFICATION NoticesSpec
CONSTANTS
  MaxId = 2
  MaxWipes = 1
  MaxRows = 2
  MaxSeen = 2
  MaxQueue = 1
  MaxFlights = 1
INVARIANT NewFindingsAreAnnounced
