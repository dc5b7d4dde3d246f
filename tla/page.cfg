SPECIFICATION Spec
CONSTANTS
  Streams = {s1, s2}
  NoStream = NoStream
  MaxAttempts = 3
  Ranges = {"day"}
  MaxFlights = 2
  Peers = {p1}
  Endpoints = {e1}
  Facts = {"off", "one", "two"}
  Others = {"fr", "he"}
  RightToLeft = {"he"}
  Codes = {c1, c2}
  MaxPolls = 2
  MaxCalls = 1
  None = None
INVARIANTS
  TypeOK
  OnlyTheMountedListens
  LiveHasAFeed
PROPERTIES
  EndedSessionIsNoticed
  ServiceIsFoundAgain
  SignedInIsLetIn
  ScreenComesTrue
  UnpairedLeavesTheScreen
  PairedIsNoticed
