SPECIFICATION Spec
CONSTANTS
  d1 = d1
  None = None
  Frames <- TwoFrames
  MaxZoom = 3
  Wants <- TwoWants
  Steps <- TwoSteps
  Keys = {k1}
  Devices = {d1, d2}
  Labels = {x, y}
  MaxEdits = 1
  Nobody = Nobody
  MaxId = 2
  MaxWipes = 1
  MaxRows = 1
  MaxSeen = 1
  MaxQueue = 1
  MaxFlights = 2
  Findings = {f1, f2}
  SubjectOf <- OneDevice
  MaxChanges = 2
  MaxLoads = 2
  Nothing = Nothing
  Machines <- ThreeMachines
  Offers = {d1}
  MaxHistory = 1
  MaxEvents = 2
  Layers = {"mine", "all"}
  OtherLayers = {"all", "peer"}
  Terms = {"ab", "abc"}
  Ranges = {"day", "week"}
  Hours = {"noon"}
  Filters = {"all"}
  Hosts = {d1}
  Orgs = {e1}
  Crowded <- Everyone
  Alphabet = {"A", "1"}
  Confused = {"I"}
  ReadAs <- AsOne
  Foreign = {"-", "?"}
  CodeChars = 5
  CodeGroup = 2
  Dash = "-"
  Pasted <- FivePasted
  Scores = {6, 7, 9}
  Times = {1, 2}
  Asked = 4
INVARIANTS
  TypeOK
  AnswersAreOfTheirQuestion
  CanvasIsCurrent
  FrameIsCovered
  CaretFollowsTheTyping
  TypingIsNotFought
  NothingAnnouncedTwice
PROPERTIES
  PollsNeverGoBack
